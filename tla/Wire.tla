-------------------------------- MODULE Wire --------------------------------
(***************************************************************************)
(* What a record goes through between the host and the ingestion API, and  *)
(* what both sides conclude: the engine bridge (bridge.rs), redaction      *)
(* (utils.rs), JSON for the store and for the batch envelope (models.rs,   *)
(* transport.rs), encryption (encryption.rs), compression, signing         *)
(* (signing.rs), the classification of the answer, and the status report   *)
(* (agent.rs).                                                             *)
(*                                                                         *)
(* FlushPipeline and Transport have the concurrency of the flushes, the    *)
(* breaker and the limiter; here is one flush task, one status task and    *)
(* the contents of what they send.  An attempt that breaker or limiter     *)
(* keep back looks like one that got no answer.                            *)
(*                                                                         *)
(* A JSON document is the set of its leaves, each a path of keys (an array *)
(* index is the key "[]") and a value.  A byte string is the document it   *)
(* spells and whether it is compressed; ciphertext is a record only the    *)
(* key opens.                                                              *)
(***************************************************************************)
EXTENDS Integers, Sequences, SequencesExt, FiniteSetsExt

CONSTANTS
    Facade,             \* records the engine or the host may emit, by name
    Settings,           \* configurations of the agent
    SensitiveHeaders,   \* config.sensitive_headers
    Lower,              \* trim and to_lowercase of every key that occurs
    MaxRedactDepth,
    CompressionThreshold,   \* in items
    BufferSize,
    Attempts,           \* retry_attempts + 1
    MaxRetryAfter,      \* MAX_RETRY_AFTER_SECS
    RetryAfterHeaders,  \* Retry-After headers a server may send
    Statuses,           \* status codes it may answer with
    MaxItems, MaxSends,
    MaxDetours          \* bound on status pushes and crashes together

Kind == {"events", "metrics"}
Senders == {"flush", "status"}

ASSUME WireAssumption ==
    /\ BufferSize \in Nat
    /\ MaxItems \in 1..BufferSize       \* overflow is FlushPipeline's subject
    /\ MaxSends \in Nat /\ MaxDetours \in Nat
    /\ Attempts \in Nat \ {0}
    /\ MaxRetryAfter \in Nat \ {0}
    /\ SensitiveHeaders \subseteq DOMAIN Lower

(* Status codes are numbers, 0 for no answer.  A Retry-After header is a   *)
(* number of seconds, of any sign, or something else.                      *)
ASSUME ServerAssumption ==
    /\ Statuses \subseteq Nat
    /\ \A header \in RetryAfterHeaders : header[1] = "int" => header[2] \in Int

VARIABLES
    cfg,                \* the configuration
    spawned,            \* bridge tasks on the runtime, not yet run
    buffer,             \* the two queues, by kind
    stored,             \* JSON texts in the durable store
    pc, body, attempt, delay,   \* the two senders
    batch, todo,        \* the flush: drained batch, parts still to send
    sent, failed,       \* counters of confirmed and of requeued items
    statusFailures, lastPush,
    \* history: records emitted, what the server ingested and refused, what
    \* the agent let go of, drops the hook saw, and what the bounds spent
    emitted, ingested, refused, confirmed, hooked, used

hostVars == <<cfg, emitted, spawned>>
sendVars == <<pc, body, attempt, delay>>
flushVars == <<batch, todo>>
statVars == <<sent, failed, statusFailures, lastPush>>
serverVars == <<ingested, refused>>
endVars == <<confirmed, hooked>>
vars == <<hostVars, buffer, stored, sendVars, flushVars, statVars, serverVars, endVars, used>>

Ids(items) == {items[i].id : i \in DOMAIN items}

-----------------------------------------------------------------------------
(* The bridge.  A JSON value is a type and a contents.                     *)

Str(text) == <<"str", text>>
Whole(n) == <<"int", n>>
None == <<"none">>

(* What the host and the engine can hand over: only an event has a status  *)
(* code and a pattern, and may go without its number.  Keys are spelled    *)
(* out along the path to each leaf of the metadata.                        *)
ASSUME FacadeAssumption ==
    \A name \in DOMAIN Facade :
        LET r == Facade[name] IN
        /\ r.via \in {"bridge", "host"} /\ r.kind \in Kind
        /\ r.num \in {"some", "nan", "none"}
        /\ r.kind = "metrics" => r.num # "none" /\ r.code = None /\ r.pattern = None
        /\ \A leaf \in r.doc : leaf.path \in Seq(DOMAIN Lower)

Field(doc, name) == {leaf \in doc : leaf.path = <<name>>}
U16Max == 65535

(* A typed wire field from the metadata: absent when the key is, or when   *)
(* its value has another type or does not fit.                             *)
StringKwarg(doc, name) ==
    LET found == {leaf.value : leaf \in {l \in Field(doc, name) : l.value[1] = "str"}}
    IN  IF found = {} THEN None ELSE CHOOSE v \in found : TRUE

StatusCode(doc) ==
    LET found == {leaf.value : leaf \in {l \in Field(doc, "status_code") :
                                            l.value[1] = "int" /\ l.value[2] \in 0..U16Max}}
    IN  IF found = {} THEN None ELSE CHOOSE v \in found : TRUE

(* id is the model's name for the emission; key the idempotency key, a     *)
(* fresh UUID that every event is stamped with.  num is a floating point   *)
(* field, response_time or value: "some", "nan", or for an event "none".   *)
NewEvent(n) ==
    [id |-> n, kind |-> "events", key |-> n, num |-> "none", doc |-> {},
     code |-> None, pattern |-> None]

NewMetric(value, n) ==
    [id |-> n, kind |-> "metrics", key |-> 0, num |-> value, doc |-> {},
     code |-> None, pattern |-> None]

ToAgentEvent(r, n) ==
    [NewEvent(n) EXCEPT !.num = r.num, !.doc = r.doc,
                        !.code = StatusCode(r.doc),
                        !.pattern = StringKwarg(r.doc, "pattern_matched")]

ToAgentMetric(r, n) == [NewMetric(r.num, n) EXCEPT !.doc = r.doc]

(* The builders, for a host that makes its records itself: the typed       *)
(* fields are what it sets.  A key of its own is taken to be as unique as  *)
(* the one it overrides.                                                   *)
BuildEvent(r, n) ==
    [NewEvent(n) EXCEPT !.num = r.num, !.doc = r.doc, !.code = r.code, !.pattern = r.pattern]

BuildMetric(r, n) == [NewMetric(r.num, n) EXCEPT !.doc = r.doc]

MetricTypes == {"request_count", "response_time", "error_rate", "bandwidth_usage",
                "threat_level", "block_rate", "cache_hit_rate"}

(* MetricType::from_str_name finds a type of that name.                    *)
FromStrName(name) == name \in MetricTypes

(* send_event and send_metric of the bridge: the record is converted on    *)
(* the caller's thread and buffered by a task of its own.  A metric of an  *)
(* unknown type is an error for the engine and goes nowhere.               *)
Emit(name) ==
    LET r == Facade[name]
        n == Len(emitted) + 1
    IN
    /\ Len(emitted) < MaxItems
    /\ r.via = "bridge"
    /\ r.kind = "metrics" => FromStrName(r.type)
    /\ spawned' = spawned \cup
          {IF r.kind = "events" THEN ToAgentEvent(r, n) ELSE ToAgentMetric(r, n)}
    /\ emitted' = Append(emitted, name)
    /\ UNCHANGED <<cfg, buffer, stored, sendVars, flushVars, statVars, serverVars, endVars, used>>

-----------------------------------------------------------------------------
(* Redaction.                                                              *)

SensitiveKeys == {Lower[h] : h \in SensitiveHeaders} \ {""}
IsSensitive(name) == Lower[name] \in SensitiveKeys

Redacted == Str("[REDACTED]")

(* redact_inner on one leaf: the first sensitive key down to the depth     *)
(* limit hides everything below it.                                        *)
RedactLeaf(leaf, depth) ==
    LET hits == {i \in DOMAIN leaf.path : i <= depth /\ IsSensitive(leaf.path[i])}
    IN  IF hits = {} THEN leaf
        ELSE [path |-> SubSeq(leaf.path, 1, Min(hits)), value |-> Redacted]

RedactValue(doc) == {RedactLeaf(leaf, MaxRedactDepth) : leaf \in doc}
RedactTags(doc) == {RedactLeaf(leaf, 1) : leaf \in doc}

(* Mutant of Redact: metadata is treated like a flat map of tags.          *)
RedactFlat(item) == [item EXCEPT !.doc = RedactTags(@)]

Redact(item) ==
    [item EXCEPT !.doc = IF item.kind = "events" THEN RedactValue(@) ELSE RedactTags(@)]

-----------------------------------------------------------------------------
(* JSON of a record: what is not a finite number is null.                  *)

ToJson(item) == [item EXCEPT !.num = IF @ = "some" THEN "some" ELSE "null"]

(* A null reads back as no response time; a metric must have its value.    *)
Parses(json) == json.kind = "metrics" => json.num # "null"

(* Mutant of FromJson: the idempotency key is not read but made anew.      *)
FromJsonNewKey(json) ==
    [json EXCEPT !.num = IF @ = "null" THEN "none" ELSE @,
                 !.key = IF @ = 0 THEN 0 ELSE @ + MaxItems]

FromJson(json) == [json EXCEPT !.num = IF @ = "null" THEN "none" ELSE @]

Enabled(item) == IF item.kind = "events" THEN cfg.enableEvents ELSE cfg.enableMetrics

(* send_event and send_metric: redaction, the store, the queue.            *)
Enqueue(item) ==
    IF Enabled(item)
    THEN /\ buffer' = [buffer EXCEPT ![item.kind] = Append(@, Redact(item))]
         /\ stored' = IF cfg.durable THEN stored \cup {ToJson(Redact(item))} ELSE stored
    ELSE UNCHANGED <<buffer, stored>>

(* A bridge task runs, in any order ...                                    *)
SendRecord(item) ==
    /\ item \in spawned
    /\ spawned' = spawned \ {item}
    /\ Enqueue(item)
    /\ UNCHANGED <<cfg, emitted, sendVars, flushVars, statVars, serverVars, endVars, used>>

(* ... and a host without the bridge makes the call itself.                *)
Report(name) ==
    LET r == Facade[name]
        n == Len(emitted) + 1
    IN
    /\ Len(emitted) < MaxItems
    /\ r.via = "host"
    /\ Enqueue(IF r.kind = "events" THEN BuildEvent(r, n) ELSE BuildMetric(r, n))
    /\ emitted' = Append(emitted, name)
    /\ UNCHANGED <<cfg, spawned, sendVars, flushVars, statVars, serverVars, endVars, used>>

-----------------------------------------------------------------------------
(* The body of a request.  Bytes are compressed or not.                    *)

NoItems == [events |-> <<>>, metrics |-> <<>>]
NoBody == [label |-> "none", clear |-> NoItems, sealed |-> {}, report |-> "none"]

(* items_value: the items under their own key, the other list empty.       *)
ItemsValue(items) ==
    LET k == Head(items).kind
    IN  [NoItems EXCEPT ![k] = [i \in DOMAIN items |-> ToJson(items[i])]]

(* PayloadEncryptor::encrypt: sealed under the project key (the nonce is   *)
(* random and the model leaves it out, as it does the batch id).           *)
Encrypt(payload) == {[key |-> "project", text |-> payload]}

BuildBatchBody(items) ==
    [NoBody EXCEPT !.label = Head(items).kind, !.clear = ItemsValue(items)]

BuildEncryptedBody(items) ==
    [NoBody EXCEPT !.label = "events/encrypted", !.sealed = Encrypt(ItemsValue(items))]

BatchBody(items) == IF cfg.encrypted THEN BuildEncryptedBody(items) ELSE BuildBatchBody(items)

Size(b) ==
    LET p == IF b.sealed = {} THEN b.clear ELSE (CHOOSE c \in b.sealed : TRUE).text
    IN  Len(p.events) + Len(p.metrics)

Plain(b) == [gzip |-> FALSE, content |-> b]
Gzip(b) == [gzip |-> TRUE, content |-> b]

MaybeCompress(b) ==
    IF cfg.compress /\ Size(b) >= CompressionThreshold THEN Gzip(b) ELSE Plain(b)

SignPayload(bytes) == IF cfg.secret = "none" THEN {} ELSE {[by |-> cfg.secret, over |-> bytes]}

(* Mutant of Request: the signature covers the bytes on the wire.          *)
RequestSignsWire(b) ==
    LET bytes == MaybeCompress(b)
    IN  [url |-> b.label, bytes |-> bytes, encoding |-> bytes.gzip, signature |-> SignPayload(bytes)]

(* attempt: compressed for the wire, signed as it was before.              *)
Request(b) ==
    LET bytes == MaybeCompress(b)
    IN  [url |-> b.label, bytes |-> bytes, encoding |-> bytes.gzip, signature |-> SignPayload(Plain(b))]

-----------------------------------------------------------------------------
(* Status and health.  open: does the breaker report OPEN?                 *)

Buffered == Len(buffer["events"]) + Len(buffer["metrics"])

(* failure_rate compared with a percentage: failed / max(total, 1).        *)
RateAbove(percent) == failed * 100 > percent * (IF sent + failed = 0 THEN 1 ELSE sent + failed)

(* Mutant of ComputeStatus: only events are counted as buffered.           *)
ComputeStatusEvents(open) ==
    IF open \/ Len(buffer["events"]) * 100 >= BufferSize * 90 \/ RateAbove(10)
    THEN "degraded" ELSE "healthy"

ComputeStatus(open) ==
    IF open \/ Buffered * 100 >= BufferSize * 90 \/ RateAbove(10)
    THEN "degraded" ELSE "healthy"

(* health_check of a running agent.                                        *)
HealthCheck(open) == ~open /\ Buffered * 100 < BufferSize * 95 /\ ~RateAbove(50)

-----------------------------------------------------------------------------
(* The senders.                                                            *)

Init ==
    /\ cfg \in Settings
    /\ spawned = {} /\ stored = {}
    /\ buffer = [k \in Kind |-> <<>>]
    /\ pc = [s \in Senders |-> "idle"]
    /\ body = [s \in Senders |-> NoBody]
    /\ attempt = [s \in Senders |-> 0]
    /\ delay = [s \in Senders |-> 0]
    /\ batch = <<>> /\ todo = <<>>
    /\ sent = 0 /\ failed = 0
    /\ statusFailures = 0 /\ lastPush = "none"
    /\ emitted = <<>>
    /\ ingested = {} /\ refused = {} /\ confirmed = {} /\ hooked = {}
    /\ used = [sends |-> 0, detours |-> 0]

Goto(s, place) == pc' = [pc EXCEPT ![s] = place]

(* A sender starts a retry loop for a body of its own; "wire": a request   *)
(* made of the body is under way.                                          *)
Begin(s, b) ==
    /\ Goto(s, "wire")
    /\ body' = [body EXCEPT ![s] = b]
    /\ attempt' = [attempt EXCEPT ![s] = 0]
    /\ UNCHANGED delay

Drain(k) ==
    /\ pc["flush"] = "idle" /\ buffer[k] # <<>>
    /\ used["sends"] < MaxSends
    /\ batch' = buffer[k] /\ todo' = <<buffer[k]>>
    /\ buffer' = [buffer EXCEPT ![k] = <<>>]
    /\ Begin("flush", BatchBody(buffer[k]))
    /\ used' = [used EXCEPT !.sends = @ + 1]
    /\ UNCHANGED <<hostVars, stored, statVars, serverVars, endVars>>

(* push_status_once: the status is computed under the mutex and sent       *)
(* without it.                                                             *)
PushStatus ==
    /\ pc["status"] = "idle"
    /\ used["detours"] < MaxDetours
    /\ \E open \in BOOLEAN :
          Begin("status", [NoBody EXCEPT !.label = "status", !.report = ComputeStatus(open)])
    /\ used' = [used EXCEPT !.detours = @ + 1]
    /\ UNCHANGED <<hostVars, buffer, stored, flushVars, statVars, serverVars, endVars>>

(* The sleep after a failed attempt is over: the same body once more.      *)
Attempt(s) ==
    /\ pc[s] = "sleep"
    /\ Goto(s, "wire")
    /\ delay' = [delay EXCEPT ![s] = 0]
    /\ UNCHANGED <<hostVars, buffer, stored, body, attempt, flushVars, statVars, serverVars,
                   endVars, used>>

-----------------------------------------------------------------------------
(* The server, and what the agent makes of its answer.  Status 0 is no     *)
(* answer; ack is what a 200 holds.  When the body of an answer cannot be  *)
(* read it decides nothing, so one such answer stands for them all.        *)

Ack == {"success", "empty", "unsuccessful", "errors", "garbage"}
Answer(n, ack, header, read) == [status |-> n, ack |-> ack, retryAfter |-> header, read |-> read]
Answers ==
    {Answer(n, "empty", None, TRUE) : n \in Statuses \ {200, 429}}
    \cup {Answer(200, a, None, TRUE) : a \in Ack}
    \cup {Answer(200, "success", None, FALSE)}
    \cup {Answer(429, "empty", h, TRUE) : h \in RetryAfterHeaders}

(* The server undoes the compression, checks the signature against the     *)
(* result, and opens what is sealed with the project's key.                *)
Gunzip(q) == [gzip |-> q.bytes.gzip /\ ~q.encoding, content |-> q.bytes.content]
Authentic(q) == cfg.secret = "none" \/ q.signature = {[by |-> cfg.secret, over |-> Gunzip(q)]}
ServerItems(q) ==
    LET b == q.bytes.content
        opened == {c.text : c \in {x \in b.sealed : x.key = "project"}}
        text == IF b.sealed = {} THEN b.clear ELSE CHOOSE t \in opened : TRUE
    IN  text.events \o text.metrics

(* What the server may have ingested of the items of a request that it     *)
(* answered so.                                                            *)
MayIngest(all, answer) ==
    LET clean == answer.status \in 201..299 \/ (answer.status = 200 /\ answer.ack \in {"success", "empty"})
    IN  IF clean THEN {all}
        ELSE IF answer.status = 200 THEN SUBSET all
        ELSE IF answer.status = 0 \/ answer.status >= 500 THEN {{}, all}
        ELSE {{}}

(* Mutant of ParseAck: the list of errors is not looked at.                *)
ParseAckSuccessOnly(ack) ==
    IF ack = "garbage" THEN "retryable"
    ELSE IF ack = "unsuccessful" THEN "partial" ELSE "accepted"

ParseAck(ack) ==
    IF ack = "garbage" THEN "retryable"
    ELSE IF ack \in {"unsuccessful", "errors"} THEN "partial" ELSE "accepted"

NonRetryable == {400, 404, 422}

ClassifyResponse(answer) ==
    CASE answer.status = 200 -> ParseAck(answer.ack)
      [] answer.status \in 201..299 -> "accepted"
      [] answer.status = 429 -> "rateLimited"
      [] answer.status = 413 -> "tooLarge"
      [] answer.status \in NonRetryable -> "permanent"
      [] OTHER -> "retryable"

(* No answer, or one whose body could not be read, decides nothing.        *)
ClassifyAttempt(answer) ==
    IF answer.status = 0 \/ ~answer.read THEN "retryable" ELSE ClassifyResponse(answer)

DefaultRetryAfter == 60

(* Mutant of ParseRetryAfter: a negative value is taken as it is.          *)
ParseRetryAfterSigned(header) == IF header[1] = "int" THEN header[2] ELSE DefaultRetryAfter

(* Seconds, not below zero; a date, an infinite or a missing value is the  *)
(* default.                                                                *)
ParseRetryAfter(header) ==
    IF header[1] # "int" THEN DefaultRetryAfter
    ELSE IF header[2] < 0 THEN 0 ELSE header[2]

Capped(seconds) == IF seconds > MaxRetryAfter THEN MaxRetryAfter ELSE seconds

-----------------------------------------------------------------------------
(* Ends of a send.                                                         *)

Ended(s) ==
    /\ Goto(s, "idle")
    /\ body' = [body EXCEPT ![s] = NoBody]
    /\ attempt' = [attempt EXCEPT ![s] = 0]
    /\ UNCHANGED delay

(* SendOutcome for the flush: confirmed batches leave the store, failed    *)
(* ones go back to the front of their queue.                               *)
FlushEnds(outcome) ==
    /\ Ended("flush")
    /\ batch' = <<>> /\ todo' = <<>>
    /\ IF outcome = "failed"
       THEN /\ buffer' = [buffer EXCEPT ![Head(batch).kind] = batch \o @]
            /\ failed' = failed + Len(batch)
            /\ UNCHANGED <<stored, sent, confirmed>>
       ELSE /\ stored' = {json \in stored : json.id \notin Ids(batch)}
            /\ sent' = IF outcome = "accepted" THEN sent + Len(batch) ELSE sent
            /\ confirmed' = confirmed \cup Ids(batch)
            /\ UNCHANGED <<buffer, failed>>
    /\ UNCHANGED <<statusFailures, lastPush, used>>

(* ... and for a status push: what was accepted or refused for good resets *)
(* the count of consecutive failures.                                      *)
PushEnds(outcome) ==
    /\ Ended("status")
    /\ statusFailures' = IF outcome = "failed" THEN statusFailures + 1 ELSE 0
    /\ lastPush' = IF outcome = "failed" THEN "failed" ELSE "ok"
    /\ UNCHANGED <<buffer, stored, flushVars, sent, failed, confirmed, used>>

SendEnds(s, outcome) == IF s = "flush" THEN FlushEnds(outcome) ELSE PushEnds(outcome)

(* Go on with parts of the batch, the first of them in a body of its own.  *)
SendParts(parts) ==
    /\ Begin("flush", BatchBody(Head(parts)))
    /\ todo' = parts
    /\ UNCHANGED <<buffer, stored, batch, statVars, confirmed, used>>

PartConfirmed(outcome) ==
    IF Len(todo) = 1 THEN FlushEnds(outcome) ELSE SendParts(Tail(todo))

(* The host's on_error hook hears of dropped records, and if it panics the *)
(* agent goes on.                                                          *)
FireHook(ids) == hooked' = hooked \cup ids

(* The part in hand is given up, confirmed, and reported to the hook.      *)
DropPart(outcome) ==
    /\ refused' = refused \cup Ids(Head(todo))
    /\ FireHook(Ids(Head(todo)))
    /\ PartConfirmed(outcome)

Halves(items) ==
    LET mid == Len(items) \div 2
    IN  <<SubSeq(items, 1, mid), SubSeq(items, mid + 1, Len(items))>>

(* The attempt failed: sleep and try again, or the send has failed.        *)
Retry(s, seconds) ==
    IF attempt[s] + 1 = Attempts THEN SendEnds(s, "failed")
    ELSE /\ Goto(s, "sleep")
         /\ attempt' = [attempt EXCEPT ![s] = @ + 1]
         /\ delay' = [delay EXCEPT ![s] = seconds]
         /\ UNCHANGED <<body, buffer, stored, flushVars, statVars, confirmed, used>>

Kept == UNCHANGED <<refused, hooked>>

(* One arm of send_with_retry and of its callers per class of answer.      *)
Handle(s, answer) ==
    LET class == ClassifyAttempt(answer) IN
    \/ /\ class = "accepted" /\ Kept
       /\ IF s = "flush" THEN PartConfirmed("accepted") ELSE PushEnds("accepted")
    \/ class = "partial" /\ Kept /\ SendEnds(s, "failed")
    \/ class = "permanent" /\ s = "flush" /\ DropPart("permanent")
    \/ class = "permanent" /\ s = "status" /\ Kept /\ PushEnds("permanent")
    \/ class = "tooLarge" /\ s = "status" /\ Kept /\ PushEnds("failed")
    \/ /\ class = "tooLarge" /\ s = "flush"
       /\ cfg.encrypted \/ Len(Head(todo)) = 1
       /\ DropPart("permanent")
    \/ /\ class = "tooLarge" /\ s = "flush"
       /\ ~cfg.encrypted /\ Len(Head(todo)) > 1 /\ Kept
       /\ SendParts(Halves(Head(todo)) \o Tail(todo))
    \/ class = "rateLimited" /\ Kept /\ Retry(s, Capped(ParseRetryAfter(answer.retryAfter)))
    \/ class = "retryable" /\ Kept /\ Retry(s, 1)

Reply(s) ==
    /\ pc[s] = "wire"
    /\ LET all == Range(ServerItems(Request(body[s]))) IN
       \E answer \in Answers :
          /\ \E items \in MayIngest(all, answer) : ingested' = ingested \cup items
          /\ Handle(s, answer)
    /\ UNCHANGED hostVars

(* What the store holds of a kind and can be read; and the one sequence of *)
(* the records of a set in the order of their keys.                        *)
Loaded(k) == {FromJson(json) : json \in {x \in stored : x.kind = k /\ Parses(x)}}

InKeyOrder(items) ==
    {queue \in Bijection(1..Cardinality(items), items) :
        \A i, j \in DOMAIN queue : i < j => queue[i].id < queue[j].id}

(* The process dies; the next one reloads the store.                       *)
CrashAndReload ==
    /\ used["detours"] < MaxDetours
    /\ used' = [used EXCEPT !.detours = @ + 1]
    /\ \E events \in InKeyOrder(Loaded("events")), metrics \in InKeyOrder(Loaded("metrics")) :
          buffer' = [k \in Kind |-> IF k = "events" THEN events ELSE metrics]
    /\ spawned' = {}
    /\ pc' = [s \in Senders |-> "idle"]
    /\ body' = [s \in Senders |-> NoBody]
    /\ attempt' = [s \in Senders |-> 0]
    /\ delay' = [s \in Senders |-> 0]
    /\ batch' = <<>> /\ todo' = <<>>
    /\ sent' = 0 /\ failed' = 0 /\ statusFailures' = 0 /\ lastPush' = "none"
    /\ UNCHANGED <<cfg, emitted, stored, serverVars, endVars>>

Next ==
    \/ \E name \in DOMAIN Facade : Emit(name) \/ Report(name)
    \/ \E item \in spawned : SendRecord(item)
    \/ \E k \in Kind : Drain(k)
    \/ PushStatus \/ CrashAndReload
    \/ \E s \in Senders : Attempt(s) \/ Reply(s)

Spec == Init /\ [][Next]_vars

-----------------------------------------------------------------------------
(* Types.  A delay is what Duration::from_secs_f64 takes without a panic,  *)
(* whatever the server's Retry-After says.                                 *)
TypeOK ==
    /\ pc \in [Senders -> {"idle", "sleep", "wire"}]
    /\ attempt \in [Senders -> 0..Attempts - 1]
    /\ delay \in [Senders -> 0..MaxRetryAfter]
    /\ sent \in Nat /\ failed \in Nat /\ statusFailures \in 0..MaxDetours
    /\ \A k \in Kind : \A i \in DOMAIN buffer[k] : buffer[k][i].kind = k
    /\ LET open == UNION {Ids(todo[i]) : i \in DOMAIN todo} IN
       Ids(batch) = open \cup (Ids(batch) \cap (refused \cup {x.id : x \in ingested}))

(* Is a leaf under a configured key, within the documented depth?          *)
Hidden(r, path) ==
    \E i \in DOMAIN path : /\ i <= (IF r.kind = "events" THEN MaxRedactDepth ELSE 1)
                           /\ \E h \in SensitiveHeaders : Lower[h] # "" /\ Lower[h] = Lower[path[i]]

(* A record the server reads is the one the engine emitted: every leaf but *)
(* the hidden ones is there; of those, a key on the path is, with the mark *)
(* in the place of what it held; and nothing else is.                      *)
Faithful(json, r) ==
    /\ json.kind = r.kind
    /\ \A leaf \in r.doc :
          IF Hidden(r, leaf.path)
          THEN /\ leaf \in json.doc => leaf.value = Redacted
               /\ \E i \in DOMAIN leaf.path :
                     [path |-> SubSeq(leaf.path, 1, i), value |-> Redacted] \in json.doc
          ELSE leaf \in json.doc
    /\ \A leaf \in json.doc : leaf \in r.doc \/ leaf.value = Redacted
    /\ json.num = "some" <=> r.num = "some"
    /\ r.via = "host" => json.code = r.code /\ json.pattern = r.pattern

(* Whatever combination of encryption, compression and signing is          *)
(* configured, and after any retry, split, requeue or reload: the server   *)
(* authenticates the request, reads exactly the records of the part in     *)
(* hand, unaltered but for redaction, and with a project key nothing of    *)
(* them travels in clear.                                                  *)
ServerReads ==
    \A s \in Senders : pc[s] = "wire" =>
        LET q == Request(body[s])
            items == ServerItems(q)
        IN  /\ ~Gunzip(q).gzip /\ Authentic(q)
            /\ s = "flush" =>
                  /\ [i \in DOMAIN items |-> items[i].id] =
                        [i \in DOMAIN Head(todo) |-> Head(todo)[i].id]
                  /\ \A i \in DOMAIN items : Faithful(items[i], Facade[emitted[items[i].id]])
                  /\ cfg.encrypted => q.url = "events/encrypted" /\ q.bytes.content.clear = NoItems

(* models.rs: the idempotency key is "used for server-side deduplication". *)
(* However often an event is sent again (retry, requeue, reload after a    *)
(* crash), the server sees it under one key and with one contents, and no  *)
(* other event under that key.                                             *)
EventsOnce ==
    \A x, y \in ingested :
        /\ x.id = y.id => x = y
        /\ x.kind = "events" /\ y.kind = "events" /\ x.key = y.key => x.id = y.id

(* The agent lets go of a record only when the server has ingested it, or  *)
(* has refused it for good and the hook was told; and a durable record it  *)
(* has not let go of is in memory, or a metric whose value is no number    *)
(* and so cannot be read back from its JSON.                               *)
LetGo ==
    /\ confirmed \subseteq {x.id : x \in ingested} \cup (refused \cap hooked)
    /\ \A x \in stored :
          /\ x.id \notin confirmed
          /\ x.id \in Ids(batch) \cup Ids(buffer[x.kind]) \/ ~Parses(x)

(* The two views of the agent's health agree: a running agent that         *)
(* health_check calls unhealthy reports itself degraded, and a failure     *)
(* streak of the pushes goes with a last push that failed.                 *)
StatusHonest ==
    /\ \A open \in BOOLEAN : ~HealthCheck(open) => ComputeStatus(open) = "degraded"
    /\ statusFailures > 0 <=> lastPush = "failed"
=============================================================================
