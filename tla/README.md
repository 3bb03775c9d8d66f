# A TLA+ verification of guard-agent-rs

guard-agent-rs is a telemetry agent: it takes security events and metrics from
a host program, buffers them, optionally persists them in Redis, and delivers
them in batches to an ingestion API. This directory models the agent from its
construction to the bytes on the wire, model-checks the models with TLC, and
proves with TLAPS all of their safety properties and both refinements, for
every size; liveness stays with TLC. Line numbers refer to files under `src/src/`.

## Inventory

| Component | State | Operations | Interacts with | Hard behaviour | What makes it correct |
|---|---|---|---|---|---|
| Ingest (`agent.rs` 410–565) | two bounded queues, overflow policy | `send_event`, `send_metric` | flush (watermark), store | concurrent callers, full buffer, blocking | capacity, no accepted record lost, callers return |
| Flush pipeline (`agent.rs` 893–1193) | permits, retry gates, streaks, counters | `flush_if_needed`, `flush_buffer`, `flush_events`, `flush_metrics` | queues, transport, store | several critical sections per flush, two permits, requeue over new arrivals | at-least-once delivery, order, gates, counters that add up |
| Durable store (`persistence.rs`) | keyed records with TTL | set, get, list, delete, clear | ingest, flush, reload | failure, timeout after effect, expiry | a durable copy until the batch is confirmed |
| Lifecycle (`agent.rs` 316–409, 588–604, 690–781, 1176–1364) | `running`, loop handles, in-flight tasks | `start` with reload, `stop`, `clear_buffer`, attach, the three loops | all of the above | start and stop overlapping, lost notifications, aborts, crash | no orphaned loop, a stop that stops, calls that return |
| Circuit breaker (`circuit_breaker.rs`) | failures, opened_at, half_open | `admit`, `record_*`, `state` | every request | late answers in any state | open exactly after a run of failures, quiet for a window |
| Rate limiter (`rate_limiter.rs`) | recorded call times | `acquire`, `retry_after` | every request | window edge, shared by all tasks | at most `max_calls` in any window |
| Transport (`transport.rs`) | two retry loops, request counters | `send_batch`, `send_status`, `fetch_rules` | breaker, limiter, server | retries, 413 splitting, lost answers | truthful outcomes, termination |
| Rules cache (`agent.rs` 622–635, 1295–1364) | cached document, time of its update, failure count | `get_dynamic_rules`, rules loop | transport | two refreshes overlapping across the fetch | served rules fresh, new rules arrive |
| Status and health (`agent.rs` 605–687, 784–821, 1235–1284) | push streak, last outcome | `push_status`, `compute_status`, `health_check`, `get_stats` | queues, breaker, transport | two views computed at different times | the views agree |
| Wire format (`bridge.rs`, `models.rs`, `utils.rs`, `encryption.rs`, `signing.rs`) | none of its own | convert, redact, serialise, seal, compress, sign, classify the answer | ingest, transport, server | re-sends after retries, splits and crashes; one step undoing another | the server reads what was emitted, minus the secrets |
| Construction (`config.rs`, `install_id.rs`, `transport.rs` 228–314) | the install-id file | `validate`, `resolve_install_id`, `HttpTransport::new` | file system | several processes, crash inside a write, odd values | a sound agent or every problem named |
| Errors, logging utilities | none | messages, formatting | – | – | not modelled (see below) |

`PROJECT.json` lists the hazards this inventory led to, each at its line, with
the properties that cover it.

## Modules

* `FlushPipeline` – ingest, flush, store, reload and clear, composed because the
  one core mutex ties them together. One action is one region between two
  releases of that mutex, or one call to the transport or the store made outside
  it.
* `Delivery` – what the agent promises about records, without queues or flushes:
  at-least-once delivery. `FlushDelivery` has the refinement mapping.
* `CircuitBreaker`, `RateLimiter` – the two shared guards of the transport; one
  operator per method, each of which holds its own mutex throughout.
* `Transport` – extends both and adds the retry loops. A task is one caller of
  `send_batch`, `send_status` or `fetch_rules`.
* `SendCall` – what one call of the transport promises its caller.
  `TransportSend` has the refinement mapping.
* `Lifecycle` – `start` and `stop` called by several tasks, the loops they spawn
  and join, the flush tasks they wait for.
* `RulesCache` – the cached rules document under overlapping refreshes.
* `Startup` – `GuardAgent::new` in several processes that share a home directory.
* `Wire` – the contents of records, bodies and answers, from the host to the
  server and back, and the status report.
* `FlushPipelineMC`, `TransportMC`, `RulesCacheMC`, `StartupMC`, `WireMC` –
  instances for TLC (`Lifecycle` needs none).
* The TLAPS proofs: `FlushPipelineProofs` (types, counters), `FlushSafetyProofs`
  (capacity, no silent loss, the refinement of `Delivery`), `FlushOrderProofs`
  (held once, durable until confirmed, order, gates), `TransportProofs`
  (breaker, limiter, send contract, the refinement of `SendCall`),
  `LifecycleProofs`, `RulesCacheProofs`, `StartupProofs`, `WireProofs`.

The modules meet at stated contracts. `FlushPipeline.SendBatch` assumes of the
transport what `SendContract` and `SendCall` say. `Lifecycle` and `RulesCache`
assume that flushes and fetches end, which is `CallsReturn` of Transport.
FlushPipeline's assumptions on sizes are what `ReadySound` of Startup shows of
every configuration that is accepted. `Wire` has one flush and one status task
and leaves their concurrency to the others.

### FlushPipeline and the code

A record is a number given when it is accepted. Its Redis key begins with the
clock in nanoseconds read under the core mutex, so number order is the order in
which `list_keys` returns keys (the system clock is assumed not to step
backwards). `buffer[k]` is `CoreState.events` or `.metrics`; an item carries
whether it has a key. `retryAfter[k]` is `none`, `closed` or `expired` for the
retry instant, `due` says that `flush_interval` has passed since the last
flush. Each element of `Workers` is a permit of the flush semaphore; `pc` walks
through `flush_if_needed`, `flush_events`, `flush_metrics`:

| `pc` | next action | code |
|---|---|---|
| `need` | `FlushIfNeeded` | 963–979 |
| `gate` | `ReadGate` | 983–986 |
| `drain` | `Drain` | 987–1000 |
| `send` | `SendBatch` | 1002–1006 and `send_batch` |
| `confirm`, `account` | `ConfirmKeys`, `AccountAccepted` | 1007–1019 |
| `confirmDrop` | `ConfirmDropped` | 1020–1022 |
| `requeue`, `backoff`, `forget` | `Requeue`, `Backoff`, `ForgetEvicted` | 1023–1061 |

`main` is the task that calls `start` and `stop`; while it is `list` or `load`
it holds the core mutex, so no other critical section runs. Deletions by
`confirm_keys` do: it holds the mutex only to clone the handler (902–905), so
`ConfirmKeys`, `ConfirmDropped` and `ForgetEvicted` may fall into a reload. The
reload reads a key, evicts and pushes in one step (`ReloadKey`): under the mutex
only such a deletion can come between, and it leaves the same after the push.
Any number of `clear_buffer` calls may have namespaces still to clear
(`clearing`). There is one store: a handler that is attached or connected in
place of another (317, 335) is taken to lead to the same records. `requeue`'s loop is
given in closed form: the batch goes back in front, what exceeds the capacity
falls off the back. A store command may fail without effect or, for a timeout,
with it; a namespace is cleared in one step, as `InMemoryRedisStore` does it.
The histories `delivered`, `discarded`, `volatile`, `lost` say what became of a
record; `pushed` and `perm` what the counters are compared with. `StatsAddUp`
counts what the flushes have in hand place by place (`InBatches`: the places of
all their batches; `InCounts`: the numbers they are still to add). `discarded`
means a documented rule applied: eviction from a full buffer, permanent
rejection by the server, `clear_buffer`.

`FlushDelivery` maps `held` of `Delivery` to what is stored, buffered or in a
batch. A drain, a requeue and a reload are then stuttering steps or settle
something, and a crash may only take what was volatile or settled already.

### Transport and the code

`tpc` is the place in the retry loop: `limit` (loop head and limiter), `blocked`
(`retry_after` about to be read), `admit` (breaker), `wire` (request out),
`sleep`. Answers are the classes of `AttemptResult` and `GetAttempt`. `todo` is
the stack of batches a 413 leaves: the recursion of `split_or_drop` sends the
left half, then, if that is confirmed, the right one, and the last outcome is
the outcome of the call. Instants are ages in ticks, counted up to the length
beyond which the code cannot tell them apart, so the model is finite without a
bound on time. `requests_failed` is kept as its increments per call.
`requests_sent`, `bytes_sent` and log output, on which nothing depends, are left
out, as are the serialization failures the code shows to be impossible. The
limiter's `retain` (`rate_limiter.rs:42`) is stated by what it does to a list in
the order of its instants: the expired calls are a prefix and are cut off
(`Expired`, `Recent`). The order is an idealisation: `acquire` reads the clock
just before it takes the lock (40–41), so two calls that race may be recorded
the other way round by the moment between the two. The history `admitted` that
`RateBound` counts is aged by a definition of its own (`LastWindow`), not by the
limiter's `InWindow`.

### Lifecycle and the code

A generation in `Gens` is one `LoopHandles` value. `handles` is
`GuardAgent.loops`, `held[c]` what a stop has taken out of it. A loop is `busy`
(not polled yet, or in its work), `wait`ing in its `select!`, `notified`, in
`check` between its tick and its next await, or `ended`. `notify_waiters` moves
only waiting loops; a timer that fired together with a notification may win the
`select!`; an abort takes effect at the next await; the flush that the flush
loop spawned is a task of its own and survives the abort (`inner`). The
connection and the reload inside `start` are one interval (`load`) in which
anything else may happen. `alone` records that a call had the agent to itself.
`slow` is the set of flush tasks that take longer than the timeout
`await_inflight` gives each (402–408), chosen when the task begins: the wait goes
on until every task awaited is over or slow. `late` records which tasks had seen
the agent running but were not yet in the list when a stop took it.
`Gens` is a bound: `SpawnLoops` waits for an identity nobody refers to, and the
run has enough of them that it never has to.

### RulesCache and the code

A document is its version and ttl. `timer[f]` is the time since the caller read
the clock (1296, before it has the mutex) or since the server answered; `updated`
the age of `rules_last_update`, set when an answer is stored and not when it was
given. `phase` goes `check`, `wire`, `store`, and for the loop `account`.
`failed[f]` is a history apart from the agent's counter: how many calls in a row
have given `f` no document.

### Startup and the code

`phase` follows `GuardAgent::new`. An endpoint is a sequence of tokens and is
normalised token by token; a floating point value is a number in tenths or NaN,
whose comparisons are all false; a header value is sendable or not.
`AgentConfig` is the set of all configurations in these terms, endpoints of any
length included; `Configs` picks the ones a run tries. `ProblemsComplete` is
about the configuration as the host passed it to `new`, which normalises a copy.
`std::fs::write` is two system calls, and a failure or crash leaves what was
written so far. Identifiers are told apart by why they were made: `Uuid` because
the file had none, `Unread` because it could not be read.

### Wire and the code

A JSON document is the set of its leaves, each with its path, so redaction at
any depth and in arrays is a function of one leaf. A record enters through the
bridge (`Emit`, then its task `SendRecord`) or by the host's own call (`Report`
with the builders). Bytes are a document and whether it is compressed, a
signature names the secret and the bytes it covers, ciphertext can be opened
with the project key alone. `ClassifyResponse` has the status codes themselves.
The server is modelled by what it may have ingested given its answer: all of a
clean 2xx, any part of a 200 with errors, all or nothing of a failed or lost
answer, nothing of a refusal. A reload takes what can be parsed (`Loaded`) in
the order of the sorted keys (`InKeyOrder`).

`Faithful`, which `ServerReads` is built on, says what redaction leaves of a
record: every leaf with no sensitive key on its path is there; of one with such
a key, the mark is in the place of what that key held, and if the leaf itself is
there, then because the host had put the mark there; and nothing else is there.
The records, configurations, status codes and `Retry-After` headers of a run are
constants: `WireAssumption`, `FacadeAssumption` and `ServerAssumption` say which
classes they come from (a metric has a value, no code and no pattern; a document
is a set of leaves; a header is a number of any sign or not a number).

## Runs

Passing:

| Run | Instance | Shows |
|---|---|---|
| `flush_crash` | 1 caller, 1 permit, 2 events and 1 metric, buffer 1, Drop; 1 failed send, 1 crash | types, capacity, no silent loss, durable until confirmed, gates, and the refinement of `Delivery` |
| `flush_concurrent` | 2 callers, 2 permits, 2 events, buffer 1; 1 failed send, 1 store fault or expiry; symmetric | durable until confirmed, no record held twice, counters add up |
| `flush_live` | buffer 2, Block, 3 events; 1 failed send; fair | order, blocked callers return, every record is settled |
| `flush_lifecycle` | Raise, 2 events, buffer 1; stop, start again, 2 clears, 1 failed send | capacity and counters |
| `transport_shared` | a batch sender and a rules fetcher, 2 attempts, threshold 3, 2 calls per window, window and recovery of 2 ticks; fair | breaker consistency, quiet after failures, rate, calls return |
| `transport_split` | one sender, batches of up to 4 items, 2 attempts | the send contract under every split, and the refinement of `SendCall` |
| `lifecycle_loops` | 2 controllers, 2 starts, 1 stop, 2 loops, 1 watermark task, 1 permit; fair | no orphaned loop, an undisturbed stop stops and awaits flushes, calls return, late loops die |
| `rules_cache` | loop and one caller, 3 documents with ttls 2, 0, 1, delays of up to 1 tick, each caller fails up to 2 times in a row; fair | freshness, the failure streak, new rules arrive for good |
| `startup` | 2 processes of 2 starts each; one tries about 60 configurations off the default in one or more fields | accepted configurations are sound, problems complete, identity stable |
| `wire` | 2 records out of 5, 3 configurations, 2 sends, 2 attempts, 1 detour, 8 status codes | the server reads what was emitted, events stay one, nothing let go of too early, status and health agree |

Violations, each a disagreement between the code and what the repository says
of it (the quotations are in `PROJECT.json`):

* `reload_duplicates` – `start` reloads every persisted record, those accepted
  before the reload or left in the buffer by an earlier `stop` too; settling one
  copy deletes the durable record of the other.
* `restart_without_loops` – a start is still connecting and reloading when a stop
  clears `running`, notifies, and takes the handles, of which there are none yet.
  The start then spawns its loops and the stop ends. A loop that looks at
  `running` ends; its handle stays in `loops`. A second start, with no other call
  beside it, sets `running`, finds the handles and returns without spawning
  (346–348): the agent runs, and calls itself healthy, without that loop.
  `RunningMeansLoops` asks only about an agent whose start had it to itself.

### Smaller differences

Met while modelling, without a run of their own. The modules follow the code.

* `clear_buffer` (`agent.rs:589–603`) clears the store after releasing the
  mutex, so a record accepted in between loses its durable copy while buffered
  (`DurableUntilConfirmed` fails in a run with a budget for clears).
* A start that falls between a stop's clearing of `running` and its taking of the
  handles (`agent.rs:364–373`) spawns loops that this stop then takes and aborts:
  the agent is left with `running` set and without loops.
* An encryption key that is set but empty counts as not configured
  (`transport.rs:277`) and the agent starts in plaintext; `config.rs:198–201` and
  `docs/configuration.md:49` have a key that is set and invalid fail the
  construction. `ReadySound` leaves this one value out.
* With two permits a flush drains a kind whose gate another flush closed after
  it was read (`agent.rs:983`; the agent skill file says the kind is skipped
  while gated). `GateRespected` holds with one permit, the default.
* Every caller is admitted once the recovery window is over, not a single probe
  (`circuit_breaker.rs:85` against lines 4 and 5).
* The watermark trigger compares the record's own kind (`agent.rs:469`, `526`)
  where `docs/usage.md:52` speaks of a combined occupancy; status and health
  compare the combined occupancy with the size of one queue (683, 800).
* `loop_failures.flush`, documented as consecutive (`agent.rs:62`), is never
  reset by a success.
* An attempt that the local limiter blocks as the last one leaves the loops of
  `transport.rs` without counting a failed request, where the comments say that
  every exhaustion path counts one (588) and that the loop always returns (900).
* An encrypted batch that gets a 413 is dropped whole (`transport.rs:512`);
  the repository's README (223) and `docs/usage.md:60` describe splitting
  without that exception.
* The checks of `running` in the status and rules loops are called unreachable
  (`agent.rs:1271–1275`, `1337–1339`); a start that a stop overtook reaches
  them, and `LateLoopsDie` fails without them.
* `docs/configuration.md:72` has `on_error` called for every internal failure;
  persistence failures, partial failures of status pushes and an exhausted
  limiter fire no hook.
* A status push refused with 400 counts as successful (`lastPush` in Wire).
* A metric whose value is not a finite number is stored as `null` and cannot be
  reloaded (`LetGo` allows exactly this).
* `pattern_matched` is lifted out of the metadata before redaction.
* Metrics carry no idempotency key, so a metric sent again is counted again.
* A NaN watermark ratio or backoff factor passes validation; no occupancy
  reaches such a watermark (the interval still flushes) and the delay is the cap.
* A doubled `/api/v1/api/v1` suffix is stripped once; an install-id file edited
  to hold characters no header carries makes every construction fail.

### Bounds, and why they are enough

The interesting cases need a full buffer with arrivals during a flush (two or
three records on a buffer of one or two), a race (two callers, two permits, two
controllers, two processes), a split that splits again (four items), a streak
longer than one call's attempts or shared by two tasks (threshold 3), and one of
each fault. `MaxAccepted` bounds records, `Budget` the failed sends, store
faults, crashes, stops, restarts and clears, `BatchSize` the batch; `MaxStarts`
and `MaxStops` the calls of Lifecycle, where a third start would only repeat the
situation the second finds; `MaxVersion` and `MaxDelay` the rules
(three documents, so that an overtaken answer is neither the first nor the
last); `MaxBoots` the starts of a process (two: one before and one after a
crash); `MaxFailures` is 2 and counts in a row, so that there are streaks to
count and a failure after a success; `MaxItems`, `MaxSends` and `MaxDetours` the traffic of Wire. `MaxDetours`
bounds status pushes and crashes together, because the two only meet in the
counters a crash resets. Crashes and store faults are in different runs of
FlushPipeline for the sake of size; the theorems cover them together. A buffer of
two, as in `wire`, cannot tell 90 from 95 percent: the boundary is carried by
`WireStatusHonest`. `flush_live` has the policy Block, the one under which a
caller waits; under Drop and Raise it returns after at most one eviction. Real
constants (threshold 5, 100 calls per 60 s, redaction depth 10, 1024 bytes) differ
only in size.

`startup`, `wire` and the Lifecycle runs do not check for deadlock: when the
bounded calls are used up nothing is left to do.

### Fairness

`FlushPipeline.FairSpec`: tasks that can run do run, the flush timer fires,
instants pass, a watermark task is polled. tokio and the clock justify this; a
send ends because the HTTP client has a timeout and the retry loop is finite
(`CallsReturn` of `transport_shared`). Nothing obliges callers to submit, the
program to flush or stop, or faults to happen. `Transport.FairSpec`: time
passes, tasks run and a request is answered or times out. `Lifecycle.FairSpec`:
the same, and strong fairness for the permit a stop waits for, since tokio's
semaphore serves waiters in order while the background tasks only try for a
permit. `RulesCache.FairSpec`: time passes, the loop's timer fires and a fetch
ends; no other caller is obliged to call, and no caller fails more than
`MaxFailures` times in a row.

## Proofs

Every theorem holds for all values of the constants that the modules' named
`ASSUME`s allow: any number of callers, permits, tasks, loops, processes and
documents, any buffer size, threshold, window and batch, and any bound on
faults. Further hypotheses are stated in the theorem and explained here.

### FlushPipeline

* `TypeCorrect`, `CapacityHolds` – `TypeOK` is inductive by itself, `Capacity`
  together with it. They rest on `RequeueSplit` (what `requeue` keeps and
  evicts) and `AppendItem`, `TailItems`.
* `NothingLostSilently` – `NoSilentLoss` when `clear_buffer` is not called
  (`Budget.clears = 0`). It is not inductive alone: deleting keys needs to know
  that their records are settled, and a batch may vanish from memory only when
  its holder has reached the end. `LossInv` adds that a permit holds a batch only
  between drain and release (`WorkerShape`) and that what is about to be deleted
  was delivered or discarded (`DeletesSettled`). `LossStep` reduces each action
  to two questions: what did it delete from the store, what left memory.
* `PipelineDelivers` – the pipeline implements `Delivery`, again without
  `clear_buffer`. Every action is a step of `Delivery` or leaves its variables
  alone; `LossInv` supplies what the mapped guards ask, above all that a crash
  takes only volatile or settled records and that a reload brings back only
  what was held.
* `NoRecordTwice`, `CopyKeptUntilConfirmed` – with three hypotheses:
  `EarlyIngest = FALSE` (callers wait for `start`), `Budget.restarts = 0` (a
  stopped agent is not started again) and `Budget.clears = 0`. The first two are
  exactly what `reload_duplicates` shows to be necessary, the third what "Smaller
  differences" says of `clear_buffer`. Crashes with the reload that follows
  them, store faults, TTLs and racing permits are all in. The two properties
  need each other: a key is deleted safely because no other place holds its
  record, and the reload adds no second copy because memory is empty by then.
  `HeldInv` therefore says of all places together that each is free of
  duplicates (`AllDistinct`), that no two share a record (`Apart`), that keys
  about to be deleted are held nowhere (`Gone`), that every number in use was
  given out (`Known`), and that until the reload is over memory holds nothing
  but what the reload found (`Fresh`).
* `AcceptanceOrderKept` – `InOrder` for one permit, from `HeldInv` and
  `Ordered`: queues ascend, and the one batch in flight is older than its queue,
  so that a requeue puts it in the right place. With two permits a later batch
  may be requeued before an earlier one.
* `BackoffRespected` – `GateRespected` for one permit, the default (see "Smaller
  differences" for two).
* `CountersAddUp` – `StatsAddUp`, with no hypothesis: any number of permits,
  crashes, stops, clears and reloads. `StatsInv` adds to it `Tallied`: while a
  permit has a batch its count is the length of that batch, and once a requeue
  has put the batch back (`backoff`) only the count is left. `Owed(k)` is what the host handed over and no
  counter or queue has, `Uncounted(k)` what was counted as flushed and not yet
  as sent or failed; the property says that they are the places the flushes
  have in hand (`Balance`). A step of one permit moves them by exactly what that
  permit's own places change by (`PlacesMove`, `PermitStats`), since the places
  of different permits are disjoint (`PlacesSplit`); a requeue splits the batch
  and the queue without loss (`RequeueLengths`); the other steps move a counter
  and a queue together or nothing at all.

### Transport

* `BreakerStaysConsistent`, `FailuresSilenceTransport` – `BreakerInv` links the
  breaker to an independent count of failures in a row over all tasks: closed,
  both count the same; open, the window began with the last failure; half-open
  only after the window.
* `WindowsBounded` – `LimiterInv`: the recorded ages are in order (`Aged`), and
  what of them is still in the window is exactly the independent record of
  admitted requests, which the bound is about. Without the order `retain` would
  not be a cut.
* `TransportTypes` – `TypeOK` bounds the attempts and the items of each loop, each
  pause by the cap on backoffs, on `Retry-After` or by the limiter's window, and
  the ages in the limiter's list by that window.
* `OutcomesHonest` – `LoopInv` ties the stack `todo` of a
  splitting call to what the server has taken or refused: the batches on it,
  the one in hand and the settled items make up the call's batch at every step.
* `SendImplementsContract` – the refinement of `SendCall`, from `LoopInv`.

### Lifecycle

* `PermitsAccounted` – `TypeOK` with its count of permits. A flush loop may take
  a permit only if its last flush task is over (`InnerShape`), or one generation
  would be counted once and hold two.
* `NoOrphanLoops` – inductive with the types and `HeldShape` (a stop holds
  handles exactly during the grace period).
* `StopsForGood`, `StopAwaitsInflight` – `AloneShape`: while a call has the agent
  to itself all others are idle, a stop has cleared `running`, and past the take
  there are no handles. With `OwnedLoops` this leaves living loops no owner but
  the abort. For the flushes, `Tracked`: a watermark task that has still to
  finish is slow, in the list, or in a list some stop waits for; and
  `LateShape`: once an undisturbed stop has taken the list, only a task that had
  seen the agent running before can still enter it.

### RulesCache

* `CacheTypes`, `LoopCountsItsStreak`, `ServedFreshEnough` – one invariant,
  `CacheInv`: an answer on its way to the cache has been out of date no longer
  than it has been on its way, so that the cached document is never older than
  its entry and one delay; the loop's counter equals its failures in a row, but
  for an outcome it has still to account for. `LongestTtl` (a longest ttl exists) is what
  allows ages to be cut off at `MaxTtl`.

### Startup

* `StartTypes`, `AcceptedIsSound` – `StartInv`: past validation nothing is
  reported and the configuration is `Sound`; past resolution there is an
  identifier. `ValidIsSound` proves soundness of every configuration without
  problems, from `NormalizeTrims` (an endpoint of any length, normalised, does
  not end in a slash), `WatermarkFits` and `PositiveFactor`.
* `AllProblemsReported` – from `CorrectedPasses`, for every configuration.
  (Stated of the normalised copy it would be false: a second `validate` can
  refuse what the first accepted, as for an endpoint `https://api/v1/api/v1`,
  from which each call strips one suffix.)
* `IdentitySettles` – needs only the types: a settled file enables no step that
  writes, and a process that can read it takes what it says.

### Wire

The five properties follow from one invariant, `WireInv`, for any records,
configurations, answers, number of attempts and traffic.

* A record at rest is one of four forms of its emission: `Origin` (as the bridge
  or the host built it), `Queued` (redacted), `OnWire` (its JSON), `Reloaded`
  (its JSON read back). `Contents` says that queues, store, batch and server hold
  nothing else. `Identity` says that the forms share identity and kind, that an
  event keeps its key, and that a reloaded record has the JSON of the queued one:
  this is `WireEventsOnce`.
* `WireServerReads` – the body in flight is made of the part of the batch in
  hand (`Parts`, `BatchBody`), what the server reads of a request is what was
  put in (signature over the uncompressed bytes, project key), and `Faithful`
  holds of the JSON of every emission, by way of what `RedactLeaf` does to one
  path.
* `WireLetGo` – `Fates`: the records of a batch are on the parts still to be
  sent or settled (the server has them, or refused them and the hook was told),
  and only what is settled was confirmed. `Waiting` adds that a record whose
  bridge task has not run is nowhere else, so that its later arrival does not
  bring back one that was let go of.
* `WireTypes` – from `Control`, `Parts`, `Fates` and `Pushes`: each failed push
  was paid for from `MaxDetours` when it began.
* `WireStatusHonest` – `Pushes` again for the streak and the last push. That
  every cause of an unhealthy check degrades the report is arithmetic on the
  thresholds of `compute_status` and `health_check`.

### Assumptions

A non-empty finite set of permits, `buffer_size > 0` and a watermark within it
(`config.rs` enforces both, and `AcceptedIsSound` proves it does), a threshold
of at least 1 (`CircuitBreaker::new` clamps it) and a saturation point of the
failure counter not below it; finitely many controllers, generations and
watermark tasks; natural numbers where the code has unsigned integers; at least
one attempt; the classes of records and answers named under Wire.

### Only model-checked

* Liveness (`CallersReturn`, `EventuallySettled`, `CallsReturn`,
  `CallsComplete`, `LateLoopsDie`, `RulesPropagate`): properties under fairness
  and with ENABLED are out of the prover's reach.

Every safety invariant, action property and refinement of a passing run is
stated by a theorem.

## Not modelled

* AES-GCM, HMAC, gzip and canonical JSON as bytes: cryptography and encodings
  beyond TLC; what they do to a document and who can undo it is modelled.
* `logging_utils.rs`, `hash_ip`, `truncate_payload`, `generate_batch_id`:
  string processing without state, on which no decision depends.
* `error.rs` and `lib.rs`: declarations, messages, re-exports.
* Fields of the models that are carried along unread (timestamps, country, user
  agent and the like), the contents of a rules document, log output, and
  panics of the hook, which the code catches.
* The two commands of the Redis handler's `clear_namespace` as separate steps:
  a record set between them survives the clear and is sent, so nothing is lost.

## Plan

The components are modelled and the safety properties of all runs proved. What
would be worth adding:

1. `DurableUntilConfirmed` with restarts, of the records that are in memory once
   (`reload_duplicates` shows why not of all).
2. The steps that the liveness properties rest on, as safety: that each `pc` of a
   flush and each turn of a retry loop decreases a measure.
