---------------------------- MODULE FlushPipeline ----------------------------
(***************************************************************************)
(* The buffering and delivery core of the agent (src/src/agent.rs): two    *)
(* bounded in-memory queues, one for events and one for metrics, filled by *)
(* concurrent callers, drained by flushes that hold a semaphore permit,    *)
(* and shadowed by a durable store (Redis) record by record.               *)
(*                                                                         *)
(* One action is one region of code between two releases of the core       *)
(* mutex (or one call to the transport or to the store made outside it),   *)
(* so every interleaving of the tasks the mutex allows is a behaviour.     *)
(* A record is a number, given when it is accepted.  Its Redis key starts  *)
(* with the clock value read at that point under the core mutex, so        *)
(* number order is the key order that list_keys sorts by.                  *)
(***************************************************************************)
EXTENDS Naturals, Sequences, FiniteSetsExt

CONSTANTS
    Callers,        \* tasks that call send_event / send_metric
    Workers,        \* permits of the flush semaphore (max_concurrent_flushes)
    BufferSize,     \* config.buffer_size
    Watermark,      \* least occupancy >= buffer_size * high_watermark_ratio
    Policy,         \* config.buffer_overflow_policy
    EarlyIngest,    \* may callers submit before start() has reloaded?
    MaxAccepted,    \* bound: records accepted, per kind
    Budget          \* bounds: failed sends, faults, crashes, stops, ...

Kind == {"events", "metrics"}
Cost == {"failures", "faults", "crashes", "stops", "restarts", "clears"}

ASSUME WorkersAssumption == IsFiniteSet(Workers) /\ Workers # {}
ASSUME SizeAssumption == BufferSize \in Nat \ {0} /\ Watermark \in 1..BufferSize
ASSUME PolicyAssumption == Policy \in {"Drop", "Block", "Raise"}
ASSUME BoundAssumption ==
    /\ MaxAccepted \in [Kind -> Nat]
    /\ Budget \in [Cost -> Nat]
    /\ EarlyIngest \in BOOLEAN

VARIABLES
    \* CoreState, guarded by the core mutex
    buffer, handler, retryAfter, failureStreak, due,
    flushed, sent, failed, dropped, loopFailures,
    \* Shared.running and the watermark tasks spawned but not yet run
    running, spawned,
    \* one record per flush permit: control point, kind, drained batch, its
    \* size, and the keys of the records a requeue evicted
    pc, wkind, batch, count, evicted,
    \* callers inside enqueue, and the task that calls start / stop / clear
    pending, main, loadKind, toLoad, clearing,
    \* the durable store
    store,
    \* history: what became of every record, and what the bounds spent
    accepted, delivered, discarded, volatile, lost, pushed, perm, used

statVars  == <<failureStreak, flushed, sent, failed, dropped, loopFailures>>
coreVars  == <<buffer, handler, retryAfter, due, statVars>>
workVars  == <<pc, wkind, batch, count, evicted>>
loadVars  == <<main, loadKind, toLoad>>
fateVars  == <<accepted, delivered, discarded, volatile, lost>>
tallyVars == <<pushed, perm>>
vars == <<coreVars, running, spawned, workVars, pending, loadVars, clearing,
          store, fateVars, tallyVars, used>>

-----------------------------------------------------------------------------
(* A buffered item is the record and whether it carries a Redis key.       *)
RecordId == Nat \ {0}
BufferedItem == [id : RecordId, keyed : BOOLEAN]

Ids(items) == {items[i].id : i \in DOMAIN items}
LiveKeys(items) == {items[i].id : i \in {j \in DOMAIN items : items[j].keyed}}

Other(k) == IF k = "events" THEN "metrics" ELSE "events"

(* Records held in memory: buffered, or drained by a flush and not yet     *)
(* confirmed or requeued.                                                  *)
InMemory(k) ==
    Ids(buffer[k]) \cup UNION {Ids(batch[w]) : w \in {v \in Workers : wkind[v] = k}}

(* Mutant of HasRoom: a full buffer still takes one more.                  *)
HasRoomOffByOne(k) == Len(buffer[k]) <= BufferSize

HasRoom(k) == Len(buffer[k]) < BufferSize

Occupancy == Len(buffer["events"]) + Len(buffer["metrics"])

(* The core mutex is held over the whole reload.                           *)
CoreFree == main \notin {"list", "load"}

Spend(c) == /\ used[c] < Budget[c]
            /\ used' = [used EXCEPT ![c] = @ + 1]

(* The store holds the values set and neither deleted nor expired: what    *)
(* set_key makes of it, what list_keys lists and what get_key finds.       *)
SetKey(k, n) == [store EXCEPT ![k] = @ \cup {n}]
ListKeys(k) == store[k]
GetKey(k, n) == n \in store[k]

(* A command to the store fails, or its command_timeout passes, which says *)
(* nothing of whether the store carried it out.                            *)
CommandFails == Spend("faults")

(* delete_keys: the records go, or the command fails and leaves orphans    *)
(* (a command that timed out may have been applied: that is the first      *)
(* disjunct).                                                              *)
DeleteKeys(k, keys) ==
    \/ /\ store' = [store EXCEPT ![k] = @ \ keys]
       /\ UNCHANGED used
    \/ /\ keys # {}
       /\ CommandFails
       /\ UNCHANGED store

(* forget_key: the key of the item taken out, if it has one, goes under    *)
(* the mutex.                                                              *)
ForgetKey(k, out) == DeleteKeys(k, LiveKeys(out))

(* clear_namespace deletes what it lists.                                  *)
ClearKeys(k) == DeleteKeys(k, ListKeys(k))

-----------------------------------------------------------------------------
(* clear_buffer calls that have a kind's namespace still to clear: none.   *)
NoneClearing == [k \in Kind |-> 0]

Init ==
    /\ buffer = [k \in Kind |-> <<>>]
    /\ handler = FALSE
    /\ retryAfter = [k \in Kind |-> "none"]
    /\ failureStreak = [k \in Kind |-> 0]
    /\ due = TRUE
    /\ flushed = [k \in Kind |-> 0]
    /\ sent = [k \in Kind |-> 0]
    /\ failed = [k \in Kind |-> 0]
    /\ dropped = [k \in Kind |-> 0]
    /\ loopFailures = 0
    /\ running = FALSE
    /\ spawned = 0
    /\ pc = [w \in Workers |-> "idle"]
    /\ wkind = [w \in Workers |-> "events"]
    /\ batch = [w \in Workers |-> <<>>]
    /\ count = [w \in Workers |-> 0]
    /\ evicted = [w \in Workers |-> {}]
    /\ pending = [c \in Callers |-> "none"]
    /\ main = "new"
    /\ loadKind = "events"
    /\ toLoad = {}
    /\ clearing = NoneClearing
    /\ store = [k \in Kind |-> {}]
    /\ accepted = [k \in Kind |-> 0]
    /\ delivered = [k \in Kind |-> {}]
    /\ discarded = [k \in Kind |-> {}]
    /\ volatile = [k \in Kind |-> {}]
    /\ lost = [k \in Kind |-> {}]
    /\ pushed = [k \in Kind |-> 0]
    /\ perm = [k \in Kind |-> 0]
    /\ used = [c \in Cost |-> 0]

-----------------------------------------------------------------------------
(* Ingest: send_event / send_metric and the enqueue loop.                  *)

(* A caller enters enqueue with a record of kind k.                        *)
Submit(c, k) ==
    /\ pending[c] = "none"
    /\ EarlyIngest \/ main \in {"up", "stopping", "stopped"}
    /\ accepted[k] + Cardinality({d \in Callers : pending[d] = k}) < MaxAccepted[k]
    /\ pending' = [pending EXCEPT ![c] = k]
    /\ UNCHANGED <<coreVars, running, spawned, workVars, loadVars, clearing,
                   store, fateVars, tallyVars, used>>

(* persist_item's outcomes for record n: no handler, the record is         *)
(* stored, or set_key fails; a set_key that times out may still have been  *)
(* applied.  Only a record acknowledged by the store gets a key.           *)
PersistItem(k, n, keyed) ==
    \/ /\ handler /\ keyed
       /\ store' = SetKey(k, n)
       /\ UNCHANGED <<volatile, used>>
    \/ /\ ~handler /\ ~keyed
       /\ volatile' = [volatile EXCEPT ![k] = @ \cup {n}]
       /\ UNCHANGED <<store, used>>
    \/ /\ handler /\ ~keyed
       /\ CommandFails
       /\ store' \in {store, SetKey(k, n)}
       /\ volatile' = [volatile EXCEPT ![k] = @ \cup {n}]

(* spawn_gated_flush: the trigger looks at the occupancy of this kind      *)
(* only.  `running` is read after the mutex is released; nothing else of   *)
(* the insert depends on it, so the two are one step.                      *)
SpawnGatedFlush(k) ==
    spawned' = IF Len(buffer'[k]) >= Watermark /\ running
               THEN spawned + 1 ELSE spawned

(* Room in the buffer: persist the record, append it, maybe trigger a      *)
(* flush, return Ok.                                                       *)
Insert(c, k) ==
    /\ CoreFree
    /\ pending[c] = k
    /\ HasRoom(k)
    /\ \E keyed \in BOOLEAN :
          /\ PersistItem(k, accepted[k] + 1, keyed)
          /\ buffer' = [buffer EXCEPT ![k] =
                           Append(@, [id |-> accepted[k] + 1, keyed |-> keyed])]
    /\ accepted' = [accepted EXCEPT ![k] = @ + 1]
    /\ pushed' = [pushed EXCEPT ![k] = @ + 1]
    /\ SpawnGatedFlush(k)
    /\ pending' = [pending EXCEPT ![c] = "none"]
    /\ UNCHANGED <<handler, retryAfter, due, statVars, running, workVars,
                   loadVars, clearing, delivered, discarded, lost, perm>>

(* Full buffer under Drop: evict the oldest record and forget its key,     *)
(* then go round the loop and take the mutex again.                        *)
EvictOldest(c, k) ==
    /\ CoreFree
    /\ pending[c] = k
    /\ Policy = "Drop"
    /\ ~HasRoom(k)
    /\ LET oldest == Head(buffer[k])
       IN  /\ ForgetKey(k, <<oldest>>)
           /\ discarded' = [discarded EXCEPT ![k] = @ \cup {oldest.id}]
    /\ buffer' = [buffer EXCEPT ![k] = Tail(@)]
    /\ dropped' = [dropped EXCEPT ![k] = @ + 1]
    /\ UNCHANGED <<handler, retryAfter, due, failureStreak, flushed, sent,
                   failed, loopFailures, running, spawned, workVars, pending,
                   loadVars, clearing, accepted, delivered, volatile, lost,
                   tallyVars>>

(* Full buffer under Raise: BufferFull, the record is never accepted.      *)
(* Under Block the caller waits for space_freed or 50 ms, whichever comes  *)
(* first, and looks again: a stuttering step until Insert is enabled.      *)
Reject(c, k) ==
    /\ CoreFree
    /\ pending[c] = k
    /\ Policy = "Raise"
    /\ ~HasRoom(k)
    /\ pending' = [pending EXCEPT ![c] = "none"]
    /\ UNCHANGED <<coreVars, running, spawned, workVars, loadVars, clearing,
                   store, fateVars, tallyVars, used>>

Ingest == \E c \in Callers, k \in Kind :
             Submit(c, k) \/ Insert(c, k) \/ EvictOldest(c, k) \/ Reject(c, k)

-----------------------------------------------------------------------------
(* Taking a flush permit.                                                  *)

(* A background trigger with a permit goes to flush_if_needed, a forced    *)
(* flush straight to do_flush.                                             *)
Acquire(w, entry) ==
    /\ pc[w] = "idle"
    /\ pc' = [pc EXCEPT ![w] = entry]
    /\ UNCHANGED <<coreVars, running, wkind, batch, count, evicted, pending,
                   loadKind, toLoad, clearing, store, fateVars, tallyVars, used>>

(* The flush loop's timer fired while the agent runs.                      *)
FlushTick(w) ==
    /\ main = "up" /\ running
    /\ Acquire(w, "need")
    /\ UNCHANGED <<spawned, main>>

(* A watermark task gets a permit ...                                      *)
RunSpawned(w) ==
    /\ spawned > 0
    /\ spawned' = spawned - 1
    /\ Acquire(w, "need")
    /\ UNCHANGED main

(* Mutant of SpawnedSkips: the task ends without having been spawned.      *)
SpawnedSkipsUnguarded ==
    /\ \A w \in Workers : pc[w] # "idle"
    /\ spawned' = spawned - 1
    /\ UNCHANGED <<coreVars, running, workVars, pending, loadVars, clearing,
                   store, fateVars, tallyVars, used>>

(* ... or finds none and ends.                                             *)
SpawnedSkips ==
    /\ spawned > 0
    /\ \A w \in Workers : pc[w] # "idle"
    /\ spawned' = spawned - 1
    /\ UNCHANGED <<coreVars, running, workVars, pending, loadVars, clearing,
                   store, fateVars, tallyVars, used>>

(* flush_buffer, called by the embedding program.                          *)
FlushBuffer(w) == Acquire(w, "gate") /\ UNCHANGED <<spawned, main>>

(* The forced flush that ends stop().                                      *)
FinalFlush(w) ==
    /\ main = "stopping"
    /\ main' = "stopped"
    /\ Acquire(w, "gate")
    /\ UNCHANGED spawned

-----------------------------------------------------------------------------
(* A flush holding permit w.                                               *)

(* End of one kind's flush: events are followed by metrics, metrics by the *)
(* release of the permit.                                                  *)
EndKind(w) ==
    /\ pc' = [pc EXCEPT ![w] = IF wkind[w] = "events" THEN "gate" ELSE "idle"]
    /\ wkind' = [wkind EXCEPT ![w] = Other(@)]

(* Mutant of FlushNeeded: the interval is forgotten.                       *)
FlushNeededIgnoresInterval == Occupancy > 0 /\ Occupancy >= Watermark

(* flush_if_needed goes on when something is buffered and the interval has *)
(* passed or both kinds together reach the watermark; otherwise the permit *)
(* is released.                                                            *)
FlushNeeded == Occupancy > 0 /\ (due \/ Occupancy >= Watermark)

FlushIfNeeded(w) ==
    /\ CoreFree
    /\ pc[w] = "need"
    /\ pc' = [pc EXCEPT ![w] = IF FlushNeeded THEN "gate" ELSE "idle"]
    /\ UNCHANGED <<coreVars, running, spawned, wkind, batch, count, evicted,
                   pending, loadVars, clearing, store, fateVars, tallyVars, used>>

(* Mutants of GateClosed: the gate never closes; an instant once set       *)
(* closes it for good.                                                     *)
GateNeverClosed(k) == retryAfter[k] = "never"
GateClosedOnceSet(k) == retryAfter[k] # "none"

GateClosed(k) == retryAfter[k] = "closed"

(* The retry gate is read in a critical section of its own.                *)
ReadGate(w) ==
    /\ CoreFree
    /\ pc[w] = "gate"
    /\ IF GateClosed(wkind[w])
       THEN EndKind(w)
       ELSE pc' = [pc EXCEPT ![w] = "drain"] /\ UNCHANGED wkind
    /\ UNCHANGED <<coreVars, running, spawned, batch, count, evicted, pending,
                   loadVars, clearing, store, fateVars, tallyVars, used>>

(* Mutant of LeftByDrain: the queue is copied, not drained.                *)
LeftByCopy(queue) == queue

LeftByDrain(queue) == <<>>

(* core_set_last_flush: the interval begins again.  Its notify_waiters has *)
(* nothing to wake that the 50 ms poll would not: see Reject.              *)
SetLastFlush == due' = FALSE

(* drain, then core_set_last_flush when there is something to send: one    *)
(* step, since only flush_if_needed reads the time, and what it would let  *)
(* through in between FlushBuffer lets through at any time.                *)
Drain(w) ==
    LET k == wkind[w] IN
    /\ CoreFree
    /\ pc[w] = "drain"
    /\ flushed' = [flushed EXCEPT ![k] = @ + Len(buffer[k])]
    /\ buffer' = [buffer EXCEPT ![k] = LeftByDrain(@)]
    /\ batch' = [batch EXCEPT ![w] = buffer[k]]
    /\ count' = [count EXCEPT ![w] = Len(buffer[k])]
    /\ IF buffer[k] = <<>>
       THEN EndKind(w) /\ UNCHANGED due
       ELSE pc' = [pc EXCEPT ![w] = "send"] /\ SetLastFlush /\ UNCHANGED wkind
    /\ UNCHANGED <<handler, retryAfter, failureStreak, sent, failed, dropped,
                   loopFailures, running, spawned, evicted, pending, loadVars,
                   clearing, store, fateVars, tallyVars, used>>

(* transport.send_batch.  A batch refused with 413 is sent in halves, and  *)
(* the outcome is that of the last half tried, so each outcome can leave   *)
(* any part of the batch delivered (all of it under a permanent rejection, *)
(* when the first answer was lost and the retry is refused); what a        *)
(* confirmed outcome did not deliver was permanently rejected by the       *)
(* server.  Transport shows that send_batch keeps this contract.           *)
SendAccepted(w) ==
    LET k == wkind[w] IN
    /\ pc[w] = "send"
    /\ \E got \in SUBSET Ids(batch[w]) :
          /\ got # {}
          /\ delivered' = [delivered EXCEPT ![k] = @ \cup got]
          /\ discarded' = [discarded EXCEPT ![k] = @ \cup (Ids(batch[w]) \ got)]
    /\ pc' = [pc EXCEPT ![w] = "confirm"]
    /\ UNCHANGED <<perm, used>>

SendPermanentDrop(w) ==
    LET k == wkind[w] IN
    /\ pc[w] = "send"
    /\ \E got \in SUBSET Ids(batch[w]) :
          /\ delivered' = [delivered EXCEPT ![k] = @ \cup got]
          /\ discarded' = [discarded EXCEPT ![k] = @ \cup (Ids(batch[w]) \ got)]
    /\ perm' = [perm EXCEPT ![k] = @ + count[w]]
    /\ pc' = [pc EXCEPT ![w] = "confirmDrop"]
    /\ UNCHANGED used

(* A failed send: the server may nevertheless have taken any part of it.   *)
SendFailed(w) ==
    LET k == wkind[w] IN
    /\ pc[w] = "send"
    /\ Spend("failures")
    /\ \E got \in SUBSET Ids(batch[w]) :
          delivered' = [delivered EXCEPT ![k] = @ \cup got]
    /\ pc' = [pc EXCEPT ![w] = "requeue"]
    /\ UNCHANGED <<discarded, perm>>

SendBatch(w) ==
    /\ SendAccepted(w) \/ SendPermanentDrop(w) \/ SendFailed(w)
    /\ UNCHANGED <<coreVars, running, spawned, wkind, batch, count, evicted,
                   pending, loadVars, clearing, store, accepted, volatile,
                   lost, pushed>>

(* confirm_keys after Accepted: the keys go, the counters come next.  The  *)
(* mutex is held only to clone the handler, so the delete may fall in the  *)
(* middle of a reload.  The clone counts with the send: both touch nothing *)
(* a reload reads, so a clone that waits for one is a later send.          *)
ConfirmKeys(w) ==
    /\ pc[w] = "confirm"
    /\ DeleteKeys(wkind[w], LiveKeys(batch[w]))
    /\ pc' = [pc EXCEPT ![w] = "account"]
    /\ UNCHANGED <<coreVars, running, spawned, wkind, batch, count, evicted,
                   pending, loadVars, clearing, fateVars, tallyVars>>

(* Accepted, second critical section: counters, streak and gate reset.     *)
AccountAccepted(w) ==
    LET k == wkind[w] IN
    /\ CoreFree
    /\ pc[w] = "account"
    /\ sent' = [sent EXCEPT ![k] = @ + count[w]]
    /\ failureStreak' = [failureStreak EXCEPT ![k] = 0]
    /\ retryAfter' = [retryAfter EXCEPT ![k] = "none"]
    /\ batch' = [batch EXCEPT ![w] = <<>>]
    /\ count' = [count EXCEPT ![w] = 0]
    /\ EndKind(w)
    /\ UNCHANGED <<buffer, handler, due, flushed, failed, dropped, loopFailures,
                   running, spawned, evicted, pending, loadVars, clearing,
                   store, fateVars, tallyVars, used>>

(* confirm_keys after PermanentDrop, which touches no counter.             *)
ConfirmDropped(w) ==
    /\ pc[w] = "confirmDrop"
    /\ DeleteKeys(wkind[w], LiveKeys(batch[w]))
    /\ batch' = [batch EXCEPT ![w] = <<>>]
    /\ count' = [count EXCEPT ![w] = 0]
    /\ EndKind(w)
    /\ UNCHANGED <<coreVars, running, spawned, evicted, pending, loadVars,
                   clearing, fateVars, tallyVars>>

(* Mutants of Kept: the batch goes to the back; the last place stays empty *)
KeptAtBack(items, queue) ==
    LET all == queue \o items
    IN  SubSeq(all, 1, IF Len(all) <= BufferSize THEN Len(all) ELSE BufferSize)
KeptOneShort(items, queue) ==
    LET all == items \o queue
    IN  SubSeq(all, 1, IF Len(all) < BufferSize THEN Len(all) ELSE BufferSize - 1)

(* Mutants of Overflow: the oldest records; all but the first evicted one  *)
OverflowOldest(items, queue) ==
    SubSeq(items, 1, Len(items \o queue) - BufferSize)
OverflowOneShort(items, queue) ==
    LET all == items \o queue IN SubSeq(all, BufferSize + 2, Len(all))

(* What requeue leaves in the buffer and what it evicts: the batch goes    *)
(* back in front, and the newest records beyond the capacity fall off.     *)
Kept(items, queue) ==
    LET all == items \o queue
    IN  SubSeq(all, 1, IF Len(all) <= BufferSize THEN Len(all) ELSE BufferSize)
Overflow(items, queue) ==
    LET all == items \o queue IN SubSeq(all, BufferSize + 1, Len(all))

Requeue(w) ==
    LET k == wkind[w]
        out == Overflow(batch[w], buffer[k])
    IN
    /\ CoreFree
    /\ pc[w] = "requeue"
    /\ buffer' = [buffer EXCEPT ![k] = Kept(batch[w], buffer[k])]
    /\ dropped' = [dropped EXCEPT ![k] = @ + Len(out)]
    /\ discarded' = [discarded EXCEPT ![k] = @ \cup Ids(out)]
    /\ evicted' = [evicted EXCEPT ![w] = LiveKeys(out)]
    /\ batch' = [batch EXCEPT ![w] = <<>>]
    /\ pc' = [pc EXCEPT ![w] = "backoff"]
    /\ UNCHANGED <<handler, retryAfter, due, failureStreak, flushed, sent,
                   failed, loopFailures, running, spawned, wkind, count,
                   pending, loadVars, clearing, store, accepted, delivered,
                   volatile, lost, tallyVars, used>>

(* Failed, next critical section: counters, longer streak, gate closed.    *)
Backoff(w) ==
    LET k == wkind[w] IN
    /\ CoreFree
    /\ pc[w] = "backoff"
    /\ failed' = [failed EXCEPT ![k] = @ + count[w]]
    /\ failureStreak' = [failureStreak EXCEPT ![k] = @ + 1]
    /\ retryAfter' = [retryAfter EXCEPT ![k] = "closed"]
    /\ loopFailures' = loopFailures + 1
    /\ count' = [count EXCEPT ![w] = 0]
    /\ pc' = [pc EXCEPT ![w] = "forget"]
    /\ UNCHANGED <<buffer, handler, due, flushed, sent, dropped, running,
                   spawned, wkind, batch, evicted, pending, loadVars, clearing,
                   store, fateVars, tallyVars, used>>

(* confirm_keys for the records the requeue evicted, after the mutex.      *)
ForgetEvicted(w) ==
    /\ pc[w] = "forget"
    /\ DeleteKeys(wkind[w], evicted[w])
    /\ evicted' = [evicted EXCEPT ![w] = {}]
    /\ EndKind(w)
    /\ UNCHANGED <<coreVars, running, spawned, batch, count, pending, loadVars,
                   clearing, fateVars, tallyVars>>

FlushStep(w) ==
    \/ FlushIfNeeded(w) \/ ReadGate(w) \/ Drain(w) \/ SendBatch(w)
    \/ ConfirmKeys(w) \/ AccountAccepted(w) \/ ConfirmDropped(w)
    \/ Requeue(w) \/ Backoff(w) \/ ForgetEvicted(w)

-----------------------------------------------------------------------------
(* Lifecycle: attach_redis_handler, start with its reload, stop, clear.    *)

AttachRedisHandler ==
    /\ CoreFree
    /\ ~handler
    /\ handler' = TRUE
    /\ UNCHANGED <<buffer, retryAfter, due, statVars, running, spawned,
                   workVars, pending, loadVars, clearing, store, fateVars,
                   tallyVars, used>>

(* start: the swap of `running` decides who goes on.  A start after a stop *)
(* in the same process finds the buffers as the stop left them.            *)
Start ==
    /\ ~running
    /\ \/ main = "new" /\ UNCHANGED used
       \/ main = "stopped" /\ Spend("restarts")
    /\ running' = TRUE
    /\ main' = "connect"
    /\ UNCHANGED <<coreVars, spawned, workVars, pending, loadKind, toLoad,
                   clearing, store, fateVars, tallyVars>>

(* RedisClientHandler::connect opens a connection to the store, or fails.  *)
Connect == handler' \in {handler, TRUE}

(* start connects the configured Redis, or goes on without it.             *)
ConnectRedis ==
    /\ main = "connect"
    /\ Connect
    /\ main' = "reload"
    /\ UNCHANGED <<buffer, retryAfter, due, statVars, running, spawned,
                   workVars, pending, loadKind, toLoad, clearing, store,
                   fateVars, tallyVars, used>>

(* reload_from_redis takes the mutex and keeps it to the end.              *)
ReloadBegin ==
    /\ main = "reload"
    /\ main' = IF handler THEN "list" ELSE "up"
    /\ loadKind' = "events"
    /\ UNCHANGED <<coreVars, running, spawned, workVars, pending, toLoad,
                   clearing, store, fateVars, tallyVars, used>>

ReloadList ==
    /\ main = "list"
    /\ main' = "load"
    /\ \/ toLoad' = ListKeys(loadKind) /\ UNCHANGED used
       \/ toLoad' = {} /\ CommandFails
    /\ UNCHANGED <<coreVars, running, spawned, workVars, pending, loadKind,
                   clearing, store, fateVars, tallyVars>>

(* The next listed record is gone, unreadable or corrupt: it is skipped.   *)
ReloadSkip ==
    /\ main = "load"
    /\ toLoad # {}
    /\ IF GetKey(loadKind, Min(toLoad)) THEN CommandFails ELSE UNCHANGED used
    /\ toLoad' = toLoad \ {Min(toLoad)}
    /\ UNCHANGED <<coreVars, running, spawned, workVars, pending, main,
                   loadKind, clearing, store, fateVars, tallyVars>>

(* The next listed record is appended with its key; a full buffer first    *)
(* loses its oldest record, whatever the policy.  The mutex is held over   *)
(* the reading, the eviction and the push; an unlocked delete of the record *)
(* in between leaves what it leaves after the push.                        *)
ReloadKey ==
    LET k == loadKind
        n == Min(toLoad)
        rest == IF HasRoom(k) THEN buffer[k] ELSE Tail(buffer[k])
        out  == IF HasRoom(k) THEN <<>> ELSE <<Head(buffer[k])>>
    IN
    /\ main = "load"
    /\ toLoad # {}
    /\ GetKey(k, n)
    /\ ForgetKey(k, out)
    /\ buffer' = [buffer EXCEPT ![k] = Append(rest, [id |-> n, keyed |-> TRUE])]
    /\ dropped' = [dropped EXCEPT ![k] = @ + Len(out)]
    /\ discarded' = [discarded EXCEPT ![k] = @ \cup Ids(out)]
    /\ pushed' = [pushed EXCEPT ![k] = @ + 1]
    /\ toLoad' = toLoad \ {n}
    /\ UNCHANGED <<handler, retryAfter, due, failureStreak, flushed, sent,
                   failed, loopFailures, running, spawned, workVars, pending,
                   main, loadKind, clearing, accepted, delivered, volatile,
                   lost, perm>>

(* Metrics are reloaded after events; then the loops are spawned.          *)
ReloadDone ==
    /\ main = "load"
    /\ toLoad = {}
    /\ main' = IF loadKind = "events" THEN "list" ELSE "up"
    /\ loadKind' = Other(loadKind)
    /\ UNCHANGED <<coreVars, running, spawned, workVars, pending, toLoad,
                   clearing, store, fateVars, tallyVars, used>>

(* stop: clears `running`; its final flush is FinalFlush.                  *)
Stop ==
    /\ main = "up"
    /\ Spend("stops")
    /\ running' = FALSE
    /\ main' = "stopping"
    /\ UNCHANGED <<coreVars, spawned, workVars, pending, loadKind, toLoad,
                   clearing, store, fateVars, tallyVars>>

(* clear_buffer empties both queues in one critical section ...            *)
(* All records accepted so far are the caller's to throw away; those it    *)
(* takes out of the queue leave without being counted.                     *)
ClearMemory ==
    /\ CoreFree
    /\ Spend("clears")
    /\ buffer' = [k \in Kind |-> <<>>]
    /\ discarded' = [k \in Kind |-> discarded[k] \cup 1..accepted[k]]
    /\ pushed' = [k \in Kind |-> pushed[k] - Len(buffer[k])]
    /\ clearing' = [k \in Kind |-> clearing[k] + (IF handler THEN 1 ELSE 0)]
    /\ UNCHANGED <<handler, retryAfter, due, statVars, running, spawned,
                   workVars, pending, loadVars, store, accepted, delivered,
                   volatile, lost, perm>>

(* ... and clears the two namespaces later, without the mutex, events      *)
(* first; each in one step, as InMemoryRedisStore clears it.  Any number   *)
(* of calls may be at it; one is at the metrics when fewer have the events *)
(* still to do.                                                            *)
ClearNamespace(k) ==
    /\ clearing[k] > 0
    /\ k = "metrics" => clearing["metrics"] > clearing["events"]
    /\ clearing' = [clearing EXCEPT ![k] = @ - 1]
    /\ ClearKeys(k)
    /\ UNCHANGED <<coreVars, running, spawned, workVars, pending, loadVars,
                   fateVars, tallyVars>>

Lifecycle ==
    \/ AttachRedisHandler \/ Start \/ ConnectRedis \/ ReloadBegin \/ ReloadList
    \/ ReloadSkip \/ ReloadKey \/ ReloadDone \/ Stop \/ ClearMemory
    \/ \E k \in Kind : ClearNamespace(k)

-----------------------------------------------------------------------------
(* The environment: clocks, expiry, crashes.                               *)

(* A record outlives its TTL: from then on it is as durable as memory.     *)
Expire(k, n) ==
    /\ n \in store[k]
    /\ Spend("faults")
    /\ store' = [store EXCEPT ![k] = @ \ {n}]
    /\ volatile' = [volatile EXCEPT ![k] = @ \cup {n}]
    /\ lost' = [lost EXCEPT ![k] = IF n \in InMemory(k) THEN @ ELSE @ \cup {n}]
    /\ UNCHANGED <<coreVars, running, spawned, workVars, pending, loadVars,
                   clearing, accepted, delivered, discarded, tallyVars>>

(* The instant in retry_after passes.                                      *)
GateExpires(k) ==
    /\ retryAfter[k] = "closed"
    /\ retryAfter' = [retryAfter EXCEPT ![k] = "expired"]
    /\ UNCHANGED <<buffer, handler, due, statVars, running, spawned, workVars,
                   pending, loadVars, clearing, store, fateVars, tallyVars, used>>

(* flush_interval seconds have passed since last_flush_instant.            *)
IntervalElapses ==
    /\ ~due
    /\ due' = TRUE
    /\ UNCHANGED <<buffer, handler, retryAfter, statVars, running, spawned,
                   workVars, pending, loadVars, clearing, store, fateVars,
                   tallyVars, used>>

(* The process dies and a new one begins: only the store survives.         *)
Crash ==
    /\ main # "new"
    /\ Spend("crashes")
    /\ buffer' = [k \in Kind |-> <<>>]
    /\ handler' = FALSE
    /\ retryAfter' = [k \in Kind |-> "none"]
    /\ failureStreak' = [k \in Kind |-> 0]
    /\ due' = TRUE
    /\ flushed' = [k \in Kind |-> 0]
    /\ sent' = [k \in Kind |-> 0]
    /\ failed' = [k \in Kind |-> 0]
    /\ dropped' = [k \in Kind |-> 0]
    /\ loopFailures' = 0
    /\ running' = FALSE
    /\ spawned' = 0
    /\ pc' = [w \in Workers |-> "idle"]
    /\ wkind' = [w \in Workers |-> "events"]
    /\ batch' = [w \in Workers |-> <<>>]
    /\ count' = [w \in Workers |-> 0]
    /\ evicted' = [w \in Workers |-> {}]
    /\ pending' = [c \in Callers |-> "none"]
    /\ main' = "new"
    /\ loadKind' = "events"
    /\ toLoad' = {}
    /\ clearing' = NoneClearing
    /\ lost' = [k \in Kind |-> lost[k] \cup (InMemory(k) \cap volatile[k])]
    /\ pushed' = [k \in Kind |-> 0]
    /\ perm' = [k \in Kind |-> 0]
    /\ UNCHANGED <<store, accepted, delivered, discarded, volatile>>

Environment ==
    \/ \E k \in Kind : GateExpires(k) \/ \E n \in store[k] : Expire(k, n)
    \/ IntervalElapses \/ Crash

Next ==
    \/ Ingest
    \/ \E w \in Workers : \/ FlushTick(w) \/ RunSpawned(w) \/ FlushBuffer(w)
                          \/ FinalFlush(w) \/ FlushStep(w)
    \/ SpawnedSkips
    \/ Lifecycle
    \/ Environment

Spec == Init /\ [][Next]_vars

(***************************************************************************)
(* Fairness: every task the runtime has scheduled makes progress, timers   *)
(* fire and instants pass.  Nothing obliges a caller to submit, a program  *)
(* to flush, stop or clear, the store to fail or the process to crash.     *)
(***************************************************************************)
Fairness ==
    /\ \A w \in Workers : /\ WF_vars(FlushStep(w))
                          /\ WF_vars(FlushTick(w))
                          /\ WF_vars(RunSpawned(w))
                          /\ WF_vars(FinalFlush(w))
    /\ WF_vars(SpawnedSkips)
    /\ \A c \in Callers, k \in Kind :
          WF_vars(Insert(c, k) \/ EvictOldest(c, k) \/ Reject(c, k))
    /\ WF_vars(ConnectRedis \/ ReloadBegin \/ ReloadList \/ ReloadSkip
               \/ ReloadKey \/ ReloadDone)
    /\ \A k \in Kind : WF_vars(GateExpires(k)) /\ WF_vars(ClearNamespace(k))
    /\ WF_vars(IntervalElapses)

FairSpec == Spec /\ Fairness

-----------------------------------------------------------------------------
PcSet == {"idle", "need", "gate", "drain", "send", "confirm", "confirmDrop",
          "account", "requeue", "backoff", "forget"}
MainSet == {"new", "connect", "reload", "list", "load", "up", "stopping", "stopped"}

ItemType ==
    /\ buffer \in [Kind -> Seq(BufferedItem)]
    /\ batch \in [Workers -> Seq(BufferedItem)]
FlagType == handler \in BOOLEAN /\ due \in BOOLEAN /\ running \in BOOLEAN
CounterType ==
    /\ failureStreak \in [Kind -> Nat]
    /\ flushed \in [Kind -> Nat]
    /\ sent \in [Kind -> Nat]
    /\ failed \in [Kind -> Nat]
    /\ dropped \in [Kind -> Nat]
    /\ pushed \in [Kind -> Int]
    /\ perm \in [Kind -> Nat]
    /\ count \in [Workers -> Nat]
    /\ used \in [Cost -> Nat]
    /\ loopFailures \in Nat
    /\ spawned \in Nat
ControlType ==
    /\ retryAfter \in [Kind -> {"none", "closed", "expired"}]
    /\ pc \in [Workers -> PcSet]
    /\ wkind \in [Workers -> Kind]
    /\ pending \in [Callers -> Kind \cup {"none"}]
    /\ main \in MainSet
    /\ loadKind \in Kind
    /\ clearing \in [Kind -> Nat]
RecordType ==
    /\ accepted \in [Kind -> Nat]
    /\ evicted \in [Workers -> SUBSET RecordId]
    /\ toLoad \in SUBSET RecordId
    /\ store \in [Kind -> SUBSET RecordId]
    /\ delivered \in [Kind -> SUBSET RecordId]
    /\ discarded \in [Kind -> SUBSET RecordId]
    /\ volatile \in [Kind -> SUBSET RecordId]
    /\ lost \in [Kind -> SUBSET RecordId]

(* Type correctness of the agent's state and of the histories.             *)
TypeOK == ItemType /\ FlagType /\ CounterType /\ ControlType /\ RecordType

(* The configured buffer_size bounds each queue, and so each batch drained *)
(* from it, whatever inserts, requeues and reloads race.                   *)
Capacity ==
    /\ \A k \in Kind : Len(buffer[k]) <= BufferSize
    /\ \A w \in Workers : Len(batch[w]) <= BufferSize

(* At-least-once delivery: a record that a send_* call accepted is in the  *)
(* durable store, was delivered, was discarded by a documented rule (full  *)
(* buffer, permanent rejection, clear_buffer), or never had a durable copy *)
(* and is still in memory or died with the process that held it.           *)
NoSilentLoss ==
    \A k \in Kind : \A n \in 1..accepted[k] :
        \/ n \in store[k]
        \/ n \in delivered[k] \cup discarded[k] \cup lost[k]
        \/ n \in volatile[k] /\ n \in InMemory(k)

(* What makes NoSilentLoss inductive.  A permit holds a batch only from    *)
(* the drain to the end of its handling, and evicted keys only from the    *)
(* requeue to their deletion; a batch about to be confirmed is settled, as *)
(* are the records whose keys are about to be deleted.                     *)
WorkerShape ==
    \A w \in Workers :
        /\ batch[w] # <<>> =>
              pc[w] \in {"send", "confirm", "confirmDrop", "account", "requeue"}
        /\ evicted[w] # {} => pc[w] \in {"backoff", "forget"}

DeletesSettled ==
    \A w \in Workers :
        /\ pc[w] \in {"confirm", "confirmDrop", "account"} =>
              Ids(batch[w]) \subseteq delivered[wkind[w]] \cup discarded[wkind[w]]
        /\ evicted[w] \subseteq discarded[wkind[w]]

LossInv == TypeOK /\ NoSilentLoss /\ WorkerShape /\ DeletesSettled /\ clearing = NoneClearing

(* Records held in memory whose batch no server has confirmed, and that    *)
(* carry a key: persistence.rs says a record is deleted only after the     *)
(* server confirms its batch, so each still has its durable copy (unless   *)
(* the TTL took it).                                                       *)
Unconfirmed(k) ==
    LiveKeys(buffer[k]) \cup
    UNION {LiveKeys(batch[w]) :
              w \in {v \in Workers : wkind[v] = k /\ pc[v] \in {"send", "requeue"}}}

DurableUntilConfirmed ==
    \A k \in Kind : Unconfirmed(k) \subseteq store[k] \cup volatile[k]

(* With one permit the queue keeps acceptance order across drains, failed  *)
(* sends, evictions and the reload after a crash, and a drained batch is   *)
(* older than everything buffered since; so no record is in memory twice.  *)
Increasing(items) ==
    \A i, j \in DOMAIN items : i < j => items[i].id < items[j].id

InOrder ==
    \A k \in Kind : /\ Increasing(buffer[k])
                    /\ \A w \in Workers :
                          wkind[w] = k => Increasing(batch[w] \o buffer[k])

(* No record is held twice in memory: so no two flushes send it at once,   *)
(* and confirming one batch never deletes the durable copy of a record     *)
(* that another batch, or the queue, still holds.                          *)
HeldOnce ==
    \A k \in Kind :
        /\ \A i, j \in DOMAIN buffer[k] :
              i # j => buffer[k][i].id # buffer[k][j].id
        /\ \A w \in {v \in Workers : wkind[v] = k} :
              /\ Ids(batch[w]) \cap Ids(buffer[k]) = {}
              /\ \A v \in Workers \ {w} :
                    wkind[v] = k => Ids(batch[v]) \cap Ids(batch[w]) = {}

(* What get_stats reports of one kind, in one critical section.            *)
GetStats(k) ==
    [buffered |-> Len(buffer[k]), flushed |-> flushed[k], sent |-> sent[k],
     failed |-> failed[k], dropped |-> dropped[k]]

(* The flushes of a kind that have not settled with the counters, and what *)
(* they have in hand, counted place by place: the records of their         *)
(* batches, and the numbers their critical sections are going to add.      *)
InFlight(k) == {w \in Workers : wkind[w] = k /\ pc[w] # "confirmDrop"}
Places(size, permits) == UNION {{w} \X (1..size[w]) : w \in permits}
InBatches(k) == Cardinality(Places([w \in Workers |-> Len(batch[w])], InFlight(k)))
InCounts(k) == Cardinality(Places(count, InFlight(k)))

(* The counters of get_stats add up at every step: what entered the queue  *)
(* and was not cleared is queued, in flight, sent, dropped or permanently  *)
(* rejected, and what was drained is in flight, sent, failed or            *)
(* permanently rejected.                                                   *)
StatsAddUp ==
    \A k \in Kind :
        LET stats == GetStats(k) IN
        /\ pushed[k] = stats.buffered + stats.sent + stats.dropped + perm[k] + InBatches(k)
        /\ stats.flushed = stats.sent + stats.failed + perm[k] + InCounts(k)

(* A kind whose last send failed is left alone until its backoff is over:  *)
(* no flush drains it while the gate is closed.                            *)
GateRespected ==
    [][\A k \in Kind, w \in Workers :
          (pc[w] = "drain" /\ pc'[w] = "send" /\ wkind[w] = k)
             => retryAfter[k] # "closed"]_vars

(* Every record the agent accepted and holds is eventually delivered or    *)
(* discarded by a documented rule, once the server stops failing.          *)
EventuallySettled ==
    \A k \in Kind : \A n \in 1..MaxAccepted[k] :
        (n <= accepted[k]) ~> (n \in delivered[k] \cup discarded[k])

(* A caller inside send_event or send_metric returns: under Block, too,    *)
(* where on a full buffer it waits for a flush to make room.               *)
CallersReturn ==
    \A c \in Callers : (pending[c] # "none") ~> (pending[c] = "none")
=============================================================================
