------------------------------ MODULE Transport ------------------------------
(***************************************************************************)
(* HttpTransport (src/src/transport.rs): concurrent calls of send_batch,   *)
(* send_status and fetch_rules, each a retry loop over one shared rate     *)
(* limiter and one shared circuit breaker, with the recursive halving of   *)
(* batches the server finds too large.                                     *)
(*                                                                         *)
(* One action is one method call on the limiter or the breaker, or one     *)
(* answer of the server with everything the loop does about it.  Time is   *)
(* a tick that ages the breaker and the limiter and wears down sleeps.     *)
(* The counters requests_sent and bytes_sent, which nothing reads but      *)
(* get_stats, are left out.                                                *)
(***************************************************************************)
EXTENDS CircuitBreaker, RateLimiter, FiniteSets

CONSTANTS
    Tasks,          \* concurrent callers of the transport
    Role,           \* what each of them calls
    Attempts,       \* retry_attempts + 1
    BatchSize,      \* bound: items of a batch
    BackoffFactor,  \* config.backoff_factor, in ticks
    MaxBackoff,     \* MAX_RETRY_BACKOFF_SECS, in ticks
    MaxRetryAfter,  \* MAX_RETRY_AFTER_SECS, in ticks
    Encrypted       \* is a project encryption key configured?

ASSUME TransportAssumption ==
    /\ Role \in [Tasks -> {"batch", "status", "rules"}]
    /\ Attempts \in Nat \ {0}
    /\ BatchSize \in Nat \ {0}
    /\ BackoffFactor \in Nat /\ MaxBackoff \in Nat /\ MaxRetryAfter \in Nat
    /\ Encrypted \in BOOLEAN

VARIABLES
    \* one retry loop per task: control point, batches still to send (the
    \* first one in hand), attempts used up, ticks left to sleep
    tpc, todo, attempt, wait,
    \* how the task's last call ended, and its increments of requests_failed
    outcome, counted,
    \* history: the items of this call, those the server took and refused;
    \* tasks on the wire that were admitted past the recovery window;
    \* failures in a row (up to Threshold) and ticks since the last of so
    \* many; ages of the calls admitted less than Window ticks ago
    whole, taken, refused, probes, streak, quiet, admitted

loopVars == <<tpc, todo, attempt, wait>>
fateVars == <<whole, taken, refused>>
pastVars == <<probes, streak, quiet, admitted>>
vars == <<breakerVars, calls, loopVars, outcome, counted, fateVars, pastVars>>

Init ==
    /\ BreakerInit
    /\ LimiterInit
    /\ tpc = [t \in Tasks |-> "idle"]
    /\ todo = [t \in Tasks |-> <<>>]
    /\ attempt = [t \in Tasks |-> 0]
    /\ wait = [t \in Tasks |-> 0]
    /\ outcome = [t \in Tasks |-> "none"]
    /\ counted = [t \in Tasks |-> 0]
    /\ whole = [t \in Tasks |-> {}]
    /\ taken = [t \in Tasks |-> {}]
    /\ refused = [t \in Tasks |-> {}]
    /\ probes = {}
    /\ streak = 0
    /\ quiet = 0
    /\ admitted = <<>>

IsPost(t) == Role[t] # "rules"
InHand(t) == Head(todo[t])

(* What a call is to send: the items of a batch; the others carry none.    *)
Payloads(t) == IF Role[t] = "batch" THEN {1..n : n \in 1..BatchSize} ELSE {{}}

(* calculate_backoff_delay: doubled per attempt, then capped.              *)
Backoff(n) ==
    LET raw == BackoffFactor * 2^n IN IF raw \in 0..MaxBackoff THEN raw ELSE MaxBackoff

(* Mutant of Halves: the item in the middle is left out.                   *)
HalvesLoseMiddle(items) ==
    LET mid == Cardinality(items) \div 2
        below(i) == Cardinality({j \in items : j < i})
    IN  <<{i \in items : below(i) < mid}, {i \in items : below(i) > mid}>>

(* BatchItems::split: the batch, a run of items, is cut in the middle.     *)
Halves(items) ==
    LET low == {i \in items : Cardinality({j \in items : j < i}) < Cardinality(items) \div 2}
    IN  <<low, items \ low>>

-----------------------------------------------------------------------------
(* Control of one retry loop.                                              *)

Goto(t, place) == tpc' = [tpc EXCEPT ![t] = place] /\ UNCHANGED <<todo, attempt, wait, outcome>>

(* The attempt is used up: sleep, then try again.                          *)
Sleep(t, ticks) ==
    /\ tpc' = [tpc EXCEPT ![t] = "sleep"]
    /\ wait' = [wait EXCEPT ![t] = ticks]
    /\ attempt' = [attempt EXCEPT ![t] = @ + 1]
    /\ UNCHANGED <<todo, outcome>>

Finish(t, result) ==
    /\ tpc' = [tpc EXCEPT ![t] = "idle"]
    /\ outcome' = [outcome EXCEPT ![t] = result]
    /\ todo' = [todo EXCEPT ![t] = <<>>]
    /\ attempt' = [attempt EXCEPT ![t] = 0]
    /\ UNCHANGED wait

(* Go on with these batches, each with its own retry budget.               *)
SendNext(t, batches) ==
    /\ tpc' = [tpc EXCEPT ![t] = "limit"]
    /\ todo' = [todo EXCEPT ![t] = batches]
    /\ attempt' = [attempt EXCEPT ![t] = 0]
    /\ UNCHANGED <<wait, outcome>>

(* A batch confirmed: the other half of a split batch follows, and the     *)
(* last batch sent decides the outcome.                                    *)
Confirmed(t, result) ==
    IF Len(todo[t]) = 1 THEN Finish(t, result) ELSE SendNext(t, Tail(todo[t]))

(* The attempt failed: the last one ends the call and is counted in        *)
(* requests_failed, any other is followed by a sleep.                      *)
Failing(t, ticks) ==
    IF attempt[t] + 1 = Attempts
    THEN /\ counted' = [counted EXCEPT ![t] = @ + 1]
         /\ Finish(t, "failed")
    ELSE Sleep(t, ticks) /\ UNCHANGED counted

-----------------------------------------------------------------------------
Call(t) ==
    /\ tpc[t] = "idle"
    /\ \E items \in Payloads(t) :
          SendNext(t, <<items>>) /\ whole' = [whole EXCEPT ![t] = items]
    /\ counted' = [counted EXCEPT ![t] = 0]
    /\ taken' = [taken EXCEPT ![t] = {}]
    /\ refused' = [refused EXCEPT ![t] = {}]
    /\ UNCHANGED <<breakerVars, calls, pastVars>>

(* The loop runs out of attempts without having returned.                  *)
LoopExits(t) ==
    /\ tpc[t] = "limit"
    /\ attempt[t] = Attempts
    /\ Finish(t, "failed")
    /\ UNCHANGED <<breakerVars, calls, counted, fateVars, pastVars>>

(* Mutant of Acquire: the bound of the loop is not looked at.              *)
AcquireUnbounded(t) ==
    /\ tpc[t] = "limit"
    /\ AcquireSlot
    /\ admitted' = Append(admitted, 0)
    /\ Goto(t, "admit")
    /\ UNCHANGED <<breakerVars, counted, fateVars, probes, streak, quiet>>

Acquire(t) ==
    /\ tpc[t] = "limit"
    /\ attempt[t] < Attempts
    /\ AcquireSlot
    /\ admitted' = Append(admitted, 0)
    /\ Goto(t, "admit")
    /\ UNCHANGED <<breakerVars, counted, fateVars, probes, streak, quiet>>

Blocked(t) ==
    /\ tpc[t] = "limit"
    /\ attempt[t] < Attempts
    /\ AcquireBlocked
    /\ Goto(t, "blocked")
    /\ UNCHANGED <<breakerVars, counted, fateVars, pastVars>>

(* Mutant of SleepRetryAfter: a blocked call does not use up an attempt.   *)
SleepRetryAfterFree(t) ==
    /\ tpc[t] = "blocked"
    /\ tpc' = [tpc EXCEPT ![t] = "sleep"]
    /\ wait' = [wait EXCEPT ![t] = RetryAfter]
    /\ UNCHANGED <<todo, attempt, outcome, breakerVars, calls, counted, fateVars, pastVars>>

(* The limiter is asked again how long to wait, under its own lock.        *)
SleepRetryAfter(t) ==
    /\ tpc[t] = "blocked"
    /\ Sleep(t, RetryAfter)
    /\ UNCHANGED <<breakerVars, calls, counted, fateVars, pastVars>>

(* The breaker lets the request out.                                       *)
Admit(t) ==
    /\ tpc[t] = "admit"
    /\ BreakerAdmit
    /\ probes' = IF Closed THEN probes ELSE probes \cup {t}
    /\ Goto(t, "wire")
    /\ UNCHANGED <<calls, counted, fateVars, streak, quiet, admitted>>

(* The breaker is open: the attempt is used up all the same.               *)
Refuse(t) ==
    /\ tpc[t] = "admit"
    /\ ~Admits
    /\ Failing(t, Backoff(attempt[t]))
    /\ UNCHANGED <<breakerVars, calls, fateVars, pastVars>>

-----------------------------------------------------------------------------
(* Answers.  Take(t, S): the server took S, whatever it answered.          *)

Take(t, items) == taken' = [taken EXCEPT ![t] = @ \cup items]

Answered(t) ==
    /\ tpc[t] = "wire"
    /\ probes' = probes \ {t}
    /\ UNCHANGED <<calls, admitted>>

Success == RecordSuccess /\ streak' = 0 /\ quiet' = 0

Failure ==
    /\ RecordFailure
    /\ streak' = IF streak < Threshold THEN streak + 1 ELSE streak
    /\ quiet' = 0

(* 201..299, or 200 with a clean acknowledgement.                          *)
Accepted(t) ==
    /\ IsPost(t) /\ Answered(t)
    /\ Success
    /\ Take(t, InHand(t))
    /\ Confirmed(t, "accepted")
    /\ UNCHANGED <<counted, whole, refused>>

(* 200 with success = false or errors: the batch goes back to the buffer.  *)
PartialFailure(t) ==
    /\ IsPost(t) /\ Answered(t)
    /\ Success
    /\ \E items \in SUBSET InHand(t) : Take(t, items)
    /\ Finish(t, "failed")
    /\ UNCHANGED <<counted, whole, refused>>

(* Mutant of Permanent: the other half of a split batch is forgotten.      *)
PermanentEndsCall(t) ==
    /\ IsPost(t) /\ Answered(t)
    /\ refused' = [refused EXCEPT ![t] = @ \cup InHand(t)]
    /\ Finish(t, "permanent")
    /\ UNCHANGED <<breakerVars, counted, whole, taken, streak, quiet>>

(* 400, 404, 422: dropped and confirmed; the breaker is not told.          *)
Permanent(t) ==
    /\ IsPost(t) /\ Answered(t)
    /\ refused' = [refused EXCEPT ![t] = @ \cup InHand(t)]
    /\ Confirmed(t, "permanent")
    /\ UNCHANGED <<breakerVars, counted, whole, taken, streak, quiet>>

(* 413: a status fails; a single item or an encrypted batch is dropped;    *)
(* any other batch is sent in halves.                                      *)
Splits(t) == Role[t] = "batch" /\ ~Encrypted /\ Cardinality(InHand(t)) > 1

TooLarge(t) ==
    /\ IsPost(t) /\ Answered(t)
    /\ \/ /\ Role[t] = "status"
          /\ Finish(t, "failed")
          /\ UNCHANGED refused
       \/ /\ Role[t] = "batch" /\ ~Splits(t)
          /\ refused' = [refused EXCEPT ![t] = @ \cup InHand(t)]
          /\ Confirmed(t, "permanent")
       \/ /\ Splits(t)
          /\ SendNext(t, Halves(InHand(t)) \o Tail(todo[t]))
          /\ UNCHANGED refused
    /\ UNCHANGED <<breakerVars, counted, whole, taken, streak, quiet>>

(* 429: Retry-After, capped, before the next attempt.                      *)
RateLimited(t) ==
    /\ Answered(t)
    /\ Failure
    /\ \E ticks \in 0..MaxRetryAfter : Failing(t, ticks)
    /\ UNCHANGED fateVars

(* 401, 403, other 4xx, 5xx, no answer, an answer lost or unreadable.      *)
Retryable(t) ==
    /\ Answered(t)
    /\ Failure
    /\ Failing(t, Backoff(attempt[t]))
    /\ \E items \in SUBSET InHand(t) : Take(t, items)
    /\ UNCHANGED <<whole, refused>>

(* GET: a JSON object ends the call; fetch_rules may still find no rules   *)
(* in it.                                                                  *)
GetObject(t) ==
    /\ ~IsPost(t) /\ Answered(t)
    /\ Success
    /\ \E result \in {"accepted", "malformed"} : Finish(t, result)
    /\ UNCHANGED <<counted, fateVars>>

(* GET: any other JSON counts as failed and is tried again at once.        *)
GetOther(t) ==
    /\ ~IsPost(t) /\ Answered(t)
    /\ Success
    /\ counted' = [counted EXCEPT ![t] = @ + 1]
    /\ tpc' = [tpc EXCEPT ![t] = "limit"]
    /\ attempt' = [attempt EXCEPT ![t] = @ + 1]
    /\ UNCHANGED <<todo, wait, outcome, fateVars>>

Answer(t) ==
    \/ Accepted(t) \/ PartialFailure(t) \/ Permanent(t) \/ TooLarge(t)
    \/ RateLimited(t) \/ Retryable(t) \/ GetObject(t) \/ GetOther(t)

-----------------------------------------------------------------------------
Wake(t) ==
    /\ tpc[t] = "sleep"
    /\ wait[t] = 0
    /\ Goto(t, "limit")
    /\ UNCHANGED <<breakerVars, calls, counted, fateVars, pastVars>>

(* The admissions of the last Window ticks one tick later, reckoned apart  *)
(* from the limiter's own retain().                                        *)
LastWindow(ages) ==
    LET gone == CHOOSE n \in 0..Len(ages) :
                   \A i \in DOMAIN ages : i > n <=> ages[i] + 1 < Window
    IN  SubSeq([i \in DOMAIN ages |-> ages[i] + 1], gone + 1, Len(ages))

Tick ==
    /\ BreakerTick
    /\ LimiterTick
    /\ wait' = [t \in Tasks |-> IF wait[t] > 0 THEN wait[t] - 1 ELSE 0]
    /\ quiet' = IF streak = Threshold /\ quiet < Recovery THEN quiet + 1 ELSE quiet
    /\ admitted' = LastWindow(admitted)
    /\ UNCHANGED <<tpc, todo, attempt, outcome, counted, fateVars, probes, streak>>

Step(t) ==
    \/ LoopExits(t) \/ Acquire(t) \/ Blocked(t) \/ SleepRetryAfter(t)
    \/ Admit(t) \/ Refuse(t) \/ Answer(t) \/ Wake(t)

Next == Tick \/ \E t \in Tasks : Call(t) \/ Step(t)

Spec == Init /\ [][Next]_vars

(* Time passes, tasks are scheduled, and the HTTP client's timeout turns a *)
(* missing answer into an error.  Nobody is obliged to call.               *)
FairSpec == Spec /\ WF_vars(Tick) /\ \A t \in Tasks : WF_vars(Step(t))

-----------------------------------------------------------------------------
Place == {"idle", "limit", "blocked", "admit", "wire", "sleep"}
Items == 1..BatchSize

(* Sleeps the three caps allow.                                            *)
Pause == 0..MaxBackoff \cup 0..MaxRetryAfter \cup 0..Window

TransportType ==
    /\ tpc \in [Tasks -> Place]
    /\ todo \in [Tasks -> Seq(SUBSET Items)]
    /\ attempt \in [Tasks -> 0..Attempts]
    /\ wait \in [Tasks -> Pause]
    /\ outcome \in [Tasks -> {"none", "accepted", "permanent", "failed", "malformed"}]
    /\ counted \in [Tasks -> Nat]
    /\ whole \in [Tasks -> SUBSET Items]
    /\ taken \in [Tasks -> SUBSET Items]
    /\ refused \in [Tasks -> SUBSET Items]
BreakerType ==
    /\ failures \in 0..MaxFailures
    /\ opened \in BOOLEAN
    /\ age \in 0..Recovery
    /\ halfOpen \in BOOLEAN
    /\ probes \in SUBSET Tasks
    /\ streak \in 0..Threshold
    /\ quiet \in 0..Recovery
LimiterType ==
    /\ calls \in Seq(0..Window)
    /\ admitted \in Seq(0..(Window - 1))

(* Type correctness of the transport, its breaker, its limiter and the     *)
(* histories.  A loop uses up its attempts and no more, it never sleeps    *)
(* longer than the caps on backoff and Retry-After and the limiter's       *)
(* window, and what it sends are items of the batch.                       *)
TypeOK == TransportType /\ BreakerType /\ LimiterType

(* The breaker's three fields agree whatever late answers race: it is open *)
(* exactly after Threshold failures, half-open only while open, and        *)
(* state() reports OPEN exactly when admit() refuses.                      *)
BreakerConsistent ==
    /\ opened <=> failures >= Threshold
    /\ halfOpen => opened
    /\ (BreakerState = "OPEN") <=> ~Admits

(* docs/usage.md: the breaker opens after 5 consecutive transport          *)
(* failures.  Counted over all tasks and independently of the breaker's    *)
(* own fields: once that many answers in a row have failed, no request     *)
(* goes out until a full recovery window has passed since the last one.    *)
QuietAfterFailures ==
    [][\A t \in Tasks : tpc[t] = "admit" /\ tpc'[t] = "wire"
                           => streak < Threshold \/ quiet >= Recovery]_vars

(* What makes QuietAfterFailures inductive: the breaker is open exactly    *)
(* when the history says so, its window began with the last failure, and   *)
(* while closed it counts the same failures.                               *)
BreakerInv ==
    /\ BreakerType
    /\ BreakerConsistent
    /\ halfOpen => age >= Recovery
    /\ opened <=> streak >= Threshold
    /\ opened => age = quiet
    /\ ~opened => failures = streak

(* However many tasks share the limiter, no Window ticks see more than     *)
(* MaxCalls requests admitted, counted apart from the limiter's list.      *)
RateBound == Len(admitted) <= MaxCalls

(* What the flush layer may conclude from a send_batch outcome: a          *)
(* confirmed batch, split or not, leaves no item that the server neither   *)
(* took nor refused for good, an accepted one delivered something, and the *)
(* durable records of the batch may go.                                    *)
SendContract ==
    \A t \in Tasks :
        LET settled == taken[t] \cup refused[t]
            left == UNION {todo[t][i] : i \in DOMAIN todo[t]}
        IN  /\ tpc[t] # "idle" => settled \cup left = whole[t]
            /\ tpc[t] = "idle" /\ outcome[t] \in {"accepted", "permanent"} =>
                  settled = whole[t]
            /\ tpc[t] = "idle" /\ outcome[t] = "accepted" /\ Role[t] = "batch" =>
                  taken[t] # {}

(* A call of the transport returns, whatever the server, the breaker and   *)
(* the other tasks do.                                                     *)
CallsReturn == \A t \in Tasks : tpc[t] # "idle" ~> tpc[t] = "idle"

(* circuit_breaker.rs: after the recovery window a single probe is         *)
(* admitted.                                                               *)
SingleProbe == Cardinality(probes) <= 1
=============================================================================
