----------------------------- MODULE RulesCache -----------------------------
(***************************************************************************)
(* The dynamic rules cache (fetch_dynamic_rules_once and rules_loop of     *)
(* src/src/agent.rs): callers and the background loop read the cached      *)
(* document while it is younger than its own ttl, and otherwise fetch a    *)
(* new one and store it under the core mutex after the await.              *)
(*                                                                         *)
(* The server publishes numbered documents.  Time is a tick; the instant   *)
(* rules_last_update is an age in ticks.  A call reads the clock before it *)
(* has the mutex, and an answer is stored some time after the server gave  *)
(* it: both gaps are bounded by MaxDelay (client timeout, mutex wait).     *)
(***************************************************************************)
EXTENDS Integers

CONSTANTS
    Fetchers,       \* tasks that call get_dynamic_rules, and the loop
    TheLoop,        \* the one of them that is rules_loop
    MaxVersion,     \* bound: documents the server publishes
    Ttl,            \* DynamicRules.ttl of each document, in ticks
    MaxDelay,       \* bound: ticks between clock and check, answer and store
    MaxFailures     \* bound: calls in a row that yield one caller no document

Version == 1..MaxVersion
NoRules == 0

ASSUME RulesAssumption ==
    /\ TheLoop \in Fetchers
    /\ MaxVersion \in Nat \ {0}
    /\ Ttl \in [Version -> Nat]
    /\ MaxDelay \in Nat /\ MaxFailures \in Nat

VARIABLES
    \* CoreState: cached_rules, age of rules_last_update, loop_failures.rules
    cached, updated, loopFailures,
    \* each caller's control point, ticks spent there, what it has in hand
    phase, timer, got,
    \* the server's current document; ticks since each older one was replaced
    published, gone,
    \* calls in a row that yielded each caller no document
    failed

cacheVars == <<cached, updated>>
callVars == <<phase, timer, got>>
vars == <<cacheVars, loopFailures, callVars, published, gone, failed>>

MaxTtl == CHOOSE n \in {Ttl[v] : v \in Version} : \A v \in Version : Ttl[v] <= n
Horizon == MaxTtl + 2 * MaxDelay + 1

Init ==
    /\ cached = NoRules
    /\ updated = 0
    /\ loopFailures = 0
    /\ phase = [f \in Fetchers |-> "idle"]
    /\ timer = [f \in Fetchers |-> 0]
    /\ got = [f \in Fetchers |-> NoRules]
    /\ published = 1
    /\ gone = [v \in Version |-> 0]
    /\ failed = [f \in Fetchers |-> 0]

Goto(f, place, version) ==
    /\ phase' = [phase EXCEPT ![f] = place]
    /\ timer' = [timer EXCEPT ![f] = 0]
    /\ got' = [got EXCEPT ![f] = version]

(* The loop has its failure counter to see to; other callers have returned *)
Returned(f) == IF f = TheLoop THEN "account" ELSE "idle"

(* A call, or the loop's tick: Instant::now() is read first.               *)
Call(f) ==
    /\ phase[f] = "idle"
    /\ Goto(f, "check", NoRules)
    /\ UNCHANGED <<cacheVars, loopFailures, published, gone, failed>>

(* Mutant of IsFresh: a cached document is good for a tick longer.         *)
IsFreshTooLong(f) ==
    /\ cached # NoRules
    /\ LET age == IF updated > timer[f] THEN updated - timer[f] ELSE 0
       IN  age <= Ttl[cached]

(* The cached copy was younger than its ttl when the clock was read        *)
(* (duration_since is 0 for an update made since then).                    *)
IsFresh(f) ==
    /\ cached # NoRules
    /\ LET age == IF updated > timer[f] THEN updated - timer[f] ELSE 0
       IN  age < Ttl[cached]

ServeCached(f) ==
    /\ phase[f] = "check"
    /\ IsFresh(f)
    /\ Goto(f, Returned(f), cached)
    /\ failed' = [failed EXCEPT ![f] = 0]
    /\ UNCHANGED <<cacheVars, loopFailures, published, gone>>

Request(f) ==
    /\ phase[f] = "check"
    /\ ~IsFresh(f)
    /\ Goto(f, "wire", NoRules)
    /\ UNCHANGED <<cacheVars, loopFailures, published, gone, failed>>

(* The server answers with the document it has at that moment.             *)
Answer(f) ==
    /\ phase[f] = "wire"
    /\ Goto(f, "store", published)
    /\ UNCHANGED <<cacheVars, loopFailures, published, gone, failed>>

(* Mutant of FetchFails: the cache follows the outcome.                    *)
FetchFailsDropsCache(f) ==
    /\ phase[f] = "wire"
    /\ failed[f] < MaxFailures
    /\ failed' = [failed EXCEPT ![f] = @ + 1]
    /\ Goto(f, Returned(f), NoRules)
    /\ cached' = NoRules
    /\ UNCHANGED <<updated, loopFailures, published, gone>>

(* No document: the last good one stays cached, with its old time.         *)
FetchFails(f) ==
    /\ phase[f] = "wire"
    /\ failed[f] < MaxFailures
    /\ failed' = [failed EXCEPT ![f] = @ + 1]
    /\ Goto(f, Returned(f), NoRules)
    /\ UNCHANGED <<cacheVars, loopFailures, published, gone>>

Store(f) ==
    /\ phase[f] = "store"
    /\ cached' = got[f]
    /\ updated' = 0
    /\ Goto(f, Returned(f), got[f])
    /\ failed' = [failed EXCEPT ![f] = 0]
    /\ UNCHANGED <<loopFailures, published, gone>>

(* Mutants of AccountLoop: a refresh that worked leaves the counter, or    *)
(* takes one off it.                                                       *)
AccountLoopDecrements(f) ==
    /\ phase[f] = "account"
    /\ loopFailures' = IF got[f] # NoRules THEN loopFailures - 1 ELSE loopFailures + 1
    /\ Goto(f, "idle", got[f])
    /\ UNCHANGED <<cacheVars, published, gone, failed>>
AccountLoopNoReset(f) ==
    /\ phase[f] = "account"
    /\ loopFailures' = IF got[f] # NoRules THEN loopFailures ELSE loopFailures + 1
    /\ Goto(f, "idle", got[f])
    /\ UNCHANGED <<cacheVars, published, gone, failed>>

(* rules_loop counts refreshes without an outcome, in a critical section   *)
(* of its own.                                                             *)
AccountLoop(f) ==
    /\ phase[f] = "account"
    /\ loopFailures' = IF got[f] # NoRules THEN 0 ELSE loopFailures + 1
    /\ Goto(f, "idle", got[f])
    /\ UNCHANGED <<cacheVars, published, gone, failed>>

Step(f) ==
    \/ ServeCached(f) \/ Request(f) \/ Answer(f) \/ FetchFails(f)
    \/ Store(f) \/ AccountLoop(f)

Publish ==
    /\ published < MaxVersion
    /\ published' = published + 1
    /\ UNCHANGED <<cacheVars, loopFailures, callVars, gone, failed>>

(* Ages are counted as far as anything tells them apart.                   *)
Older(age, limit) == IF age < limit THEN age + 1 ELSE age

Tick ==
    /\ \A f \in Fetchers : phase[f] \in {"check", "store"} => timer[f] < MaxDelay
    /\ updated' = Older(updated, MaxTtl + MaxDelay)
    /\ timer' = [f \in Fetchers |->
                    IF phase[f] \in {"check", "store"} THEN timer[f] + 1 ELSE timer[f]]
    /\ gone' = [v \in Version |-> IF v < published THEN Older(gone[v], Horizon) ELSE 0]
    /\ UNCHANGED <<cached, loopFailures, phase, got, published, failed>>

Next == Publish \/ Tick \/ \E f \in Fetchers : Call(f) \/ Step(f)

Spec == Init /\ [][Next]_vars

(* Time passes, tasks run, the loop's timer fires, and a fetch ends (it is *)
(* a retry loop that returns, CallsReturn of Transport).                   *)
FairSpec ==
    /\ Spec
    /\ WF_vars(Tick) /\ WF_vars(Call(TheLoop))
    /\ \A f \in Fetchers : WF_vars(Step(f))

-----------------------------------------------------------------------------
(* Type correctness of the cache and its callers.                          *)
TypeOK ==
    /\ cached \in Version \cup {NoRules}
    /\ updated \in 0..(MaxTtl + MaxDelay)
    /\ loopFailures \in Nat
    /\ phase \in [Fetchers -> {"idle", "check", "wire", "store", "account"}]
    /\ timer \in [Fetchers -> 0..MaxDelay]
    /\ got \in [Fetchers -> Version \cup {NoRules}]
    /\ published \in Version
    /\ gone \in [Version -> 0..Horizon]
    /\ failed \in [Fetchers -> 0..MaxFailures]

(* get_dynamic_rules serves a cached copy only while it is younger than    *)
(* its own ttl.  However refreshes overlap and fail, the document a caller *)
(* gets was the server's current one no longer ago than that ttl and the   *)
(* two delays.                                                             *)
FreshEnough ==
    [][\A f \in Fetchers : ServeCached(f) =>
          gone[cached] < Ttl[cached] + 2 * MaxDelay]_vars

(* rules_loop's failure counter is the number of its latest iterations in  *)
(* a row that got no rules, counted where the outcome is known: a document *)
(* from the cache or the server ends the row, other callers' fetches do    *)
(* not, and while an iteration is under way the counter is that of the one *)
(* before.                                                                 *)
LoopStreak == phase[TheLoop] # "account" => loopFailures = failed[TheLoop]

(* A new document reaches the cache and stays there, although an answer    *)
(* that was given before it may be stored after it and later fetches may   *)
(* fail: a failed fetch leaves the last good rules cached.                 *)
RulesPropagate == (published = MaxVersion) ~> [](cached = MaxVersion)
=============================================================================
