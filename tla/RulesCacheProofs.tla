--------------------------- MODULE RulesCacheProofs ---------------------------
(***************************************************************************)
(* Proofs of the safety properties of RulesCache, for any set of callers,  *)
(* any number of published documents and any times to live.                *)
(***************************************************************************)
EXTENDS RulesCache, WellFoundedInduction, TLAPS

USE DEF vars, cacheVars, callVars

-----------------------------------------------------------------------------
(* The longest time to live.                                               *)

(* A nonempty set of natural numbers has a least element.                  *)
LEMMA LeastNumber ==
  ASSUME NEW T \in SUBSET Nat, T # {}
  PROVE  \E x \in T : \A y \in T : x <= y
<1>1. IsWellFoundedOn(OpToRel(<, Nat), Nat)
  BY NatLessThanWellFounded, Zenon
<1>2. PICK x \in T : \A y \in T : ~(<<y, x>> \in OpToRel(<, Nat))
  BY <1>1, WFMin, Zenon
<1>3. \A y \in T : ~(y < x)
  BY <1>2 DEF OpToRel
<1>4. QED
  BY <1>3

(* Among finitely many documents one lives longest: were there a number of *)
(* documents without one, the least such number would give a contradiction.*)
LEMMA LongestTtl ==
  \E m \in Version : \A v \in Version : Ttl[v] <= Ttl[m]
<1> DEFINE Longest(k) == \E m \in 1..k : \A v \in 1..k : Ttl[v] <= Ttl[m]
           T == {k \in 1..MaxVersion : ~Longest(k)}
<1>0. MaxVersion \in Nat \ {0} /\ \A v \in 1..MaxVersion : Ttl[v] \in Nat
  BY RulesAssumption DEF Version
<1>1. SUFFICES ASSUME T # {} PROVE FALSE
  <2>1. MaxVersion \in 1..MaxVersion
    BY <1>0
  <2>2. Longest(MaxVersion)
    BY <1>1, <2>1
  <2>3. QED
    BY <2>2 DEF Version
<1>2. PICK k \in T : \A y \in T : k <= y
  <2>1. T \subseteq Nat
    BY <1>0
  <2> HIDE DEF T
  <2>2. QED
    BY <1>1, <2>1, LeastNumber
<1>3. k \in 1..MaxVersion /\ ~Longest(k)
  OBVIOUS
<1>4. CASE k = 1
  <2>1. \A v \in 1..1 : Ttl[v] <= Ttl[1]
    BY <1>0, <1>3, <1>4
  <2>2. QED
    BY <1>3, <1>4, <2>1
<1>5. CASE k # 1
  <2>1. k - 1 \in 1..MaxVersion /\ ~(k <= k - 1)
    BY <1>0, <1>3, <1>5
  <2>2. Longest(k - 1)
    BY <1>2, <2>1
  <2>3. PICK m \in 1..(k - 1) : \A v \in 1..(k - 1) : Ttl[v] <= Ttl[m]
    BY <2>2
  <2>4. m \in 1..k /\ k \in 1..k /\ \A v \in 1..k : v \in 1..(k - 1) \/ v = k
    BY <1>0, <1>3
  <2>5. Ttl[m] \in Nat /\ Ttl[k] \in Nat /\ \A v \in 1..k : Ttl[v] \in Nat
    BY <1>0, <1>3, <2>4
  <2>6. CASE Ttl[k] <= Ttl[m]
    BY <1>3, <2>3, <2>4, <2>6
  <2>7. CASE Ttl[m] < Ttl[k]
    <3>1. \A v \in 1..k : Ttl[v] <= Ttl[k]
      BY <2>3, <2>4, <2>5, <2>7
    <3>2. QED
      BY <1>3, <2>4, <3>1
  <2>8. QED
    BY <2>5, <2>6, <2>7
<1>6. QED
  BY <1>4, <1>5

(* MaxTtl is that time to live, so that ages may be cut off beyond it.     *)
LEMMA MaxTtlBounds ==
  /\ MaxTtl \in Nat
  /\ Horizon \in Nat
  /\ \A v \in Version : Ttl[v] \in Nat /\ Ttl[v] <= MaxTtl
<1>1. \E n \in {Ttl[v] : v \in Version} : \A v \in Version : Ttl[v] <= n
  BY LongestTtl
<1>2. MaxTtl \in {Ttl[v] : v \in Version} /\ \A v \in Version : Ttl[v] <= MaxTtl
  BY <1>1 DEF MaxTtl
<1>3. \A v \in Version : Ttl[v] \in Nat
  BY RulesAssumption
<1>4. MaxTtl \in Nat
  BY <1>2, <1>3
<1> HIDE DEF MaxTtl
<1>5. Horizon \in Nat
  BY <1>4, RulesAssumption DEF Horizon
<1>6. QED
  BY <1>2, <1>3, <1>4, <1>5

-----------------------------------------------------------------------------
(* The inductive invariant.                                                *)

(* An answer on its way into the cache is a document that was current when *)
(* the server gave it; the server's current one has not been replaced.     *)
AnswerShape ==
    /\ \A v \in Version : v >= published => gone[v] = 0
    /\ \A f \in Fetchers : phase[f] = "store" =>
          got[f] \in Version /\ gone[got[f]] <= timer[f]

(* The cached document was current when it was fetched.                    *)
CacheShape ==
    cached # NoRules /\ updated < MaxTtl + MaxDelay => gone[cached] <= updated + MaxDelay

(* Only the loop keeps count.  While it has an outcome to count, the       *)
(* counter lacks that outcome.                                             *)
CountShape ==
    /\ \A f \in Fetchers : phase[f] = "account" => f = TheLoop
    /\ phase[TheLoop] = "account" =>
          failed[TheLoop] = IF got[TheLoop] # NoRules THEN 0 ELSE loopFailures + 1

CacheInv == TypeOK /\ AnswerShape /\ CacheShape /\ CountShape /\ LoopStreak

(* Facts about the constants that the steps use.                           *)
LEMMA RulesFacts ==
  /\ MaxDelay \in Nat /\ MaxFailures \in Nat /\ MaxVersion \in Nat /\ 1 \in Version
  /\ NoRules \notin Version /\ TheLoop \in Fetchers
  /\ \A v \in Version : v \in Nat
BY RulesAssumption DEF Version, NoRules

(* Nothing is cached at first.                                             *)
LEMMA InitCache == Init => CacheInv
<1> SUFFICES ASSUME Init PROVE CacheInv
  OBVIOUS
<1>1. TypeOK
  BY RulesFacts, MaxTtlBounds DEF Init, TypeOK
<1>2. AnswerShape /\ CountShape
  BY RulesFacts DEF Init, AnswerShape, CountShape
<1>3. CacheShape /\ LoopStreak
  BY RulesFacts DEF Init, CacheShape, LoopStreak
<1>4. QED
  BY <1>1, <1>2, <1>3 DEF CacheInv

(* What moving a caller on does to the callers.                            *)
LEMMA GotoEffect ==
  ASSUME TypeOK, NEW f \in Fetchers,
         NEW p \in {"idle", "check", "wire", "store", "account"},
         NEW v \in Version \cup {NoRules}, Goto(f, p, v)
  PROVE  /\ phase' \in [Fetchers -> {"idle", "check", "wire", "store", "account"}]
         /\ timer' \in [Fetchers -> 0..MaxDelay]
         /\ got' \in [Fetchers -> Version \cup {NoRules}]
         /\ phase'[f] = p /\ timer'[f] = 0 /\ got'[f] = v
         /\ \A g \in Fetchers \ {f} :
               phase'[g] = phase[g] /\ timer'[g] = timer[g] /\ got'[g] = got[g]
BY RulesFacts DEF Goto, TypeOK

(* A step of a caller that leaves the cache and the counters alone, and    *)
(* whose answer, if it has one to store, is current.                       *)
LEMMA CallerMoves ==
  ASSUME CacheInv, NEW f \in Fetchers,
         NEW p \in {"idle", "check", "wire", "store", "account"},
         NEW v \in Version \cup {NoRules}, Goto(f, p, v),
         UNCHANGED <<cacheVars, loopFailures, published, gone>>,
         p = "store" => v = published,
         \/ UNCHANGED failed /\ p \notin {"idle", "account"} /\ phase[f] # "account"
         \/ failed' = [failed EXCEPT ![f] = 0] /\ v # NoRules /\ p = Returned(f)
  PROVE  CacheInv'
<1>0. TypeOK
  BY DEF CacheInv
<1>1. TypeOK'
  <2>1. failed' \in [Fetchers -> 0..MaxFailures]
    BY <1>0, RulesFacts DEF TypeOK
  <2>2. QED
    BY <1>0, <2>1, GotoEffect DEF TypeOK
<1>2. AnswerShape'
  BY GotoEffect, RulesFacts DEF CacheInv, AnswerShape, TypeOK, Returned
<1>3. CountShape' /\ LoopStreak'
  <2>1. CASE f = TheLoop
    BY <1>0, <2>1, GotoEffect, RulesFacts DEF CacheInv, CountShape, LoopStreak, Returned, TypeOK
  <2>2. CASE f # TheLoop
    BY <1>0, <2>2, GotoEffect, RulesFacts DEF CacheInv, CountShape, LoopStreak, Returned, TypeOK
  <2>3. QED
    BY <2>1, <2>2
<1>4. CacheShape'
  BY DEF CacheInv, CacheShape
<1>5. QED
  BY <1>1, <1>2, <1>3, <1>4 DEF CacheInv

(* A failed fetch leaves a failure for the loop to count.                  *)
LEMMA FailKeeps ==
  ASSUME CacheInv, NEW f \in Fetchers, FetchFails(f)
  PROVE  CacheInv'
<1> DEFINE p == Returned(f)
<1>0. TypeOK /\ failed' = [failed EXCEPT ![f] = @ + 1] /\ failed[f] < MaxFailures
      /\ UNCHANGED <<cacheVars, loopFailures, published, gone>> /\ Goto(f, p, NoRules)
      /\ phase[f] = "wire"
  BY DEF FetchFails, CacheInv
<1>1. p \in {"idle", "check", "wire", "store", "account"} /\ p # "store"
      /\ p = IF f = TheLoop THEN "account" ELSE "idle"
  BY DEF Returned
<1> HIDE DEF p
<1>2. TypeOK'
  <2>1. failed' \in [Fetchers -> 0..MaxFailures]
    BY <1>0, RulesFacts DEF TypeOK
  <2>2. QED
    BY <1>0, <1>1, <2>1, GotoEffect DEF TypeOK
<1>3. AnswerShape'
  BY <1>0, <1>1, GotoEffect DEF CacheInv, AnswerShape
<1>4. failed'[f] = failed[f] + 1 /\ \A g \in Fetchers \ {f} : failed'[g] = failed[g]
  BY <1>0 DEF TypeOK
<1>5. CountShape' /\ LoopStreak'
  <2>1. CASE f = TheLoop
    BY <1>0, <1>1, <1>4, <2>1, GotoEffect, RulesFacts DEF CacheInv, CountShape, LoopStreak
  <2>2. CASE f # TheLoop
    BY <1>0, <1>1, <1>4, <2>2, GotoEffect, RulesFacts DEF CacheInv, CountShape, LoopStreak
  <2>3. QED
    BY <2>1, <2>2
<1>6. CacheShape'
  BY <1>0 DEF CacheInv, CacheShape
<1>7. QED
  BY <1>2, <1>3, <1>5, <1>6 DEF CacheInv

(* A stored answer is no older than the delay between answer and store.    *)
LEMMA StoreKeeps ==
  ASSUME CacheInv, NEW f \in Fetchers, Store(f)
  PROVE  CacheInv'
<1> DEFINE p == Returned(f)
<1>0. TypeOK /\ got[f] \in Version /\ gone[got[f]] <= timer[f]
      /\ cached' = got[f] /\ updated' = 0 /\ Goto(f, p, got[f])
      /\ failed' = [failed EXCEPT ![f] = 0] /\ UNCHANGED <<loopFailures, published, gone>>
  BY DEF Store, CacheInv, AnswerShape
<1>1. p \in {"idle", "check", "wire", "store", "account"} /\ p # "store"
      /\ p = IF f = TheLoop THEN "account" ELSE "idle"
  BY DEF Returned
<1> HIDE DEF p
<1>2. TypeOK'
  <2>1. updated' \in 0..(MaxTtl + MaxDelay)
    BY <1>0, RulesFacts, MaxTtlBounds
  <2>2. failed' \in [Fetchers -> 0..MaxFailures]
    BY <1>0, RulesFacts DEF TypeOK
  <2>3. QED
    BY <1>0, <1>1, <2>1, <2>2, GotoEffect DEF TypeOK
<1>3. AnswerShape'
  BY <1>0, <1>1, GotoEffect DEF CacheInv, AnswerShape
<1>4. failed'[f] = 0 /\ \A g \in Fetchers \ {f} : failed'[g] = failed[g]
  BY <1>0 DEF TypeOK
<1>5. CountShape' /\ LoopStreak'
  <2>1. CASE f = TheLoop
    BY <1>0, <1>1, <1>4, <2>1, GotoEffect, RulesFacts DEF CacheInv, CountShape, LoopStreak
  <2>2. CASE f # TheLoop
    BY <1>0, <1>1, <1>4, <2>2, GotoEffect, RulesFacts DEF CacheInv, CountShape, LoopStreak
  <2>3. QED
    BY <2>1, <2>2
<1>6. CacheShape'
  <2>1. timer[f] \in 0..MaxDelay /\ gone[got[f]] \in 0..Horizon
    BY <1>0 DEF TypeOK
  <2>2. gone[got[f]] <= 0 + MaxDelay
    BY <1>0, <2>1, RulesFacts, MaxTtlBounds
  <2>3. QED
    BY <1>0, <2>2 DEF CacheShape
<1>7. QED
  BY <1>2, <1>3, <1>5, <1>6 DEF CacheInv

(* The loop counts its last outcome.                                       *)
LEMMA AccountKeeps ==
  ASSUME CacheInv, NEW f \in Fetchers, AccountLoop(f)
  PROVE  CacheInv'
<1>0. TypeOK /\ f = TheLoop /\ phase[f] = "account" /\ got[f] \in Version \cup {NoRules}
      /\ Goto(f, "idle", got[f]) /\ UNCHANGED <<cacheVars, published, gone, failed>>
      /\ loopFailures' = IF got[f] # NoRules THEN 0 ELSE loopFailures + 1
  BY DEF AccountLoop, CacheInv, CountShape, TypeOK
<1>1. loopFailures' \in Nat /\ loopFailures' = failed[TheLoop]
  BY <1>0 DEF CacheInv, CountShape, TypeOK
<1>2. TypeOK'
  BY <1>0, <1>1, GotoEffect DEF TypeOK
<1>3. AnswerShape'
  BY <1>0, GotoEffect DEF CacheInv, AnswerShape
<1>4. CountShape' /\ LoopStreak'
  BY <1>0, <1>1, GotoEffect, RulesFacts DEF CacheInv, CountShape, LoopStreak
<1>5. CacheShape'
  BY <1>0 DEF CacheInv, CacheShape
<1>6. QED
  BY <1>2, <1>3, <1>4, <1>5 DEF CacheInv

(* Time makes the cached document and its entry age alike.                 *)
LEMMA TickKeeps ==
  ASSUME CacheInv, Tick
  PROVE  CacheInv'
<1> DEFINE limit == MaxTtl + MaxDelay
<1>0. TypeOK /\ MaxDelay \in Nat /\ limit \in Nat /\ Horizon \in Nat
      /\ UNCHANGED <<cached, loopFailures, phase, got, published, failed>>
  BY RulesFacts, MaxTtlBounds DEF Tick, CacheInv
<1>1. updated \in 0..limit /\ updated' = IF updated < limit THEN updated + 1 ELSE updated
  BY <1>0 DEF Tick, Older, TypeOK
<1> HIDE DEF limit
<1>2. updated' \in 0..limit /\ updated' >= updated /\ (updated' < limit => updated' = updated + 1)
  BY <1>0, <1>1
<1>3. \A f \in Fetchers :
         /\ timer[f] \in 0..MaxDelay /\ timer'[f] \in 0..MaxDelay
         /\ phase[f] = "store" => timer'[f] = timer[f] + 1
  BY <1>0 DEF Tick, TypeOK
<1>4. timer' \in [Fetchers -> 0..MaxDelay]
  <2>1. timer' = [f \in Fetchers |-> timer'[f]]
    BY DEF Tick
  <2>2. QED
    BY <1>3, <2>1
<1>5. \A v \in Version : /\ gone[v] \in 0..Horizon /\ gone'[v] \in 0..Horizon
                         /\ gone'[v] <= gone[v] + 1
                         /\ v >= published => gone'[v] = 0
  <2> SUFFICES ASSUME NEW v \in Version
               PROVE  /\ gone[v] \in 0..Horizon /\ gone'[v] \in 0..Horizon
                      /\ gone'[v] <= gone[v] + 1
                      /\ v >= published => gone'[v] = 0
    OBVIOUS
  <2>1. gone[v] \in 0..Horizon /\ v \in Nat /\ published \in Nat
    BY <1>0, RulesFacts DEF TypeOK
  <2>2. gone'[v] = IF v < published
                   THEN (IF gone[v] < Horizon THEN gone[v] + 1 ELSE gone[v]) ELSE 0
    BY DEF Tick, Older
  <2>3. QED
    BY <1>0, <2>1, <2>2
<1>6. gone' \in [Version -> 0..Horizon]
  <2>1. gone' = [v \in Version |-> gone'[v]]
    BY DEF Tick
  <2>2. QED
    BY <1>5, <2>1
<1>7. TypeOK'
  BY <1>0, <1>2, <1>4, <1>6 DEF TypeOK, limit
<1>8. AnswerShape'
  <2>1. ASSUME NEW f \in Fetchers, phase[f] = "store"
        PROVE  got[f] \in Version /\ gone'[got[f]] <= timer'[f]
    <3>1. got[f] \in Version /\ gone[got[f]] <= timer[f]
      BY <2>1 DEF CacheInv, AnswerShape
    <3>2. gone'[got[f]] <= gone[got[f]] + 1 /\ timer'[f] = timer[f] + 1
          /\ gone[got[f]] \in Nat /\ gone'[got[f]] \in Nat /\ timer[f] \in Nat
      BY <1>0, <1>3, <1>5, <2>1, <3>1
    <3>3. QED
      BY <3>1, <3>2
  <2>2. QED
    BY <1>0, <1>5, <2>1 DEF AnswerShape
<1>9. CacheShape'
  <2> SUFFICES ASSUME cached # NoRules, updated' < limit
               PROVE  gone'[cached] <= updated' + MaxDelay
    BY <1>0 DEF CacheShape, limit
  <2>1. cached \in Version /\ updated < limit /\ updated \in Nat /\ updated' = updated + 1
    BY <1>0, <1>1, <1>2 DEF TypeOK
  <2>2. gone[cached] <= updated + MaxDelay
    BY <2>1 DEF CacheInv, CacheShape, limit
  <2>3. gone[cached] \in Nat /\ gone'[cached] \in Nat /\ gone'[cached] <= gone[cached] + 1
    BY <1>0, <1>5, <2>1
  <2>4. QED
    BY <1>0, <2>1, <2>2, <2>3
<1>10. CountShape' /\ LoopStreak'
  BY <1>0 DEF CacheInv, CountShape, LoopStreak
<1>11. QED
  BY <1>7, <1>8, <1>9, <1>10 DEF CacheInv

(* A new document replaces the current one from now on.                    *)
LEMMA PublishKeeps ==
  ASSUME CacheInv, Publish
  PROVE  CacheInv'
<1>0. TypeOK /\ published' = published + 1 /\ published < MaxVersion
      /\ UNCHANGED <<cacheVars, loopFailures, callVars, gone, failed>>
  BY DEF Publish, CacheInv
<1>1. published \in Nat /\ published' \in Version
  BY <1>0, RulesFacts DEF TypeOK, Version
<1>2. \A v \in Version : v >= published' => v >= published
  BY <1>0, <1>1, RulesFacts
<1>3. TypeOK' /\ AnswerShape'
  BY <1>0, <1>1, <1>2 DEF TypeOK, CacheInv, AnswerShape
<1>4. CacheShape' /\ CountShape' /\ LoopStreak'
  BY <1>0 DEF CacheInv, CacheShape, CountShape, LoopStreak
<1>5. QED
  BY <1>3, <1>4 DEF CacheInv

(* Every step keeps the invariant.                                         *)
LEMMA StepCache == CacheInv /\ [Next]_vars => CacheInv'
<1> SUFFICES ASSUME CacheInv, [Next]_vars PROVE CacheInv'
  OBVIOUS
<1>0. TypeOK
  BY DEF CacheInv
<1>1. ASSUME NEW f \in Fetchers, Call(f) PROVE CacheInv'
  BY <1>1, CallerMoves DEF Call
<1>2. ASSUME NEW f \in Fetchers, ServeCached(f) PROVE CacheInv'
  <2>1. cached \in Version
    BY <1>0, <1>2 DEF ServeCached, IsFresh, TypeOK
  <2>2. QED
    BY <1>2, <2>1, RulesFacts, CallerMoves DEF ServeCached, Returned
<1>3. ASSUME NEW f \in Fetchers, Request(f) PROVE CacheInv'
  BY <1>3, CallerMoves DEF Request
<1>4. ASSUME NEW f \in Fetchers, Answer(f) PROVE CacheInv'
  <2>1. published \in Version
    BY <1>0 DEF TypeOK
  <2>2. QED
    BY <1>4, <2>1, CallerMoves DEF Answer
<1>5. CASE UNCHANGED vars
  BY <1>5 DEF CacheInv, TypeOK, AnswerShape, CacheShape, CountShape, LoopStreak
<1>6. QED
  BY <1>1, <1>2, <1>3, <1>4, <1>5, FailKeeps, StoreKeeps, AccountKeeps, TickKeeps,
     PublishKeeps DEF Next, Step

(* The cache, its clocks and its callers are well typed; in particular the *)
(* delays stay within their bound.                                         *)
THEOREM CacheTypes == Spec => []TypeOK
<1>1. CacheInv => TypeOK
  BY DEF CacheInv
<1>2. QED
  BY <1>1, InitCache, StepCache, PTL DEF Spec

(* rules_loop's failure counter is exactly the number of its latest        *)
(* iterations in a row that got no rules, however the other callers'       *)
(* fetches interleave with them.                                           *)
THEOREM LoopCountsItsStreak == Spec => []LoopStreak
<1>1. CacheInv => LoopStreak
  BY DEF CacheInv
<1>2. QED
  BY <1>1, InitCache, StepCache, PTL DEF Spec

(* A cached document is served only while it was the server's current one  *)
(* less than its ttl and the two delays ago.                               *)
LEMMA ServesFresh ==
  ASSUME CacheInv, NEW f \in Fetchers, ServeCached(f)
  PROVE  gone[cached] < Ttl[cached] + 2 * MaxDelay
<1>0. TypeOK /\ MaxDelay \in Nat /\ MaxTtl \in Nat
  BY RulesFacts, MaxTtlBounds DEF CacheInv
<1>1. cached \in Version /\ cached # NoRules /\ updated \in Nat /\ timer[f] \in 0..MaxDelay
      /\ gone[cached] \in 0..Horizon
  BY <1>0, RulesFacts, MaxTtlBounds DEF ServeCached, IsFresh, TypeOK
<1>2. Ttl[cached] \in Nat /\ Ttl[cached] <= MaxTtl
  BY <1>1, MaxTtlBounds
<1>3. (IF updated > timer[f] THEN updated - timer[f] ELSE 0) < Ttl[cached]
  BY DEF ServeCached, IsFresh
<1>4. updated < Ttl[cached] + MaxDelay
  BY <1>0, <1>1, <1>2, <1>3
<1>5. updated < MaxTtl + MaxDelay
  BY <1>0, <1>1, <1>2, <1>4
<1>6. gone[cached] <= updated + MaxDelay
  BY <1>1, <1>5 DEF CacheInv, CacheShape
<1>7. gone[cached] \in Nat
  BY <1>1, MaxTtlBounds
<1>8. QED
  BY <1>0, <1>1, <1>2, <1>4, <1>6, <1>7

(* Whatever refreshes overlap, fail or arrive late, a caller that is       *)
(* served from the cache gets a document that was the server's current one *)
(* no longer ago than its ttl and the two delays.                          *)
THEOREM ServedFreshEnough == Spec => FreshEnough
<1>1. CacheInv /\ [Next]_vars =>
         [\A f \in Fetchers : ServeCached(f) =>
             gone[cached] < Ttl[cached] + 2 * MaxDelay]_vars
  BY ServesFresh
<1> HIDE DEF vars
<1>2. QED
  BY <1>1, InitCache, StepCache, PTL DEF Spec, FreshEnough
=============================================================================
