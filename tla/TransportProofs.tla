--------------------------- MODULE TransportProofs ---------------------------
(***************************************************************************)
(* Proofs about the transport for any number of tasks and any limits: the  *)
(* circuit breaker and the rate limiter its retry loops share, the items   *)
(* of a batch through retries and halving, and the contract with callers.  *)
(***************************************************************************)
EXTENDS TransportSend, SequenceTheorems, FiniteSetTheorems, WellFoundedInduction, TLAPS

USE DEF vars, breakerVars, loopVars, fateVars, pastVars

(* Every nonempty set of naturals has a least element.                     *)
LEMMA LeastNat ==
  ASSUME NEW T \in SUBSET Nat, T # {}
  PROVE  \E x \in T : \A y \in T : x <= y
<1>1. IsWellFoundedOn(OpToRel(<, Nat), Nat)
  BY NatLessThanWellFounded, Zenon
<1>2. PICK x \in T : \A y \in T : ~(<<y, x>> \in OpToRel(<, Nat))
  BY <1>1, WFMin, Zenon
<1>3. \A y \in T : ~(y < x)
  BY <1>2 DEF OpToRel
<1>4. QED
  BY <1>3

-----------------------------------------------------------------------------
(* The circuit breaker.                                                    *)

(* The breaker together with the history it is compared with.              *)
watchedVars == <<breakerVars, streak, quiet>>

(* Leaving the breaker and its history alone keeps the invariant.          *)
LEMMA WatchedUnchanged ==
  ASSUME BreakerInv, UNCHANGED watchedVars, probes' \in SUBSET Tasks
  PROVE  BreakerInv'
BY DEF BreakerInv, BreakerType, BreakerConsistent, BreakerState, Admits, Closed, watchedVars

(* A successful answer closes the circuit and ends the streak.             *)
LEMMA SuccessKeeps ==
  ASSUME BreakerInv, Success, probes' \in SUBSET Tasks
  PROVE  BreakerInv'
<1>1. failures' = 0 /\ age' = 0 /\ streak' = 0 /\ quiet' = 0
  BY DEF Success, RecordSuccess
<1>2. ~opened' /\ ~halfOpen' /\ opened' \in BOOLEAN /\ halfOpen' \in BOOLEAN
  BY Zenon DEF Success, RecordSuccess
<1>3. BreakerType'
  BY <1>1, <1>2, BreakerAssumption DEF BreakerType
<1>4. ~(failures' >= Threshold) /\ ~(streak' >= Threshold)
  BY <1>1, BreakerAssumption
<1>5. BreakerConsistent'
  BY <1>2, <1>4 DEF BreakerConsistent, BreakerState, Admits, Closed
<1>6. QED
  BY <1>1, <1>2, <1>3, <1>4, <1>5 DEF BreakerInv

(* A failed answer, of a probe or of a request admitted before the circuit *)
(* opened, leaves the window beginning with it once the streak is long     *)
(* enough.                                                                 *)
LEMMA FailureKeeps ==
  ASSUME BreakerInv, Failure, probes' \in SUBSET Tasks
  PROVE  BreakerInv'
<1>0. /\ BreakerType /\ BreakerConsistent
      /\ opened <=> streak >= Threshold
      /\ opened => age = quiet
      /\ ~opened => failures = streak
  BY DEF BreakerInv
<1>q. /\ quiet' = 0
      /\ streak' = IF streak < Threshold THEN streak + 1 ELSE streak
      /\ streak' \in 0..Threshold
  BY <1>0, BreakerAssumption DEF Failure, BreakerType
<1>1. ~halfOpen' /\ halfOpen' \in BOOLEAN
  <2>1. CASE halfOpen
    BY <2>1, Zenon DEF Failure, RecordFailure
  <2>2. CASE ~halfOpen
    <3>1. halfOpen' = halfOpen
      BY <2>2 DEF Failure, RecordFailure
    <3>2. QED
      BY <1>0, <2>2, <3>1, Zenon DEF BreakerType
  <2>3. QED
    BY <2>1, <2>2
<1>2. failures' \in 0..MaxFailures /\ (opened' <=> failures' >= Threshold)
      /\ opened' \in BOOLEAN /\ age' \in 0..Recovery /\ (opened' => age' = 0)
  <2>1. CASE halfOpen
    <3>1. failures' = failures /\ age' = 0 /\ opened /\ failures >= Threshold
      BY <1>0, <2>1 DEF Failure, RecordFailure, BreakerConsistent
    <3>2. opened' /\ opened' \in BOOLEAN
      BY <2>1, Zenon DEF Failure, RecordFailure
    <3>3. QED
      BY <1>0, <3>1, <3>2, BreakerAssumption DEF BreakerType
  <2>2. CASE ~halfOpen
    <3>1. /\ failures' = IF failures < MaxFailures THEN failures + 1 ELSE failures
          /\ age' = IF failures' >= Threshold THEN 0 ELSE age
      BY <2>2 DEF Failure, RecordFailure
    <3>2. opened' \in BOOLEAN /\ (opened' <=> (opened \/ failures' >= Threshold))
      BY <2>2, Zenon DEF Failure, RecordFailure
    <3>3. failures' \in 0..MaxFailures /\ age' \in 0..Recovery
      BY <1>0, <3>1, BreakerAssumption DEF BreakerType
    <3>4. failures >= Threshold => failures' >= Threshold
      BY <1>0, <3>1, BreakerAssumption DEF BreakerType
    <3>5. opened' <=> failures' >= Threshold
      BY <1>0, <3>2, <3>4 DEF BreakerConsistent
    <3>6. QED
      BY <3>1, <3>2, <3>3, <3>5
  <2>3. QED
    BY <2>1, <2>2
<1>3. (opened' <=> streak' >= Threshold) /\ (~opened' => failures' = streak')
  <2>1. CASE opened
    <3>1. streak' >= Threshold
      BY <1>0, <1>q, <2>1, BreakerAssumption DEF BreakerType
    <3>2. opened'
      BY <2>1, Zenon DEF Failure, RecordFailure
    <3>3. QED
      BY <3>1, <3>2
  <2>2. CASE ~opened
    <3>1. ~halfOpen /\ failures = streak /\ failures < Threshold
      BY <1>0, <2>2, BreakerAssumption DEF BreakerConsistent, BreakerType
    <3>2. failures' = failures + 1 /\ streak' = streak + 1
      BY <1>0, <1>q, <3>1, BreakerAssumption DEF Failure, RecordFailure, BreakerType
    <3>3. QED
      BY <1>2, <3>1, <3>2
  <2>3. QED
    BY <2>1, <2>2
<1>4. BreakerType'
  BY <1>1, <1>2, <1>q, BreakerAssumption DEF BreakerType
<1>5. BreakerConsistent'
  BY <1>1, <1>2 DEF BreakerConsistent, BreakerState, Admits, Closed
<1>6. QED
  BY <1>1, <1>2, <1>3, <1>4, <1>5, <1>q DEF BreakerInv

(* Time moves the breaker's window and the history's alike.                *)
LEMMA TickKeeps ==
  ASSUME BreakerInv, Tick
  PROVE  BreakerInv'
BY BreakerAssumption
   DEF BreakerInv, BreakerType, BreakerConsistent, BreakerState, Admits, Closed, Tick, BreakerTick

(* Admission past the window is what makes the circuit half-open.          *)
LEMMA AdmitKeeps ==
  ASSUME BreakerInv, NEW t \in Tasks, Admit(t)
  PROVE  BreakerInv'
BY BreakerAssumption
   DEF BreakerInv, BreakerType, BreakerConsistent, BreakerState, Admits, Closed, Admit, BreakerAdmit

(* Every step of the transport keeps the breaker's invariant.              *)
LEMMA StepKeeps == BreakerInv /\ [Next]_vars => BreakerInv'
<1> SUFFICES ASSUME BreakerInv, [Next]_vars PROVE BreakerInv'
  OBVIOUS
<1>0. probes \in SUBSET Tasks
  BY DEF BreakerInv, BreakerType
<1>1. CASE UNCHANGED vars
  BY <1>0, <1>1, WatchedUnchanged DEF watchedVars
<1>2. CASE Tick
  BY <1>2, TickKeeps
<1>3. ASSUME NEW t \in Tasks,
             \/ Call(t) \/ LoopExits(t) \/ Acquire(t) \/ Blocked(t)
             \/ SleepRetryAfter(t) \/ Refuse(t) \/ Wake(t)
      PROVE  BreakerInv'
  <2>1. UNCHANGED watchedVars /\ UNCHANGED probes
    BY <1>3 DEF watchedVars, Call, LoopExits, Acquire, Blocked, SleepRetryAfter, Refuse, Wake
  <2>2. QED
    BY <1>0, <2>1, WatchedUnchanged
<1>4. ASSUME NEW t \in Tasks, Admit(t) PROVE BreakerInv'
  BY <1>4, AdmitKeeps
<1>5. ASSUME NEW t \in Tasks, Permanent(t) \/ TooLarge(t) PROVE BreakerInv'
  <2>1. UNCHANGED watchedVars /\ probes' \in SUBSET Tasks
    BY <1>0, <1>5 DEF watchedVars, Permanent, TooLarge, Answered
  <2>2. QED
    BY <2>1, WatchedUnchanged
<1>6. ASSUME NEW t \in Tasks,
             Accepted(t) \/ PartialFailure(t) \/ GetObject(t) \/ GetOther(t)
      PROVE  BreakerInv'
  <2>1. Success /\ probes' \in SUBSET Tasks
    BY <1>0, <1>6 DEF Accepted, PartialFailure, GetObject, GetOther, Answered
  <2>2. QED
    BY <2>1, SuccessKeeps
<1>7. ASSUME NEW t \in Tasks, RateLimited(t) \/ Retryable(t) PROVE BreakerInv'
  <2>1. Failure /\ probes' \in SUBSET Tasks
    BY <1>0, <1>7 DEF RateLimited, Retryable, Answered
  <2>2. QED
    BY <2>1, FailureKeeps
<1>8. QED
  BY <1>1, <1>2, <1>3, <1>4, <1>5, <1>6, <1>7 DEF Next, Step, Answer

(* A new transport has a closed breaker and no streak.                     *)
LEMMA InitKeeps == Init => BreakerInv
<1> SUFFICES ASSUME Init PROVE BreakerInv
  OBVIOUS
<1>1. failures = 0 /\ age = 0 /\ streak = 0 /\ quiet = 0 /\ probes = {}
  BY DEF Init, BreakerInit
<1>2. ~opened /\ ~halfOpen /\ opened \in BOOLEAN /\ halfOpen \in BOOLEAN
  BY Zenon DEF Init, BreakerInit
<1>3. BreakerType
  BY <1>1, <1>2, BreakerAssumption DEF BreakerType
<1>4. ~(failures >= Threshold) /\ ~(streak >= Threshold)
  BY <1>1, BreakerAssumption
<1>5. BreakerConsistent
  BY <1>2, <1>4 DEF BreakerConsistent, BreakerState, Admits, Closed
<1>6. QED
  BY <1>1, <1>2, <1>3, <1>4, <1>5 DEF BreakerInv

(* Every task is always at one of the places of its loop.                  *)
TpcType == tpc \in [Tasks -> Place]

(* Each step moves only the task that takes it, to a place of the loop.    *)
LEMMA StepMoves ==
  ASSUME NEW t \in Tasks, Call(t) \/ Step(t)
  PROVE  \E place \in Place : tpc' = [tpc EXCEPT ![t] = place]
<1>1. \A x : Sleep(t, x) \/ Finish(t, x) \/ SendNext(t, x)
               \/ Confirmed(t, x) \/ Failing(t, x)
         => \E place \in Place : tpc' = [tpc EXCEPT ![t] = place]
  BY DEF Sleep, Finish, SendNext, Confirmed, Failing, Place
<1>2. ASSUME Call(t) \/ LoopExits(t) \/ SleepRetryAfter(t) \/ Refuse(t)
      PROVE  \E place \in Place : tpc' = [tpc EXCEPT ![t] = place]
  BY <1>1, <1>2 DEF Call, LoopExits, SleepRetryAfter, Refuse
<1>3. ASSUME Acquire(t) \/ Blocked(t) \/ Admit(t) \/ Wake(t)
      PROVE  \E place \in Place : tpc' = [tpc EXCEPT ![t] = place]
  BY <1>3 DEF Acquire, Blocked, Admit, Wake, Goto, Place
<1>4. ASSUME Accepted(t) \/ PartialFailure(t) \/ Permanent(t) \/ TooLarge(t)
      PROVE  \E place \in Place : tpc' = [tpc EXCEPT ![t] = place]
  BY <1>1, <1>4 DEF Accepted, PartialFailure, Permanent, TooLarge
<1>5. ASSUME RateLimited(t) \/ Retryable(t) \/ GetObject(t)
      PROVE  \E place \in Place : tpc' = [tpc EXCEPT ![t] = place]
  BY <1>1, <1>5 DEF RateLimited, Retryable, GetObject
<1>6. ASSUME GetOther(t)
      PROVE  \E place \in Place : tpc' = [tpc EXCEPT ![t] = place]
  BY <1>6 DEF GetOther, Place
<1>7. QED
  BY <1>2, <1>3, <1>4, <1>5, <1>6 DEF Step, Answer

(* The places of the loops are closed under every step.                    *)
LEMMA StepTpcType == TpcType /\ [Next]_vars => TpcType'
<1>1. CASE UNCHANGED vars \/ Tick
  BY <1>1 DEF TpcType, Tick
<1>2. ASSUME TpcType, NEW t \in Tasks, Call(t) \/ Step(t) PROVE TpcType'
  BY <1>2, StepMoves DEF TpcType
<1>3. QED
  BY <1>1, <1>2 DEF Next

(* Only an admission by the breaker puts a request on the wire.            *)
LEMMA WireAdmitted ==
  ASSUME TpcType, Next, NEW t \in Tasks, tpc[t] = "admit", tpc'[t] = "wire"
  PROVE  Admits
<1>1. ~Tick
  BY DEF Tick
<1>2. PICK u \in Tasks : Call(u) \/ Step(u)
  BY <1>1 DEF Next
<1>3. u = t
  BY <1>2, StepMoves DEF TpcType
<1>4. ~Call(t) /\ ~LoopExits(t) /\ ~Acquire(t) /\ ~Blocked(t) /\ ~SleepRetryAfter(t) /\ ~Wake(t)
  BY DEF Call, LoopExits, Acquire, Blocked, SleepRetryAfter, Wake
<1>5. ~Answer(t)
  BY DEF Answer, Accepted, PartialFailure, Permanent, TooLarge, RateLimited, Retryable,
         GetObject, GetOther, Answered
<1>6. ~Refuse(t)
  BY DEF Refuse, Failing, Finish, Sleep, TpcType
<1>7. QED
  BY <1>2, <1>3, <1>4, <1>5, <1>6 DEF Step, Admit, BreakerAdmit

(* The breaker's fields never disagree, and state() reports OPEN exactly   *)
(* when admit() refuses, whatever late answers of whichever tasks arrive.  *)
THEOREM BreakerStaysConsistent == Spec => []BreakerConsistent
<1>1. BreakerInv => BreakerConsistent
  BY DEF BreakerInv
<1>2. QED
  BY <1>1, InitKeeps, StepKeeps, PTL DEF Spec

(* After Threshold failed answers in a row, over all tasks, no request is  *)
(* put on the wire until Recovery ticks have passed since the last one.    *)
THEOREM FailuresSilenceTransport == Spec => QuietAfterFailures
<1>1. BreakerInv /\ TpcType /\ [Next]_vars =>
         [\A t \in Tasks : tpc[t] = "admit" /\ tpc'[t] = "wire"
                              => streak < Threshold \/ quiet >= Recovery]_vars
  <2> SUFFICES ASSUME BreakerInv, TpcType, Next, NEW t \in Tasks,
                      tpc[t] = "admit", tpc'[t] = "wire"
               PROVE  streak < Threshold \/ quiet >= Recovery
    OBVIOUS
  <2>1. Admits
    BY WireAdmitted
  <2>2. CASE Closed
    BY <2>2, BreakerAssumption DEF BreakerInv, BreakerType, Closed
  <2>3. CASE ~Closed
    BY <2>1, <2>3, BreakerAssumption DEF BreakerInv, BreakerType, Closed, Admits
  <2>4. QED
    BY <2>2, <2>3
<1>2. Init => TpcType
  BY DEF Init, TpcType, Place
<1>3. QED
  BY <1>1, <1>2, InitKeeps, StepKeeps, StepTpcType, PTL DEF Spec, QuietAfterFailures

-----------------------------------------------------------------------------
(* The rate limiter.                                                       *)

(* Ages are listed from the oldest call to the newest.                     *)
Aged(ages) ==
    /\ ages \in Seq(0..Window)
    /\ \A i, j \in DOMAIN ages : i <= j => ages[i] >= ages[j]

(* In such a list the calls that left the window are the first ones.       *)
LEMMA ExpiredFirst ==
  ASSUME NEW ages, Aged(ages)
  PROVE  /\ Expired(ages) \in 0..Len(ages)
         /\ \A i \in DOMAIN ages : InWindow(ages[i]) <=> i > Expired(ages)
<1> DEFINE Cut(n) == \A i \in DOMAIN ages : InWindow(ages[i]) <=> i > n
           Fresh == {i \in DOMAIN ages : InWindow(ages[i])}
<1>0. Len(ages) \in Nat /\ DOMAIN ages = 1..Len(ages)
  BY DEF Aged
<1>1. \E n \in 0..Len(ages) : Cut(n)
  <2>1. CASE Fresh = {}
    BY <1>0, <2>1
  <2>2. CASE Fresh # {}
    <3>1. Fresh \in SUBSET Nat
      BY <1>0
    <3>2. PICK x \in Fresh : \A y \in Fresh : x <= y
      BY <2>2, <3>1, LeastNat
    <3>3. \A i \in DOMAIN ages : ages[i] \in 0..Window
      BY <1>0, ElementOfSeq DEF Aged
    <3>4. Cut(x - 1)
      BY <1>0, <3>2, <3>3, LimiterAssumption DEF Aged, InWindow
    <3>5. x - 1 \in 0..Len(ages)
      BY <1>0, <3>2
    <3>6. QED
      BY <3>4, <3>5
  <2>3. QED
    BY <2>1, <2>2
<1>2. QED
  BY <1>1 DEF Expired

(* The place where the recent calls begin determines them.                 *)
LEMMA RecentFrom ==
  ASSUME NEW ages, Aged(ages), NEW n \in 0..Len(ages),
         \A i \in DOMAIN ages : InWindow(ages[i]) <=> i > n
  PROVE  Expired(ages) = n
<1>1. /\ Expired(ages) \in 0..Len(ages)
      /\ \A i \in DOMAIN ages : InWindow(ages[i]) <=> i > Expired(ages)
  BY ExpiredFirst
<1>2. Len(ages) \in Nat /\ DOMAIN ages = 1..Len(ages)
  BY DEF Aged
<1>3. ~(Expired(ages) < n)
  BY <1>1, <1>2
<1>4. ~(n < Expired(ages))
  BY <1>1, <1>2
<1>5. QED
  BY <1>1, <1>2, <1>3, <1>4

(* What retain() keeps: the ages below the window, in their order.         *)
LEMMA RecentAged ==
  ASSUME NEW ages, Aged(ages)
  PROVE  /\ Aged(Recent(ages))
         /\ Len(Recent(ages)) = Len(ages) - Expired(ages)
         /\ \A i \in 1..Len(Recent(ages)) : /\ Recent(ages)[i] = ages[Expired(ages) + i]
                                            /\ InWindow(Recent(ages)[i])
<1> DEFINE n == Expired(ages)
<1>1. n \in 0..Len(ages) /\ \A i \in DOMAIN ages : InWindow(ages[i]) <=> i > n
  BY ExpiredFirst
<1>2. /\ Len(ages) \in Nat /\ DOMAIN ages = 1..Len(ages)
      /\ \A i \in 1..Len(ages) : ages[i] \in 0..Window
      /\ \A i, j \in 1..Len(ages) : i <= j => ages[i] >= ages[j]
  BY LenProperties, ElementOfSeq DEF Aged
<1>3. /\ Recent(ages) \in Seq(0..Window)
      /\ Len(Recent(ages)) = Len(ages) - n
      /\ \A i \in 1..Len(Recent(ages)) : Recent(ages)[i] = ages[n + i]
  <2> HIDE DEF n
  <2>1. \A i \in (n + 1)..Len(ages) : ages[i] \in 0..Window
    BY <1>1, <1>2
  <2>2. Recent(ages) = SubSeq(ages, n + 1, Len(ages))
    BY DEF Recent, n
  <2>3. /\ Recent(ages) \in Seq(0..Window)
        /\ Len(Recent(ages)) = IF n + 1 <= Len(ages) THEN Len(ages) - (n + 1) + 1 ELSE 0
        /\ \A i \in 1..(Len(ages) - (n + 1) + 1) : Recent(ages)[i] = ages[n + 1 + i - 1]
    BY <1>1, <1>2, <2>1, <2>2, SubSeqProperties
  <2>4. Len(Recent(ages)) = Len(ages) - n
    <3>0. n \in 0..Len(ages) /\ Len(ages) \in Nat
      BY <1>1, <1>2
    <3>1. CASE n + 1 <= Len(ages)
      BY <1>1, <1>2, <2>3, <3>1
    <3>2. CASE n = Len(ages)
      BY <1>1, <1>2, <2>3, <3>2
    <3>3. QED
      BY <3>0, <3>1, <3>2
  <2>5. \A i \in 1..(Len(ages) - n) : n + 1 + i - 1 = n + i
    BY <1>1, <1>2
  <2>6. Len(ages) - (n + 1) + 1 = Len(ages) - n
    BY <1>1, <1>2
  <2>7. QED
    BY <2>3, <2>4, <2>5, <2>6
<1> HIDE DEF n
<1>4. DOMAIN Recent(ages) = 1..Len(Recent(ages))
  BY <1>3
<1>5. \A i \in 1..Len(Recent(ages)) : n + i \in 1..Len(ages) /\ n + i > n
  BY <1>1, <1>2, <1>3
<1>6. \A i, j \in DOMAIN Recent(ages) : i <= j => Recent(ages)[i] >= Recent(ages)[j]
  <2> SUFFICES ASSUME NEW i \in 1..Len(Recent(ages)), NEW j \in 1..Len(Recent(ages)), i <= j
               PROVE  Recent(ages)[i] >= Recent(ages)[j]
    BY <1>4
  <2>1. n + i \in 1..Len(ages) /\ n + j \in 1..Len(ages)
    BY <1>5
  <2>2. n + i <= n + j
    BY <1>1
  <2>3. ages[n + i] >= ages[n + j]
    BY <1>2, <2>1, <2>2
  <2>4. QED
    BY <1>3, <2>3
<1>7. \A i \in 1..Len(Recent(ages)) : InWindow(Recent(ages)[i])
  BY <1>1, <1>2, <1>3, <1>5
<1>8. QED
  BY <1>3, <1>6, <1>7 DEF Aged, n

(* Purging twice at one instant is purging once.                           *)
LEMMA AllRecent ==
  ASSUME NEW ages, Aged(ages), \A i \in DOMAIN ages : InWindow(ages[i])
  PROVE  Recent(ages) = ages
<1>1. Len(ages) \in Nat /\ DOMAIN ages = 1..Len(ages) /\ ages \in Seq(0..Window)
  BY DEF Aged
<1>2. Expired(ages) = 0
  BY <1>1, RecentFrom
<1>3. QED
  BY <1>1, <1>2, SubSeqFull DEF Recent

(* One tick later.                                                         *)
Later(ages) == [i \in DOMAIN ages |-> Age(ages[i])]

(* A tick keeps the order of the ages.                                     *)
LEMMA LaterAged ==
  ASSUME NEW ages, Aged(ages)
  PROVE  /\ Aged(Later(ages))
         /\ Len(Later(ages)) = Len(ages)
         /\ \A i \in 1..Len(ages) : Later(ages)[i] = Age(ages[i])
<1>1. /\ Len(ages) \in Nat /\ DOMAIN ages = 1..Len(ages)
      /\ \A i \in 1..Len(ages) : ages[i] \in 0..Window
      /\ \A i, j \in 1..Len(ages) : i <= j => ages[i] >= ages[j]
  BY LenProperties, ElementOfSeq DEF Aged
<1>2. \A i \in 1..Len(ages) : Age(ages[i]) \in 0..Window
  BY <1>1, LimiterAssumption DEF Age
<1>3. /\ Later(ages) \in Seq(0..Window)
      /\ DOMAIN Later(ages) = 1..Len(ages)
      /\ Len(Later(ages)) = Len(ages)
  BY <1>1, <1>2 DEF Later
<1>4. \A i \in 1..Len(ages) : Later(ages)[i] = Age(ages[i])
  BY <1>1 DEF Later
<1>5. \A i, j \in 1..Len(ages) : i <= j => Age(ages[i]) >= Age(ages[j])
  BY <1>1, LimiterAssumption DEF Age
<1>6. QED
  BY <1>3, <1>4, <1>5 DEF Aged

(* A call that left the window does not come back: it makes no difference  *)
(* whether calls are purged before a tick or only after it.                *)
LEMMA RecentLater ==
  ASSUME NEW ages, Aged(ages)
  PROVE  Recent(Later(Recent(ages))) = Recent(Later(ages))
<1> DEFINE n == Expired(ages)
           m == Expired(Later(Recent(ages)))
<1>1. /\ Aged(Recent(ages)) /\ Len(Recent(ages)) = Len(ages) - n
      /\ \A i \in 1..Len(Recent(ages)) : Recent(ages)[i] = ages[n + i]
  BY RecentAged
<1>2. /\ Aged(Later(ages)) /\ Len(Later(ages)) = Len(ages)
      /\ \A i \in 1..Len(ages) : Later(ages)[i] = Age(ages[i])
  BY LaterAged
<1>3. /\ Aged(Later(Recent(ages))) /\ Len(Later(Recent(ages))) = Len(ages) - n
      /\ \A i \in 1..(Len(ages) - n) : Later(Recent(ages))[i] = Age(ages[n + i])
  BY <1>1, LaterAged
<1>4. /\ n \in 0..Len(ages) /\ Len(ages) \in Nat
      /\ \A i \in 1..Len(ages) : InWindow(ages[i]) <=> i > n
  BY ExpiredFirst, LenProperties DEF Aged
<1>5. /\ m \in 0..(Len(ages) - n)
      /\ \A i \in 1..(Len(ages) - n) : InWindow(Later(Recent(ages))[i]) <=> i > m
  BY <1>3, ExpiredFirst, LenProperties DEF Aged
<1> HIDE DEF n, m
<1>6. DOMAIN Later(ages) = 1..Len(ages)
  BY <1>2, LenProperties DEF Aged
<1>7. ASSUME NEW i \in 1..Len(ages)
      PROVE  InWindow(Later(ages)[i]) <=> i > n + m
  <2>1. CASE i <= n
    <3>1. ~InWindow(ages[i])
      BY <1>4, <2>1
    <3>2. ~InWindow(Age(ages[i]))
      BY <3>1, LimiterAssumption DEF Age, InWindow
    <3>3. QED
      BY <1>2, <1>4, <1>5, <2>1, <3>2
  <2>2. CASE i > n
    <3>1. i - n \in 1..(Len(ages) - n) /\ n + (i - n) = i
      BY <1>4, <2>2
    <3>2. Later(Recent(ages))[i - n] = Later(ages)[i]
      BY <1>2, <1>3, <3>1
    <3>3. InWindow(Later(ages)[i]) <=> i - n > m
      BY <1>5, <3>1, <3>2
    <3>4. QED
      BY <1>4, <1>5, <3>3
  <2>3. QED
    BY <1>4, <2>1, <2>2
<1>8. Expired(Later(ages)) = n + m
  <2>1. n + m \in 0..Len(Later(ages))
    BY <1>2, <1>4, <1>5
  <2>2. QED
    BY <1>2, <1>6, <1>7, <2>1, RecentFrom
<1>9. /\ Len(Recent(Later(ages))) = Len(ages) - (n + m)
      /\ \A i \in 1..(Len(ages) - (n + m)) : Recent(Later(ages))[i] = Later(ages)[n + m + i]
      /\ Recent(Later(ages)) \in Seq(0..Window)
  BY <1>2, <1>8, RecentAged DEF Aged
<1>10. /\ Len(Recent(Later(Recent(ages)))) = Len(ages) - n - m
       /\ \A i \in 1..(Len(ages) - n - m) :
             Recent(Later(Recent(ages)))[i] = Later(Recent(ages))[m + i]
       /\ Recent(Later(Recent(ages))) \in Seq(0..Window)
  BY <1>3, RecentAged DEF Aged, m
<1>11. ASSUME NEW i \in 1..(Len(ages) - (n + m))
       PROVE  Later(Recent(ages))[m + i] = Later(ages)[n + m + i]
  <2>1. m + i \in 1..(Len(ages) - n) /\ n + m + i \in 1..Len(ages) /\ n + (m + i) = n + m + i
    BY <1>4, <1>5
  <2>2. QED
    BY <1>2, <1>3, <2>1
<1>12. Len(ages) - (n + m) = Len(ages) - n - m
  BY <1>4, <1>5
<1>13. QED
  BY <1>9, <1>10, <1>11, <1>12, SeqEqual

(* The limiter's list and the history agree on the last window.            *)
LimiterInv ==
    /\ Aged(calls)
    /\ admitted = Recent(calls)
    /\ RateBound

(* A fresh call is recorded after everything older.                        *)
LEMMA AppendAged ==
  ASSUME NEW ages, Aged(ages)
  PROVE  /\ Aged(Append(ages, 0))
         /\ (\A i \in DOMAIN ages : InWindow(ages[i]))
                => \A i \in DOMAIN Append(ages, 0) : InWindow(Append(ages, 0)[i])
<1>1. /\ Len(ages) \in Nat /\ DOMAIN ages = 1..Len(ages)
      /\ ages \in Seq(0..Window)
      /\ \A i \in 1..Len(ages) : ages[i] \in 0..Window
      /\ \A i, j \in 1..Len(ages) : i <= j => ages[i] >= ages[j]
  BY LenProperties, ElementOfSeq DEF Aged
<1>2. /\ Append(ages, 0) \in Seq(0..Window)
      /\ DOMAIN Append(ages, 0) = 1..(Len(ages) + 1)
      /\ \A i \in 1..(Len(ages) + 1) :
            Append(ages, 0)[i] = IF i <= Len(ages) THEN ages[i] ELSE 0
  BY <1>1, LimiterAssumption
<1>3. \A i, j \in 1..(Len(ages) + 1) : i <= j => Append(ages, 0)[i] >= Append(ages, 0)[j]
  BY <1>1, <1>2
<1>4. InWindow(0)
  BY LimiterAssumption DEF InWindow
<1>5. QED
  BY <1>1, <1>2, <1>3, <1>4 DEF Aged

(* acquire() purges first, so what it counts is the history's last window. *)
LEMMA AcquireLimited ==
  ASSUME LimiterInv, AcquireSlot, admitted' = Append(admitted, 0)
  PROVE  LimiterInv'
<1>1. Aged(admitted) /\ \A i \in DOMAIN admitted : InWindow(admitted[i])
  BY RecentAged, LenProperties DEF LimiterInv, Aged
<1>2. calls' = admitted' /\ Len(admitted) < MaxCalls
  BY DEF LimiterInv, AcquireSlot, HasQuota
<1>3. Aged(admitted') /\ \A i \in DOMAIN admitted' : InWindow(admitted'[i])
  BY <1>1, AppendAged
<1>4. admitted' = Recent(calls')
  BY <1>2, <1>3, AllRecent
<1>5. Len(admitted') <= MaxCalls
  BY <1>1, <1>2, LimiterAssumption DEF Aged
<1>6. QED
  BY <1>2, <1>3, <1>4, <1>5 DEF LimiterInv, RateBound, Aged, Recent, Expired, InWindow

(* So it does when it refuses.                                             *)
LEMMA BlockedLimited ==
  ASSUME LimiterInv, AcquireBlocked, UNCHANGED admitted
  PROVE  LimiterInv'
<1>1. Aged(admitted) /\ \A i \in DOMAIN admitted : InWindow(admitted[i])
  BY RecentAged, LenProperties DEF LimiterInv, Aged
<1>2. calls' = admitted
  BY DEF LimiterInv, AcquireBlocked
<1>3. admitted = Recent(calls')
  BY <1>1, <1>2, AllRecent
<1>4. QED
  BY <1>1, <1>2, <1>3 DEF LimiterInv, RateBound, Aged, Recent, Expired, InWindow

(* The history, which keeps time by itself, ages as the limiter's list.    *)
LEMMA LastWindowRecent ==
  ASSUME NEW ages, Aged(ages), \A i \in DOMAIN ages : InWindow(ages[i])
  PROVE  LastWindow(ages) = Recent(Later(ages))
<1> DEFINE Cut(n) == \A i \in DOMAIN ages : i > n <=> ages[i] + 1 < Window
           gone == CHOOSE n \in 0..Len(ages) : Cut(n)
<1>1. /\ Len(ages) \in Nat /\ DOMAIN ages = 1..Len(ages)
      /\ \A i \in 1..Len(ages) : ages[i] \in 0..Window /\ ages[i] < Window
  BY LenProperties, ElementOfSeq DEF Aged, InWindow
<1>2. \A i \in DOMAIN ages : Age(ages[i]) = ages[i] + 1
  BY <1>1 DEF Age
<1>3. Later(ages) = [i \in DOMAIN ages |-> ages[i] + 1]
  BY <1>2 DEF Later
<1>4. /\ Aged(Later(ages)) /\ Len(Later(ages)) = Len(ages)
      /\ DOMAIN Later(ages) = DOMAIN ages
      /\ \A i \in DOMAIN ages : Later(ages)[i] = ages[i] + 1
  BY <1>3, LaterAged
<1>5. Expired(Later(ages)) \in 0..Len(ages) /\ Cut(Expired(Later(ages)))
  BY <1>4, ExpiredFirst DEF InWindow
<1>6. gone \in 0..Len(ages) /\ Cut(gone)
  BY <1>5
<1> HIDE DEF gone
<1>7. \A i \in DOMAIN Later(ages) : InWindow(Later(ages)[i]) <=> i > gone
  BY <1>4, <1>6 DEF InWindow
<1>8. Expired(Later(ages)) = gone
  BY <1>4, <1>6, <1>7, RecentFrom
<1>9. LastWindow(ages) = SubSeq(Later(ages), gone + 1, Len(ages))
  BY <1>3 DEF LastWindow, gone
<1>10. QED
  BY <1>4, <1>8, <1>9 DEF Recent

(* Time lets calls leave the window, in the limiter's list as in the       *)
(* history.                                                                *)
LEMMA TickLimited ==
  ASSUME LimiterInv, Tick
  PROVE  LimiterInv'
<1>0. Aged(admitted) /\ \A i \in DOMAIN admitted : InWindow(admitted[i])
  BY RecentAged, LenProperties DEF LimiterInv, Aged
<1>1. calls' = Later(calls) /\ admitted' = Recent(Later(admitted))
  BY <1>0, LastWindowRecent DEF Tick, LimiterTick, Later
<1>2. Aged(calls) /\ Aged(Later(calls)) /\ Aged(Later(admitted))
  BY <1>0, LaterAged DEF LimiterInv
<1>3. admitted' = Recent(calls')
  BY <1>1, <1>2, RecentLater DEF LimiterInv
<1>4. /\ Len(admitted') = Len(admitted) - Expired(Later(admitted))
      /\ Expired(Later(admitted)) \in 0..Len(admitted) /\ Len(admitted) \in Nat
  BY <1>0, <1>1, <1>2, RecentAged, LaterAged, ExpiredFirst, LenProperties DEF Aged
<1>5. Len(admitted') <= MaxCalls
  BY <1>4, LimiterAssumption DEF LimiterInv, RateBound
<1>6. QED
  BY <1>1, <1>2, <1>3, <1>5 DEF LimiterInv, RateBound, Aged, Recent, Expired, InWindow

(* Every step keeps the limiter's list and the history together.           *)
LEMMA StepLimited == LimiterInv /\ [Next]_vars => LimiterInv'
<1> SUFFICES ASSUME LimiterInv, [Next]_vars PROVE LimiterInv'
  OBVIOUS
<1>1. ASSUME UNCHANGED <<calls, admitted>> PROVE LimiterInv'
  BY <1>1 DEF LimiterInv, RateBound, Aged, Recent, Expired, InWindow
<1>2. CASE UNCHANGED vars
  BY <1>1, <1>2
<1>3. CASE Tick
  BY <1>3, TickLimited
<1>4. ASSUME NEW t \in Tasks, Acquire(t) PROVE LimiterInv'
  BY <1>4, AcquireLimited DEF Acquire
<1>5. ASSUME NEW t \in Tasks, Blocked(t) PROVE LimiterInv'
  BY <1>5, BlockedLimited DEF Blocked
<1>6. ASSUME NEW t \in Tasks,
             Call(t) \/ LoopExits(t) \/ SleepRetryAfter(t) \/ Admit(t) \/ Refuse(t) \/ Wake(t)
      PROVE  LimiterInv'
  BY <1>1, <1>6 DEF Call, LoopExits, SleepRetryAfter, Admit, Refuse, Wake
<1>7. ASSUME NEW t \in Tasks, Answer(t) PROVE LimiterInv'
  BY <1>1, <1>7 DEF Answer, Accepted, PartialFailure, Permanent, TooLarge, RateLimited,
                    Retryable, GetObject, GetOther, Answered
<1>8. QED
  BY <1>2, <1>3, <1>4, <1>5, <1>6, <1>7 DEF Next, Step

(* Nothing is recorded at first.                                           *)
LEMMA InitLimited == Init => LimiterInv
<1> SUFFICES ASSUME Init PROVE LimiterInv
  OBVIOUS
<1>1. calls = <<>> /\ admitted = <<>>
  BY DEF Init, LimiterInit
<1>2. Aged(calls) /\ \A i \in DOMAIN calls : InWindow(calls[i])
  BY <1>1 DEF Aged
<1>3. QED
  BY <1>1, <1>2, AllRecent, LimiterAssumption DEF LimiterInv, RateBound

(* No window of time sees more than MaxCalls requests admitted, however    *)
(* many retry loops share the limiter.                                     *)
THEOREM WindowsBounded == Spec => []RateBound
<1>1. LimiterInv => RateBound
  BY DEF LimiterInv
<1>2. QED
  BY <1>1, InitLimited, StepLimited, PTL DEF Spec

-----------------------------------------------------------------------------
(* Batches and their halves.                                               *)

(* Every nonempty bounded set of naturals has a greatest element.          *)
LEMMA GreatestNat ==
  ASSUME NEW n \in Nat, NEW T \in SUBSET (0..n), T # {}
  PROVE  \E x \in T : \A y \in T : y <= x
<1> DEFINE Below == {k \in 0..n : n - k \in T}
<1>1. Below \in SUBSET Nat
  OBVIOUS
<1>2. \A y \in T : n - y \in Below
  OBVIOUS
<1>3. Below # {}
  BY <1>2
<1>4. PICK k \in Below : \A y \in Below : k <= y
  BY <1>1, <1>3, LeastNat
<1>5. n - k \in T /\ k \in 0..n
  OBVIOUS
<1>6. \A y \in T : y <= n - k
  BY <1>2, <1>4, <1>5
<1>7. QED
  BY <1>5, <1>6

(* BatchItems::split of a batch of two or more: nothing is lost, and       *)
(* neither half is empty.                                                  *)
LEMMA HalvesSplit ==
  ASSUME NEW items \in SUBSET Items, Cardinality(items) > 1
  PROVE  \E low, high \in SUBSET items :
            /\ Halves(items) = <<low, high>>
            /\ low \cup high = items
            /\ low # {} /\ high # {}
<1> DEFINE below(i) == {j \in items : j < i}
           mid == Cardinality(items) \div 2
           low == {i \in items : Cardinality(below(i)) < mid}
           high == items \ low
<1>1. IsFiniteSet(items) /\ Cardinality(items) \in Nat
  <2>1. BatchSize \in Int /\ 1 \in Int
    BY TransportAssumption
  <2>2. IsFiniteSet(Items)
    BY <2>1, FS_Interval DEF Items
  <2>3. IsFiniteSet(items)
    BY <2>2, FS_Subset
  <2>4. QED
    BY <2>3, FS_CardinalityType
<1>2. mid \in Nat /\ mid >= 1 /\ mid <= Cardinality(items) - 1
  BY <1>1
<1>3. items # {} /\ items \in SUBSET Nat /\ items \in SUBSET (0..BatchSize)
  BY <1>1, FS_EmptySet, TransportAssumption DEF Items
<1>4. low # {}
  <2>1. PICK x \in items : \A y \in items : x <= y
    BY <1>3, LeastNat
  <2>2. below(x) = {}
    <3>1. \A j \in items : ~(j < x)
      BY <1>3, <2>1
    <3>2. QED
      BY <3>1
  <2>3. Cardinality(below(x)) = 0
    BY <2>2, FS_EmptySet
  <2>4. x \in low
    BY <1>2, <2>3
  <2>5. QED
    BY <2>4
<1>5. high # {}
  <2>1. PICK x \in items : \A y \in items : y <= x
    BY <1>3, GreatestNat, TransportAssumption
  <2>2. below(x) = items \ {x}
    <3>1. \A j \in items : j < x <=> j # x
      BY <1>3, <2>1
    <3>2. QED
      BY <3>1
  <2>3. Cardinality(below(x)) = Cardinality(items) - 1
    BY <1>1, <2>2, FS_RemoveElement
  <2>4. x \notin low
    BY <1>1, <1>2, <2>3
  <2>5. QED
    BY <2>4
<1>6. Halves(items) = <<low, high>>
  BY DEF Halves
<1>7. low \in SUBSET items /\ high \in SUBSET items /\ low \cup high = items
  OBVIOUS
<1> HIDE DEF low, high
<1>8. QED
  BY <1>4, <1>5, <1>6, <1>7

(* The items of batches still to send.                                     *)
Left(batches) == UNION {batches[i] : i \in DOMAIN batches}

Lots == Seq(SUBSET Items)

(* The batch in hand, then the others.                                     *)
LEMMA LeftHeadTail ==
  ASSUME NEW s \in Lots, s # <<>>
  PROVE  /\ Head(s) \in SUBSET Items /\ Tail(s) \in Lots
         /\ Left(s) = Head(s) \cup Left(Tail(s))
         /\ Len(s) = 1 => Tail(s) = <<>> /\ Left(s) = Head(s)
         /\ Len(s) # 1 => Tail(s) # <<>>
<1>1. /\ Len(s) \in Nat \ {0} /\ DOMAIN s = 1..Len(s)
      /\ Head(s) = s[1] /\ Head(s) \in SUBSET Items
      /\ Tail(s) \in Lots /\ Len(Tail(s)) = Len(s) - 1
      /\ DOMAIN Tail(s) = 1..(Len(s) - 1)
      /\ \A i \in 1..(Len(s) - 1) : Tail(s)[i] = s[i + 1]
  BY HeadTailProperties, EmptySeq DEF Lots
<1>2. ASSUME NEW x PROVE x \in Left(s) <=> x \in Head(s) \/ x \in Left(Tail(s))
  <2>1. x \in Left(s) <=> \E i \in 1..Len(s) : x \in s[i]
    BY <1>1 DEF Left
  <2>2. x \in Left(Tail(s)) <=> \E i \in 1..(Len(s) - 1) : x \in s[i + 1]
    BY <1>1 DEF Left
  <2>3. ASSUME NEW i \in 1..Len(s), x \in s[i]
        PROVE  x \in s[1] \/ \E j \in 1..(Len(s) - 1) : x \in s[j + 1]
    <3>1. CASE i = 1
      BY <2>3, <3>1
    <3>2. CASE i # 1
      <4>1. i - 1 \in 1..(Len(s) - 1) /\ (i - 1) + 1 = i
        BY <1>1, <3>2
      <4>2. QED
        BY <2>3, <4>1
    <3>3. QED
      BY <3>1, <3>2
  <2>4. ASSUME NEW j \in 1..(Len(s) - 1), x \in s[j + 1]
        PROVE  \E i \in 1..Len(s) : x \in s[i]
    BY <1>1, <2>4
  <2>5. QED
    BY <1>1, <2>1, <2>2, <2>3, <2>4
<1>3. Left(s) = Head(s) \cup Left(Tail(s))
  BY <1>2
<1>4. Len(s) = 1 => Tail(s) = <<>> /\ Left(Tail(s)) = {}
  BY <1>1, EmptySeq DEF Left, Lots
<1>5. Len(s) # 1 => Tail(s) # <<>>
  <2>1. Len(<<>>) = 0
    OBVIOUS
  <2>2. Len(s) # 1 => Len(Tail(s)) # 0
    BY <1>1
  <2>3. QED
    BY <2>1, <2>2
<1>6. QED
  BY <1>1, <1>3, <1>4, <1>5

(* A batch on its own.                                                     *)
LEMMA LeftOne ==
  ASSUME NEW b \in SUBSET Items
  PROVE  <<b>> \in Lots /\ <<b>> # <<>> /\ Left(<<b>>) = b
BY DEF Left, Lots

(* Two batches before others.                                              *)
LEMMA LeftTwo ==
  ASSUME NEW a \in SUBSET Items, NEW b \in SUBSET Items, NEW s \in Lots
  PROVE  /\ <<a, b>> \o s \in Lots /\ <<a, b>> \o s # <<>>
         /\ Left(<<a, b>> \o s) = a \cup b \cup Left(s)
         /\ a # {} /\ b # {} /\ (\A i \in DOMAIN s : s[i] # {})
               => \A i \in DOMAIN (<<a, b>> \o s) : (<<a, b>> \o s)[i] # {}
<1> DEFINE c == <<a, b>> \o s
<1>1. /\ <<a, b>> \in Lots /\ Len(<<a, b>>) = 2 /\ <<a, b>>[1] = a /\ <<a, b>>[2] = b
      /\ Len(s) \in Nat /\ DOMAIN s = 1..Len(s)
  BY DEF Lots
<1>2. /\ c \in Lots /\ Len(c) = 2 + Len(s)
      /\ \A i \in 1..(2 + Len(s)) : c[i] = IF i <= 2 THEN <<a, b>>[i] ELSE s[i - 2]
  BY <1>1, ConcatProperties DEF Lots
<1> HIDE DEF c
<1>3. DOMAIN c = 1..(2 + Len(s)) /\ c # <<>>
  BY <1>1, <1>2 DEF Lots
<1>4. c[1] = a /\ c[2] = b /\ \A i \in 1..Len(s) : c[i + 2] = s[i]
  BY <1>1, <1>2
<1>5. \A i \in DOMAIN c : i = 1 \/ i = 2 \/ \E j \in 1..Len(s) : i = j + 2
  <2> TAKE i \in DOMAIN c
  <2>1. i = 1 \/ i = 2 \/ (i - 2 \in 1..Len(s) /\ i = (i - 2) + 2)
    BY <1>1, <1>3
  <2>2. QED
    BY <2>1
<1>6. \A j \in 1..Len(s) : j + 2 \in DOMAIN c
  BY <1>1, <1>3
<1>7. 1 \in DOMAIN c /\ 2 \in DOMAIN c
  BY <1>1, <1>3
<1>8. Left(c) = a \cup b \cup Left(s)
  BY <1>1, <1>4, <1>5, <1>6, <1>7 DEF Left
<1>9. a # {} /\ b # {} /\ (\A i \in DOMAIN s : s[i] # {}) => \A i \in DOMAIN c : c[i] # {}
  <2> SUFFICES ASSUME a # {}, b # {}, \A i \in DOMAIN s : s[i] # {}, NEW i \in DOMAIN c
               PROVE  c[i] # {}
    OBVIOUS
  <2>1. i = 1 \/ i = 2 \/ \E j \in 1..Len(s) : i = j + 2
    BY <1>5
  <2>2. CASE i = 1 \/ i = 2
    BY <1>4, <2>2
  <2>3. ASSUME NEW j \in 1..Len(s), i = j + 2 PROVE c[i] # {}
    BY <1>1, <1>4, <2>3
  <2>4. QED
    BY <2>1, <2>2, <2>3
<1>10. QED
  BY <1>2, <1>3, <1>8, <1>9 DEF c
-----------------------------------------------------------------------------
(* One retry loop.                                                         *)

ControlType ==
    /\ tpc \in [Tasks -> Place]
    /\ todo \in [Tasks -> Lots]
    /\ attempt \in [Tasks -> 0..Attempts]
    /\ wait \in [Tasks -> Pause]
    /\ outcome \in [Tasks -> {"none", "accepted", "permanent", "failed", "malformed"}]

FateType ==
    /\ whole \in [Tasks -> SUBSET Items]
    /\ taken \in [Tasks -> SUBSET Items]
    /\ refused \in [Tasks -> SUBSET Items]

(* Loops that hold an attempt.                                             *)
Trying == {"blocked", "admit", "wire"}

(* What is true of a task between two steps of it: an attempt is left when *)
(* one is under way, a call under way has something in hand, batches are   *)
(* never empty, and SendContract.                                          *)
LoopSound(t) ==
    /\ tpc[t] \in Trying => attempt[t] < Attempts
    /\ tpc[t] # "idle" => todo[t] # <<>>
    /\ Role[t] = "batch" => \A i \in DOMAIN todo[t] : todo[t][i] # {}
    /\ Role[t] # "batch" => whole[t] = {}
    /\ tpc[t] # "idle" => taken[t] \cup refused[t] \cup Left(todo[t]) = whole[t]
    /\ tpc[t] = "idle" /\ outcome[t] \in {"accepted", "permanent"}
          => taken[t] \cup refused[t] = whole[t]
    /\ tpc[t] = "idle" /\ outcome[t] = "accepted" /\ Role[t] = "batch" => taken[t] # {}

LoopInv ==
    /\ ControlType /\ FateType /\ counted \in [Tasks -> Nat]
    /\ \A t \in Tasks : LoopSound(t)

(* Task t alone has moved: to place, with these batches to send and this   *)
(* outcome on record.                                                      *)
Reaches(t, place, batches, result) ==
    /\ ControlType'
    /\ \A u \in Tasks \ {t} : /\ tpc'[u] = tpc[u] /\ todo'[u] = todo[u]
                              /\ attempt'[u] = attempt[u] /\ outcome'[u] = outcome[u]
    /\ tpc'[t] = place /\ todo'[t] = batches /\ outcome'[t] = result
    /\ place \in Trying => attempt'[t] < Attempts

(* Where the moves of the loop lead.                                       *)
LEMMA MovesReach ==
  ASSUME ControlType, NEW t \in Tasks
  PROVE  /\ \A place \in Place : Goto(t, place) /\ (place \in Trying => attempt[t] < Attempts)
               => Reaches(t, place, todo[t], outcome[t])
         /\ \A ticks \in Pause : Sleep(t, ticks) /\ attempt[t] < Attempts
               => Reaches(t, "sleep", todo[t], outcome[t])
         /\ \A result \in {"accepted", "permanent", "failed", "malformed"} :
               Finish(t, result) => Reaches(t, "idle", <<>>, result)
         /\ \A batches \in Lots :
               SendNext(t, batches) => Reaches(t, "limit", batches, outcome[t])
<1>1. ASSUME NEW place \in Place, Goto(t, place), place \in Trying => attempt[t] < Attempts
      PROVE  Reaches(t, place, todo[t], outcome[t])
  BY <1>1 DEF Goto, Reaches, ControlType
<1>2. ASSUME NEW ticks \in Pause, Sleep(t, ticks), attempt[t] < Attempts
      PROVE  Reaches(t, "sleep", todo[t], outcome[t])
  BY <1>2, TransportAssumption DEF Sleep, Reaches, ControlType, Place, Trying
<1>3. ASSUME NEW result \in {"accepted", "permanent", "failed", "malformed"}, Finish(t, result)
      PROVE  Reaches(t, "idle", <<>>, result)
  <2>1. <<>> \in Lots /\ 0 \in 0..Attempts /\ "idle" \in Place /\ "idle" \notin Trying
    BY TransportAssumption DEF Lots, Place, Trying
  <2>2. QED
    BY <1>3, <2>1 DEF Finish, Reaches, ControlType
<1>4. ASSUME NEW batches \in Lots, SendNext(t, batches)
      PROVE  Reaches(t, "limit", batches, outcome[t])
  <2>1. 0 \in 0..Attempts /\ "limit" \in Place /\ "limit" \notin Trying
    BY TransportAssumption DEF Place, Trying
  <2>2. QED
    BY <1>4, <2>1 DEF SendNext, Reaches, ControlType
<1>5. QED
  BY <1>1, <1>2, <1>3, <1>4

(* An attempt that failed is followed by a sleep or ends the call.         *)
LEMMA FailingReaches ==
  ASSUME LoopInv, NEW t \in Tasks, NEW ticks \in Pause, attempt[t] < Attempts, Failing(t, ticks)
  PROVE  /\ counted' \in [Tasks -> Nat]
         /\ \/ Reaches(t, "sleep", todo[t], outcome[t])
            \/ Reaches(t, "idle", <<>>, "failed")
<1>1. CASE attempt[t] + 1 = Attempts
  BY <1>1, MovesReach DEF Failing, LoopInv
<1>2. CASE attempt[t] + 1 # Attempts
  BY <1>2, MovesReach DEF Failing, LoopInv
<1>3. QED
  BY <1>1, <1>2

(* The server's answer about the items still to settle: got taken, out     *)
(* refused.  While the call goes on nothing is lost; a result that         *)
(* confirms the batch leaves nothing.                                      *)
Settles(t, got, out) ==
    /\ got \in SUBSET Left(todo[t]) /\ out \in SUBSET Left(todo[t])
    /\ taken' = [taken EXCEPT ![t] = @ \cup got]
    /\ refused' = [refused EXCEPT ![t] = @ \cup out]
    /\ UNCHANGED whole

(* What a step of a call under way does, in the terms of SendCall.         *)
Advances(t, got, out) ==
    /\ tpc[t] # "idle"
    /\ Settles(t, got, out)
    /\ counted' \in [Tasks -> Nat]
    /\ \/ /\ \E place \in Place \ {"idle"} : Reaches(t, place, todo'[t], outcome[t])
          /\ todo'[t] # <<>>
          /\ got \cup out \cup Left(todo'[t]) = Left(todo[t])
          /\ Role[t] = "batch" => \A i \in DOMAIN todo'[t] : todo'[t][i] # {}
       \/ \E result \in {"accepted", "permanent", "failed", "malformed"} :
             /\ Reaches(t, "idle", <<>>, result)
             /\ result \in {"accepted", "permanent"} => got \cup out = Left(todo[t])
             /\ result = "accepted" /\ Role[t] = "batch" => got # {}

(* Nothing settled.                                                        *)
LEMMA SettlesNothing ==
  ASSUME LoopInv, NEW t \in Tasks, UNCHANGED fateVars
  PROVE  Settles(t, {}, {})
BY DEF Settles, LoopInv, FateType

(* The batch in hand, and what follows it.                                 *)
LEMMA HandAndRest ==
  ASSUME LoopInv, NEW t \in Tasks, tpc[t] # "idle"
  PROVE  /\ todo[t] \in Lots /\ todo[t] # <<>>
         /\ InHand(t) \in SUBSET Left(todo[t]) /\ InHand(t) \in SUBSET Items
         /\ Role[t] = "batch" => InHand(t) # {}
         /\ Tail(todo[t]) \in Lots
         /\ InHand(t) \cup Left(Tail(todo[t])) = Left(todo[t])
         /\ Len(todo[t]) = 1 => InHand(t) = Left(todo[t])
         /\ Len(todo[t]) # 1 => Tail(todo[t]) # <<>>
         /\ Role[t] = "batch" =>
               \A i \in DOMAIN Tail(todo[t]) : Tail(todo[t])[i] # {}
<1>1. todo[t] \in Lots /\ todo[t] # <<>> /\ LoopSound(t)
  BY DEF LoopInv, ControlType, LoopSound
<1>2. /\ Head(todo[t]) = todo[t][1] /\ 1 \in DOMAIN todo[t]
      /\ DOMAIN todo[t] = 1..Len(todo[t]) /\ Len(todo[t]) \in Nat \ {0}
      /\ DOMAIN Tail(todo[t]) = 1..(Len(todo[t]) - 1)
      /\ \A i \in 1..(Len(todo[t]) - 1) : Tail(todo[t])[i] = todo[t][i + 1]
  BY <1>1, HeadTailProperties, EmptySeq DEF Lots
<1>3. Role[t] = "batch" => todo[t][1] # {}
  BY <1>1, <1>2 DEF LoopSound
<1>4. Role[t] = "batch" => \A i \in DOMAIN Tail(todo[t]) : Tail(todo[t])[i] # {}
  <2> SUFFICES ASSUME Role[t] = "batch", NEW i \in 1..(Len(todo[t]) - 1)
               PROVE  todo[t][i + 1] # {}
    BY <1>2
  <2>1. i + 1 \in DOMAIN todo[t]
    BY <1>2
  <2>2. QED
    BY <1>1, <2>1 DEF LoopSound
<1>5. QED
  BY <1>1, <1>2, <1>3, <1>4, LeftHeadTail DEF InHand

(* A confirmed batch: the rest follows, or nothing is left.                *)
LEMMA ConfirmedAdvances ==
  ASSUME LoopInv, NEW t \in Tasks, tpc[t] # "idle",
         NEW result \in {"accepted", "permanent"}, Confirmed(t, result),
         NEW got, NEW out, Settles(t, got, out), got \cup out = InHand(t),
         result = "accepted" /\ Role[t] = "batch" => got # {},
         UNCHANGED counted
  PROVE  Advances(t, got, out)
<1>1. ControlType /\ counted' \in [Tasks -> Nat]
  BY DEF LoopInv
<1>2. CASE Len(todo[t]) = 1
  <2>1. Reaches(t, "idle", <<>>, result)
    BY <1>1, <1>2, MovesReach DEF Confirmed
  <2>2. QED
    BY <1>1, <1>2, <2>1, HandAndRest DEF Advances
<1>3. CASE Len(todo[t]) # 1
  <2>1. Reaches(t, "limit", Tail(todo[t]), outcome[t])
    BY <1>1, <1>3, MovesReach, HandAndRest DEF Confirmed
  <2>2. todo'[t] = Tail(todo[t]) /\ "limit" \in Place \ {"idle"}
    BY <2>1 DEF Reaches, Place
  <2>3. QED
    BY <1>1, <1>3, <2>1, <2>2, HandAndRest DEF Advances
<1>4. QED
  BY <1>2, <1>3

(* A step that settles something but keeps what it has to send.            *)
LEMMA RetryAdvances ==
  ASSUME LoopInv, NEW t \in Tasks, tpc[t] # "idle",
         NEW got, NEW out, Settles(t, got, out), counted' \in [Tasks -> Nat],
         NEW place \in Place \ {"idle"}, Reaches(t, place, todo[t], outcome[t])
  PROVE  Advances(t, got, out)
<1>1. todo'[t] = todo[t]
  BY DEF Reaches
<1>2. todo[t] # <<>> /\ (Role[t] = "batch" => \A i \in DOMAIN todo[t] : todo[t][i] # {})
  BY DEF LoopInv, LoopSound
<1>3. got \cup out \cup Left(todo'[t]) = Left(todo[t])
  BY <1>1 DEF Settles
<1>4. QED
  BY <1>1, <1>2, <1>3 DEF Advances

(* A call that ends without confirming the batch.                          *)
LEMMA EndAdvances ==
  ASSUME LoopInv, NEW t \in Tasks, tpc[t] # "idle",
         NEW got, NEW out, Settles(t, got, out), counted' \in [Tasks -> Nat],
         Reaches(t, "idle", <<>>, "failed")
  PROVE  Advances(t, got, out)
BY DEF Advances

(* A failed attempt, with whatever the server took.                        *)
LEMMA FailingAdvances ==
  ASSUME LoopInv, NEW t \in Tasks, tpc[t] \in Trying, NEW ticks \in Pause, Failing(t, ticks),
         NEW got, NEW out, Settles(t, got, out)
  PROVE  Advances(t, got, out)
<1>1. tpc[t] # "idle" /\ attempt[t] < Attempts
  BY DEF LoopInv, LoopSound, Trying
<1>2. "sleep" \in Place \ {"idle"}
  BY DEF Place
<1>3. QED
  BY <1>1, <1>2, FailingReaches, RetryAdvances, EndAdvances

(* Backoff and the limiter's wait keep within their caps.                  *)
LEMMA DelaysCapped ==
  /\ \A n : Backoff(n) \in Pause
  /\ calls \in Seq(0..Window) => RetryAfter \in Pause
<1>1. \A n : Backoff(n) \in 0..MaxBackoff
  BY TransportAssumption DEF Backoff
<1>2. ASSUME calls \in Seq(0..Window) PROVE RetryAfter \in 0..Window
  <2>1. CASE calls = <<>>
    BY <2>1, LimiterAssumption DEF RetryAfter
  <2>2. CASE calls # <<>>
    <3>1. Head(calls) \in 0..Window
      BY <1>2, <2>2, HeadTailProperties
    <3>2. Window - Head(calls) \in 0..Window
      BY <3>1, LimiterAssumption
    <3>3. QED
      BY <2>2, <3>2 DEF RetryAfter
  <2>3. QED
    BY <2>1, <2>2
<1>3. QED
  BY <1>1, <1>2 DEF Pause

(* Asking the limiter and the breaker settles nothing.                     *)
LEMMA GateAdvances ==
  ASSUME LoopInv, calls \in Seq(0..Window), NEW t \in Tasks,
         LoopExits(t) \/ Acquire(t) \/ Blocked(t) \/ SleepRetryAfter(t)
            \/ Admit(t) \/ Refuse(t) \/ Wake(t)
  PROVE  Advances(t, {}, {})
<1>0. ControlType /\ counted \in [Tasks -> Nat] /\ LoopSound(t)
  BY DEF LoopInv
<1>1. Settles(t, {}, {}) /\ tpc[t] # "idle"
  BY SettlesNothing
     DEF LoopExits, Acquire, Blocked, SleepRetryAfter, Admit, Refuse, Wake
<1>2. {"limit", "blocked", "admit", "wire", "sleep"} \subseteq Place \ {"idle"}
  BY DEF Place
<1>3. CASE LoopExits(t)
  <2>1. Reaches(t, "idle", <<>>, "failed") /\ counted' \in [Tasks -> Nat]
    BY <1>0, <1>3, MovesReach DEF LoopExits
  <2>2. QED
    BY <1>1, <2>1, EndAdvances
<1>4. CASE Acquire(t)
  <2>1. Reaches(t, "admit", todo[t], outcome[t]) /\ counted' \in [Tasks -> Nat]
    BY <1>0, <1>2, <1>4, MovesReach DEF Acquire
  <2>2. QED
    BY <1>1, <1>2, <2>1, RetryAdvances
<1>5. CASE Blocked(t)
  <2>1. Reaches(t, "blocked", todo[t], outcome[t]) /\ counted' \in [Tasks -> Nat]
    BY <1>0, <1>2, <1>5, MovesReach DEF Blocked
  <2>2. QED
    BY <1>1, <1>2, <2>1, RetryAdvances
<1>6. CASE SleepRetryAfter(t)
  <2>1. attempt[t] < Attempts /\ RetryAfter \in Pause
    BY <1>0, <1>6, DelaysCapped DEF SleepRetryAfter, LoopSound, Trying
  <2>2. Reaches(t, "sleep", todo[t], outcome[t]) /\ counted' \in [Tasks -> Nat]
    BY <1>0, <1>6, <2>1, MovesReach DEF SleepRetryAfter
  <2>3. QED
    BY <1>1, <1>2, <2>2, RetryAdvances
<1>7. CASE Admit(t)
  <2>1. attempt[t] < Attempts
    BY <1>0, <1>7 DEF Admit, LoopSound, Trying
  <2>2. Reaches(t, "wire", todo[t], outcome[t]) /\ counted' \in [Tasks -> Nat]
    BY <1>0, <1>2, <1>7, <2>1, MovesReach DEF Admit
  <2>3. QED
    BY <1>1, <1>2, <2>2, RetryAdvances
<1>8. CASE Refuse(t)
  <2>1. tpc[t] \in Trying /\ Failing(t, Backoff(attempt[t])) /\ Backoff(attempt[t]) \in Pause
    BY <1>8, DelaysCapped DEF Refuse, Trying
  <2>2. QED
    BY <1>1, <2>1, FailingAdvances
<1>9. CASE Wake(t)
  <2>1. Reaches(t, "limit", todo[t], outcome[t]) /\ counted' \in [Tasks -> Nat]
    BY <1>0, <1>2, <1>9, MovesReach DEF Wake, Trying
  <2>2. QED
    BY <1>1, <1>2, <2>1, RetryAdvances
<1>10. QED
  BY <1>3, <1>4, <1>5, <1>6, <1>7, <1>8, <1>9

(* An answer settles part of the batch in hand.                            *)
LEMMA AnswerAdvances ==
  ASSUME LoopInv, NEW t \in Tasks, Answer(t)
  PROVE  \E got, out \in SUBSET Left(todo[t]) : Advances(t, got, out)
<1>0. /\ ControlType /\ FateType /\ counted \in [Tasks -> Nat]
      /\ tpc[t] = "wire" /\ tpc[t] \in Trying /\ tpc[t] # "idle"
  BY DEF LoopInv, Answer, Accepted, PartialFailure, Permanent, TooLarge, RateLimited,
         Retryable, GetObject, GetOther, Answered, Trying
<1>1. InHand(t) \in SUBSET Left(todo[t])
  BY <1>0, HandAndRest
<1>2. \A items \in SUBSET InHand(t) :
         Take(t, items) /\ UNCHANGED <<whole, refused>> => Settles(t, items, {})
  BY <1>0, <1>1 DEF Take, Settles, FateType
<1>3. refused' = [refused EXCEPT ![t] = @ \cup InHand(t)] /\ UNCHANGED <<whole, taken>>
         => Settles(t, {}, InHand(t))
  BY <1>0, <1>1 DEF Settles, FateType
<1>4. CASE Accepted(t)
  <2>1. Settles(t, InHand(t), {}) /\ Confirmed(t, "accepted") /\ UNCHANGED counted
    BY <1>2, <1>4 DEF Accepted
  <2>2. Advances(t, InHand(t), {})
    BY <1>0, <2>1, HandAndRest, ConfirmedAdvances
  <2>3. QED
    BY <1>1, <2>2
<1>5. CASE PartialFailure(t)
  <2>1. PICK items \in SUBSET InHand(t) : Settles(t, items, {})
    BY <1>2, <1>5 DEF PartialFailure
  <2>2. Reaches(t, "idle", <<>>, "failed") /\ counted' \in [Tasks -> Nat]
    BY <1>0, <1>5, MovesReach DEF PartialFailure
  <2>3. Advances(t, items, {})
    BY <1>0, <2>1, <2>2, EndAdvances
  <2>4. QED
    BY <1>1, <2>3
<1>6. CASE Permanent(t)
  <2>1. Settles(t, {}, InHand(t)) /\ Confirmed(t, "permanent") /\ UNCHANGED counted
    BY <1>3, <1>6 DEF Permanent
  <2>2. Advances(t, {}, InHand(t))
    BY <1>0, <2>1, ConfirmedAdvances
  <2>3. QED
    BY <1>1, <2>2
<1>7. CASE TooLarge(t)
  <2>1. UNCHANGED <<counted, whole, taken>>
    BY <1>7 DEF TooLarge
  <2>2. ASSUME Finish(t, "failed"), UNCHANGED refused
        PROVE  Advances(t, {}, {})
    <3>1. Reaches(t, "idle", <<>>, "failed") /\ counted' \in [Tasks -> Nat]
      BY <1>0, <2>1, <2>2, MovesReach
    <3>2. QED
      BY <1>0, <2>1, <2>2, <3>1, SettlesNothing, EndAdvances
  <2>3. ASSUME refused' = [refused EXCEPT ![t] = @ \cup InHand(t)], Confirmed(t, "permanent")
        PROVE  Advances(t, {}, InHand(t))
    BY <1>0, <1>3, <2>1, <2>3, ConfirmedAdvances
  <2>4. ASSUME Splits(t), SendNext(t, Halves(InHand(t)) \o Tail(todo[t])), UNCHANGED refused
        PROVE  Advances(t, {}, {})
    <3>1. /\ InHand(t) \in SUBSET Items /\ Cardinality(InHand(t)) > 1
          /\ Tail(todo[t]) \in Lots
          /\ \A i \in DOMAIN Tail(todo[t]) : Tail(todo[t])[i] # {}
          /\ InHand(t) \cup Left(Tail(todo[t])) = Left(todo[t])
      BY <1>0, <2>4, HandAndRest DEF Splits
    <3>2. PICK low, high \in SUBSET InHand(t) :
             /\ Halves(InHand(t)) = <<low, high>> /\ low \cup high = InHand(t)
             /\ low # {} /\ high # {}
      BY <3>1, HalvesSplit
    <3> DEFINE batches == <<low, high>> \o Tail(todo[t])
    <3>3. low \in SUBSET Items /\ high \in SUBSET Items
      BY <3>1
    <3>4. /\ batches \in Lots /\ batches # <<>>
          /\ Left(batches) = low \cup high \cup Left(Tail(todo[t]))
          /\ \A i \in DOMAIN batches : batches[i] # {}
      <4>1. /\ batches \in Lots /\ batches # <<>>
            /\ Left(batches) = low \cup high \cup Left(Tail(todo[t]))
        BY <3>1, <3>3, LeftTwo
      <4>2. \A i \in DOMAIN batches : batches[i] # {}
        BY <3>1, <3>2, <3>3, LeftTwo
      <4>3. QED
        BY <4>1, <4>2
    <3>5. SendNext(t, batches)
      BY <2>4, <3>2
    <3> HIDE DEF batches
    <3>6. Reaches(t, "limit", batches, outcome[t]) /\ counted' \in [Tasks -> Nat]
      BY <1>0, <2>1, <3>4, <3>5, MovesReach
    <3>7. todo'[t] = batches /\ "limit" \in Place \ {"idle"}
      BY <3>6 DEF Reaches, Place
    <3>8. Left(batches) = Left(todo[t]) /\ Settles(t, {}, {})
      BY <2>1, <2>4, <3>1, <3>2, <3>4, SettlesNothing
    <3>9. {} \cup {} \cup Left(todo'[t]) = Left(todo[t])
      BY <3>7, <3>8
    <3>10. QED
      BY <1>0, <3>4, <3>6, <3>7, <3>8, <3>9 DEF Advances
  <2>5. QED
    BY <1>1, <1>7, <2>2, <2>3, <2>4 DEF TooLarge
<1>8. CASE RateLimited(t)
  <2>1. PICK ticks \in 0..MaxRetryAfter : Failing(t, ticks)
    BY <1>8 DEF RateLimited
  <2>2. Settles(t, {}, {}) /\ ticks \in Pause
    BY <1>8, SettlesNothing DEF RateLimited, Pause
  <2>3. QED
    BY <1>0, <2>1, <2>2, FailingAdvances
<1>9. CASE Retryable(t)
  <2>1. PICK items \in SUBSET InHand(t) : Settles(t, items, {})
    BY <1>2, <1>9 DEF Retryable
  <2>2. Failing(t, Backoff(attempt[t])) /\ Backoff(attempt[t]) \in Pause
    BY <1>9, DelaysCapped DEF Retryable
  <2>3. Advances(t, items, {})
    BY <1>0, <2>1, <2>2, FailingAdvances
  <2>4. QED
    BY <1>1, <2>3
<1>10. CASE GetObject(t)
  <2>1. PICK result \in {"accepted", "malformed"} : Finish(t, result)
    BY <1>10 DEF GetObject
  <2>2. Settles(t, {}, {}) /\ counted' \in [Tasks -> Nat] /\ Role[t] # "batch"
    BY <1>0, <1>10, SettlesNothing DEF GetObject, IsPost
  <2>3. Reaches(t, "idle", <<>>, result)
    BY <1>0, <2>1, MovesReach
  <2>4. Left(todo[t]) = {}
    BY <1>0, <2>2 DEF LoopInv, LoopSound
  <2>5. QED
    BY <1>0, <2>2, <2>3, <2>4 DEF Advances
<1>11. CASE GetOther(t)
  <2>1. Settles(t, {}, {}) /\ attempt[t] < Attempts
    BY <1>0, <1>11, SettlesNothing DEF GetOther, LoopInv, LoopSound
  <2>2. counted' \in [Tasks -> Nat]
    BY <1>0, <1>11 DEF GetOther
  <2>3. Reaches(t, "limit", todo[t], outcome[t]) /\ "limit" \in Place \ {"idle"}
    BY <1>0, <1>11, <2>1, TransportAssumption DEF GetOther, Reaches, ControlType, Place, Trying
  <2>4. QED
    BY <1>0, <2>1, <2>2, <2>3, RetryAdvances
<1>12. QED
  BY <1>4, <1>5, <1>6, <1>7, <1>8, <1>9, <1>10, <1>11 DEF Answer

(* Whatever a call of task t does, its batch is accounted for, and the     *)
(* other tasks' batches are not touched.                                   *)
LEMMA AdvancesKeeps ==
  ASSUME LoopInv, NEW t \in Tasks, NEW got, NEW out, Advances(t, got, out)
  PROVE  LoopInv'
<1>0. /\ ControlType' /\ counted' \in [Tasks -> Nat] /\ FateType
      /\ got \in SUBSET Left(todo[t]) /\ out \in SUBSET Left(todo[t])
      /\ taken' = [taken EXCEPT ![t] = @ \cup got]
      /\ refused' = [refused EXCEPT ![t] = @ \cup out]
      /\ whole' = whole
  BY DEF Advances, Settles, Reaches, LoopInv
<1>1. tpc[t] # "idle" /\ LoopSound(t) /\ Left(todo[t]) \in SUBSET whole[t]
  BY DEF Advances, LoopInv, LoopSound
<1>2. FateType'
  BY <1>0, <1>1 DEF FateType
<1>3. /\ taken'[t] = taken[t] \cup got /\ refused'[t] = refused[t] \cup out
      /\ whole'[t] = whole[t]
      /\ \A u \in Tasks \ {t} : taken'[u] = taken[u] /\ refused'[u] = refused[u]
  BY <1>0 DEF FateType
<1>4. ASSUME NEW u \in Tasks, u # t PROVE LoopSound(u)'
  <2>1. tpc'[u] = tpc[u] /\ todo'[u] = todo[u] /\ attempt'[u] = attempt[u] /\ outcome'[u] = outcome[u]
    BY <1>4 DEF Advances, Reaches
  <2>2. LoopSound(u)
    BY DEF LoopInv
  <2>3. QED
    BY <1>0, <1>3, <1>4, <2>1, <2>2 DEF LoopSound, Left
<1>5. LoopSound(t)'
  <2>1. ASSUME NEW place \in Place \ {"idle"}, Reaches(t, place, todo'[t], outcome[t]),
               todo'[t] # <<>>, got \cup out \cup Left(todo'[t]) = Left(todo[t]),
               Role[t] = "batch" => \A i \in DOMAIN todo'[t] : todo'[t][i] # {}
        PROVE  LoopSound(t)'
    <3>1. tpc'[t] # "idle" /\ (tpc'[t] \in Trying => attempt'[t] < Attempts)
      BY <2>1 DEF Reaches
    <3>2. taken'[t] \cup refused'[t] \cup Left(todo'[t]) = whole'[t]
      <4>1. taken[t] \cup refused[t] \cup Left(todo[t]) = whole[t]
        BY <1>1 DEF LoopSound
      <4>2. taken'[t] \cup refused'[t] \cup Left(todo'[t])
               = taken[t] \cup refused[t] \cup (got \cup out \cup Left(todo'[t]))
        BY <1>3
      <4>3. QED
        BY <1>3, <2>1, <4>1, <4>2
    <3>3. Role[t] # "batch" => whole'[t] = {}
      BY <1>0, <1>1 DEF LoopSound
    <3>4. QED
      BY <2>1, <3>1, <3>2, <3>3 DEF LoopSound, Left
  <2>2. ASSUME NEW result \in {"accepted", "permanent", "failed", "malformed"},
               Reaches(t, "idle", <<>>, result),
               result \in {"accepted", "permanent"} => got \cup out = Left(todo[t]),
               result = "accepted" /\ Role[t] = "batch" => got # {}
        PROVE  LoopSound(t)'
    <3>1. tpc'[t] = "idle" /\ todo'[t] = <<>> /\ outcome'[t] = result /\ "idle" \notin Trying
      BY <2>2 DEF Reaches, Trying
    <3>2. \A i \in DOMAIN todo'[t] : FALSE
      BY <3>1
    <3>3. taken[t] \cup refused[t] \cup Left(todo[t]) = whole[t]
          /\ (Role[t] # "batch" => whole[t] = {})
      BY <1>1 DEF LoopSound
    <3>4. result \in {"accepted", "permanent"} => taken'[t] \cup refused'[t] = whole'[t]
      BY <1>3, <2>2, <3>3
    <3>5. result = "accepted" /\ Role[t] = "batch" => taken'[t] # {}
      BY <1>3, <2>2
    <3>6. QED
      BY <1>0, <3>1, <3>2, <3>3, <3>4, <3>5 DEF LoopSound
  <2>3. QED
    BY <2>1, <2>2 DEF Advances
<1>6. QED
  BY <1>0, <1>2, <1>4, <1>5 DEF LoopInv

(* A new call starts with everything to settle.                            *)
LEMMA CallKeeps ==
  ASSUME LoopInv, NEW t \in Tasks, Call(t)
  PROVE  /\ LoopInv'
         /\ Reaches(t, "limit", todo'[t], outcome[t])
<1>0. ControlType /\ FateType /\ counted \in [Tasks -> Nat]
  BY DEF LoopInv
<1>1. PICK items \in Payloads(t) :
         SendNext(t, <<items>>) /\ whole' = [whole EXCEPT ![t] = items]
  BY DEF Call
<1>2. /\ items \in SUBSET Items
      /\ Role[t] = "batch" => items # {}
      /\ Role[t] # "batch" => items = {}
  <2>1. CASE Role[t] = "batch"
    <3>1. PICK n \in 1..BatchSize : items = 1..n
      BY <1>1, <2>1 DEF Payloads
    <3>2. 1 \in 1..n /\ 1..n \in SUBSET Items
      BY TransportAssumption DEF Items
    <3>3. QED
      BY <2>1, <3>1, <3>2
  <2>2. CASE Role[t] # "batch"
    BY <1>1, <2>2 DEF Payloads
  <2>3. QED
    BY <2>1, <2>2
<1>3. <<items>> \in Lots /\ <<items>> # <<>> /\ Left(<<items>>) = items
  BY <1>2, LeftOne
<1>4. Reaches(t, "limit", <<items>>, outcome[t])
  BY <1>0, <1>1, <1>3, MovesReach
<1>5. ControlType' /\ FateType' /\ counted' \in [Tasks -> Nat]
  BY <1>0, <1>1, <1>2, <1>4 DEF Call, Reaches, FateType
<1>6. /\ whole'[t] = items /\ taken'[t] = {} /\ refused'[t] = {}
      /\ \A u \in Tasks \ {t} :
            whole'[u] = whole[u] /\ taken'[u] = taken[u] /\ refused'[u] = refused[u]
  BY <1>0, <1>1 DEF Call, FateType
<1>7. ASSUME NEW u \in Tasks, u # t PROVE LoopSound(u)'
  <2>1. tpc'[u] = tpc[u] /\ todo'[u] = todo[u] /\ attempt'[u] = attempt[u] /\ outcome'[u] = outcome[u]
    BY <1>4, <1>7 DEF Reaches
  <2>2. LoopSound(u)
    BY DEF LoopInv
  <2>3. QED
    BY <1>6, <1>7, <2>1, <2>2 DEF LoopSound, Left
<1>8. LoopSound(t)'
  <2>1. tpc'[t] = "limit" /\ todo'[t] = <<items>> /\ "limit" \notin Trying
    BY <1>4 DEF Reaches, Trying
  <2>2. Left(todo'[t]) = items /\ todo'[t] # <<>>
    BY <1>3, <2>1
  <2>3. \A i \in DOMAIN todo'[t] : todo'[t][i] = items
    BY <2>1
  <2>4. QED
    BY <1>2, <1>6, <2>1, <2>2, <2>3 DEF LoopSound, Left
<1>9. QED
  BY <1>4, <1>5, <1>7, <1>8 DEF LoopInv, Reaches

(* Time wears down sleeps and nothing else of a loop.                      *)
LEMMA TickLoops ==
  ASSUME LoopInv, Tick
  PROVE  LoopInv'
<1>1. wait' \in [Tasks -> Pause]
  <2>1. \A n \in Pause : (IF n > 0 THEN n - 1 ELSE 0) \in Pause
    BY TransportAssumption, LimiterAssumption DEF Pause
  <2>2. QED
    BY <2>1 DEF LoopInv, ControlType, Tick
<1>2. UNCHANGED <<tpc, todo, attempt, outcome, counted, whole, taken, refused>>
  BY DEF Tick
<1>3. \A t \in Tasks : LoopSound(t)'
  BY <1>2 DEF LoopInv, LoopSound, Left
<1>4. ControlType' /\ FateType' /\ counted' \in [Tasks -> Nat]
  BY <1>1, <1>2 DEF LoopInv, ControlType, FateType
<1>5. QED
  BY <1>3, <1>4 DEF LoopInv

(* Every step keeps every loop sound.                                      *)
LEMMA StepLoops == LoopInv /\ calls \in Seq(0..Window) /\ [Next]_vars => LoopInv'
<1> SUFFICES ASSUME LoopInv, calls \in Seq(0..Window), [Next]_vars PROVE LoopInv'
  OBVIOUS
<1>1. CASE UNCHANGED vars
  BY <1>1 DEF LoopInv, ControlType, FateType, LoopSound, Left
<1>2. CASE Tick
  BY <1>2, TickLoops
<1>3. ASSUME NEW t \in Tasks, Call(t) PROVE LoopInv'
  BY <1>3, CallKeeps
<1>4. ASSUME NEW t \in Tasks, Answer(t) PROVE LoopInv'
  BY <1>4, AnswerAdvances, AdvancesKeeps
<1>5. ASSUME NEW t \in Tasks,
             LoopExits(t) \/ Acquire(t) \/ Blocked(t) \/ SleepRetryAfter(t)
               \/ Admit(t) \/ Refuse(t) \/ Wake(t)
      PROVE  LoopInv'
  BY <1>5, GateAdvances, AdvancesKeeps
<1>6. QED
  BY <1>1, <1>2, <1>3, <1>4, <1>5 DEF Next, Step

(* No call is under way at first.                                          *)
LEMMA InitLoops == Init => LoopInv
<1> SUFFICES ASSUME Init PROVE LoopInv
  OBVIOUS
<1>1. ControlType /\ FateType /\ counted \in [Tasks -> Nat]
  <2>1. 0 \in Pause /\ 0 \in 0..Attempts /\ <<>> \in Lots
    BY TransportAssumption, LimiterAssumption DEF Pause, Lots
  <2>2. QED
    BY <2>1 DEF Init, ControlType, FateType, Place
<1>2. \A t \in Tasks : /\ tpc[t] = "idle" /\ todo[t] = <<>> /\ outcome[t] = "none"
                       /\ whole[t] = {}
  BY DEF Init
<1>3. \A t \in Tasks : LoopSound(t)
  BY <1>2 DEF LoopSound, Trying
<1>4. QED
  BY <1>1, <1>3 DEF LoopInv

-----------------------------------------------------------------------------
(* Every variable of the transport keeps its type: an attempt is never     *)
(* used up twice, no sleep outlasts the caps on backoff, Retry-After and   *)
(* the limiter's window, what a split call sends are items of its batch,   *)
(* and the limiter's list holds ages within the window.                    *)
THEOREM TransportTypes == Spec => []TypeOK
<1>1. LoopInv => TransportType
  BY DEF LoopInv, ControlType, FateType, TransportType, Lots
<1>2. LimiterInv => LimiterType
  <2> SUFFICES ASSUME LimiterInv PROVE LimiterType
    OBVIOUS
  <2>1. Aged(calls) /\ Aged(admitted) /\ \A i \in 1..Len(admitted) : InWindow(admitted[i])
    BY RecentAged DEF LimiterInv
  <2>2. /\ admitted \in Seq(0..Window) /\ Len(admitted) \in Nat
        /\ \A i \in 1..Len(admitted) : admitted[i] \in 0..Window
    BY <2>1, LenProperties, ElementOfSeq DEF Aged
  <2>3. \A i \in 1..Len(admitted) : admitted[i] \in 0..(Window - 1)
    BY <2>1, <2>2, LimiterAssumption DEF InWindow
  <2>4. admitted = [i \in 1..Len(admitted) |-> admitted[i]]
    BY <2>2, LenProperties
  <2>5. admitted \in [1..Len(admitted) -> 0..(Window - 1)]
    BY <2>3, <2>4
  <2>6. \A S, f : f \in [1..Len(admitted) -> S] => f \in Seq(S)
    BY <2>2, SeqDef
  <2>7. QED
    BY <2>1, <2>5, <2>6 DEF LimiterType, Aged
<1>3. BreakerInv => BreakerType
  BY DEF BreakerInv
<1>4. LimiterInv => calls \in Seq(0..Window)
  BY DEF LimiterInv, Aged
<1>5. TransportType /\ BreakerType /\ LimiterType => TypeOK
  BY DEF TypeOK
<1>6. QED
  BY <1>1, <1>2, <1>3, <1>4, <1>5, InitKeeps, StepKeeps, InitLimited, StepLimited,
     InitLoops, StepLoops, PTL DEF Spec

(* What a flush concludes from the outcome of send_batch is true: a        *)
(* confirmed batch, split or not, has no item left that the server neither *)
(* took nor refused for good, whatever was retried on the way.             *)
THEOREM OutcomesHonest == Spec => []SendContract
<1>1. LoopInv => SendContract
  BY DEF LoopInv, LoopSound, SendContract, Left
<1>2. LimiterInv => calls \in Seq(0..Window)
  BY DEF LimiterInv, Aged
<1>3. QED
  BY <1>1, <1>2, InitLimited, StepLimited, InitLoops, StepLoops, PTL DEF Spec

-----------------------------------------------------------------------------
(* The refinement of SendCall.                                             *)

(* A step of a call under way is work on it or its return.                 *)
LEMMA AdvancesPromised ==
  ASSUME LoopInv, LoopInv', NEW t \in Tasks, NEW got, NEW out, Advances(t, got, out)
  PROVE  Contract!Work(t) \/ Contract!Return(t)
<1> DEFINE busy == [u \in Tasks |-> tpc[u] # "idle"]
<1>1. Contract!Progress(t)
  <2>1. Left(todo[t]) \in SUBSET whole[t] /\ tpc[t] # "idle"
    BY DEF Advances, LoopInv, LoopSound
  <2>2. /\ got \in SUBSET whole[t] /\ out \in SUBSET whole[t] /\ whole' = whole
        /\ taken' = [taken EXCEPT ![t] = @ \cup got]
        /\ refused' = [refused EXCEPT ![t] = @ \cup out]
    BY <2>1 DEF Advances, Settles
  <2>3. QED
    BY <2>1, <2>2 DEF Contract!Progress
<1>2. /\ outcome \in [Tasks -> {"none", "accepted", "permanent", "failed", "malformed"}]
      /\ outcome' \in [Tasks -> {"none", "accepted", "permanent", "failed", "malformed"}]
      /\ tpc[t] # "idle"
  BY DEF LoopInv, ControlType, Advances
<1>3. ASSUME NEW place \in Place \ {"idle"}, Reaches(t, place, todo'[t], outcome[t])
      PROVE  Contract!Work(t)
  <2>1. \A u \in Tasks : outcome'[u] = outcome[u] /\ (tpc'[u] # "idle" <=> tpc[u] # "idle")
    BY <1>2, <1>3 DEF Reaches
  <2>2. outcome' = outcome
    BY <1>2, <2>1
  <2>3. busy' = busy
    BY <2>1
  <2>4. QED
    BY <1>1, <2>2, <2>3 DEF Contract!Work
<1>4. ASSUME NEW result \in {"accepted", "permanent", "failed", "malformed"},
             Reaches(t, "idle", <<>>, result)
      PROVE  Contract!Return(t)
  <2>1. /\ outcome'[t] = result /\ tpc'[t] = "idle"
        /\ \A u \in Tasks \ {t} : outcome'[u] = outcome[u] /\ tpc'[u] = tpc[u]
    BY <1>4 DEF Reaches
  <2>2. outcome' = [outcome EXCEPT ![t] = result]
    BY <1>2, <2>1
  <2>3. busy' = [busy EXCEPT ![t] = FALSE]
    BY <2>1
  <2>4. result \in {"accepted", "permanent"} => whole[t] = taken'[t] \cup refused'[t]
    <3>1. LoopSound(t)' /\ whole' = whole
      BY <1>1 DEF LoopInv, Contract!Progress
    <3>2. QED
      BY <2>1, <3>1 DEF LoopSound
  <2>5. result \in Contract!Results
    BY DEF Contract!Results, Contract!Confirming
  <2>6. QED
    BY <1>1, <2>2, <2>3, <2>4, <2>5 DEF Contract!Return, Contract!Confirming
<1>5. QED
  BY <1>3, <1>4 DEF Advances

(* A call of the transport begins as one of the contract.                  *)
LEMMA CallPromised ==
  ASSUME LoopInv, NEW t \in Tasks, Call(t)
  PROVE  Contract!Begin(t)
<1> DEFINE busy == [u \in Tasks |-> tpc[u] # "idle"]
<1>1. /\ tpc'[t] = "limit" /\ tpc[t] = "idle"
      /\ \A u \in Tasks \ {t} : tpc'[u] = tpc[u]
  BY CallKeeps DEF Reaches, Call
<1>2. ~busy[t] /\ busy' = [busy EXCEPT ![t] = TRUE]
  BY <1>1
<1>3. \E batch \in UNION {Payloads(u) : u \in Tasks} : whole' = [whole EXCEPT ![t] = batch]
  BY DEF Call
<1>4. /\ taken' = [taken EXCEPT ![t] = {}] /\ refused' = [refused EXCEPT ![t] = {}]
      /\ outcome' = outcome
  BY DEF Call, SendNext
<1>5. QED
  BY <1>2, <1>3, <1>4 DEF Contract!Begin

(* Retries, halving, waiting and the sharing of breaker and limiter are    *)
(* invisible to the caller: every call of the transport is one SendCall.   *)
THEOREM SendImplementsContract == Spec => SendsAsPromised
<1>1. Init => Contract!Init
  BY DEF Init, Contract!Init
<1>2. LoopInv /\ LoopInv' /\ calls \in Seq(0..Window) /\ [Next]_vars
         => [Contract!Next]_(Contract!vars)
  <2> SUFFICES ASSUME LoopInv, LoopInv', calls \in Seq(0..Window), [Next]_vars
               PROVE  [Contract!Next]_(Contract!vars)
    OBVIOUS
  <2>1. CASE UNCHANGED vars \/ Tick
    BY <2>1 DEF Contract!vars, Tick
  <2>2. ASSUME NEW t \in Tasks, Call(t) PROVE Contract!Next
    BY <2>2, CallPromised DEF Contract!Next
  <2>3. ASSUME NEW t \in Tasks, Answer(t) PROVE Contract!Next
    BY <2>3, AnswerAdvances, AdvancesPromised DEF Contract!Next
  <2>4. ASSUME NEW t \in Tasks,
               LoopExits(t) \/ Acquire(t) \/ Blocked(t) \/ SleepRetryAfter(t)
                 \/ Admit(t) \/ Refuse(t) \/ Wake(t)
        PROVE  Contract!Next
    BY <2>4, GateAdvances, AdvancesPromised DEF Contract!Next
  <2>5. QED
    BY <2>1, <2>2, <2>3, <2>4 DEF Next, Step
<1>3. LimiterInv => calls \in Seq(0..Window)
  BY DEF LimiterInv, Aged
<1>4. QED
  BY <1>1, <1>2, <1>3, InitLimited, StepLimited, InitLoops, StepLoops, PTL
     DEF Spec, SendsAsPromised, Contract!Spec
=============================================================================
