---------------------------- MODULE CircuitBreaker ----------------------------
(***************************************************************************)
(* The client-side circuit breaker (src/src/circuit_breaker.rs).  Its      *)
(* three fields live under one mutex, so each method is one step.  An      *)
(* Instant is kept as its age in clock ticks, counted up to Recovery,      *)
(* beyond which no comparison tells two ages apart.                        *)
(***************************************************************************)
EXTENDS Naturals

CONSTANTS
    Threshold,      \* failures that open the circuit (at least 1)
    Recovery,       \* the recovery window, in ticks
    MaxFailures     \* where the failure counter saturates (u32::MAX)

ASSUME BreakerAssumption ==
    /\ Threshold \in Nat \ {0}
    /\ Recovery \in Nat
    /\ MaxFailures \in Nat /\ MaxFailures >= Threshold

VARIABLES failures, opened, age, halfOpen

breakerVars == <<failures, opened, age, halfOpen>>

BreakerInit == failures = 0 /\ opened = FALSE /\ age = 0 /\ halfOpen = FALSE

Closed == ~opened

(* An open circuit admits again once the recovery window has elapsed.      *)
Admits == Closed \/ age >= Recovery

(* admit() returning TRUE: past the window it moves to half-open.  When it *)
(* returns FALSE it changes nothing.                                       *)
BreakerAdmit ==
    /\ Admits
    /\ halfOpen' = IF Closed THEN halfOpen ELSE TRUE
    /\ UNCHANGED <<failures, opened, age>>

RecordSuccess == failures' = 0 /\ opened' = FALSE /\ age' = 0 /\ halfOpen' = FALSE

(* Mutants of RecordFailure: a failed probe keeps the old window; only the *)
(* failure past the threshold opens the circuit.                           *)
RecordFailureStaleWindow ==
    \/ /\ halfOpen
       /\ halfOpen' = FALSE
       /\ UNCHANGED <<failures, opened, age>>
    \/ /\ ~halfOpen
       /\ failures' = IF failures < MaxFailures THEN failures + 1 ELSE failures
       /\ opened' = (opened \/ failures' >= Threshold)
       /\ age' = IF failures' >= Threshold THEN 0 ELSE age
       /\ UNCHANGED halfOpen
RecordFailureLate ==
    \/ /\ halfOpen
       /\ halfOpen' = FALSE
       /\ opened' = TRUE
       /\ age' = 0
       /\ UNCHANGED failures
    \/ /\ ~halfOpen
       /\ failures' = IF failures < MaxFailures THEN failures + 1 ELSE failures
       /\ opened' = (opened \/ failures >= Threshold)
       /\ age' = IF failures >= Threshold THEN 0 ELSE age
       /\ UNCHANGED halfOpen

(* A failed probe reopens the circuit with a fresh window and is not       *)
(* counted; any other failure is counted and at the threshold (re)opens.   *)
RecordFailure ==
    \/ /\ halfOpen
       /\ halfOpen' = FALSE
       /\ opened' = TRUE
       /\ age' = 0
       /\ UNCHANGED failures
    \/ /\ ~halfOpen
       /\ failures' = IF failures < MaxFailures THEN failures + 1 ELSE failures
       /\ opened' = (opened \/ failures' >= Threshold)
       /\ age' = IF failures' >= Threshold THEN 0 ELSE age
       /\ UNCHANGED halfOpen

(* state(): what get_status and health_check report.                       *)
BreakerState ==
    IF Closed THEN "CLOSED" ELSE IF halfOpen \/ age >= Recovery THEN "HALF_OPEN" ELSE "OPEN"

BreakerTick ==
    /\ age' = IF opened /\ age < Recovery THEN age + 1 ELSE age
    /\ UNCHANGED <<failures, opened, halfOpen>>
=============================================================================
