----------------------------- MODULE RateLimiter -----------------------------
(***************************************************************************)
(* The sliding-window limiter in front of every request                    *)
(* (src/src/rate_limiter.rs).  A recorded Instant is kept as its age in    *)
(* ticks, counted up to Window; `now` is read just before the lock, less   *)
(* than a tick earlier, so acquire is one step.                            *)
(***************************************************************************)
EXTENDS Naturals, Sequences

CONSTANTS
    MaxCalls,       \* calls admitted per window
    Window          \* length of the window, in ticks

ASSUME LimiterAssumption == MaxCalls \in Nat /\ Window \in Nat \ {0}

VARIABLE calls      \* ages of the recorded calls, oldest first

LimiterInit == calls = <<>>

Age(a) == IF a < Window THEN a + 1 ELSE Window

(* Mutant of InWindow: a call leaves the window one tick early.            *)
InWindowShort(a) == a + 1 < Window

InWindow(a) == a < Window

HasQuota(recent) == Len(recent) < MaxCalls

(* How many calls, from the oldest on, have left the window.               *)
Expired(ages) ==
    CHOOSE n \in 0..Len(ages) : \A i \in DOMAIN ages : InWindow(ages[i]) <=> i > n

(* retain(): the list is in the order of its instants, so what stays is    *)
(* its end.                                                                *)
Recent(ages) == SubSeq(ages, Expired(ages) + 1, Len(ages))

(* acquire(): old calls are purged whatever the answer, and an admitted    *)
(* call is recorded.                                                       *)
AcquireSlot == HasQuota(Recent(calls)) /\ calls' = Append(Recent(calls), 0)

AcquireBlocked == ~HasQuota(Recent(calls)) /\ calls' = Recent(calls)

(* retry_after(): until the oldest recorded call leaves the window.        *)
RetryAfter == IF calls = <<>> THEN 0 ELSE Window - Head(calls)

LimiterTick == calls' = [i \in DOMAIN calls |-> Age(calls[i])]
=============================================================================
