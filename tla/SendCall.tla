------------------------------ MODULE SendCall ------------------------------
(***************************************************************************)
(* What a caller of the transport may rely on, without retry loop,         *)
(* breaker, limiter or halving: a call gets a batch of items, the server   *)
(* takes or refuses some of them, and the call returns an outcome.  An     *)
(* outcome that lets the caller forget the batch is returned only when     *)
(* nothing of it is left.  FlushPipeline's SendAccepted, SendPermanentDrop *)
(* and SendFailed are this contract seen from the flush.                   *)
(***************************************************************************)
CONSTANTS Tasks, Batches

VARIABLES busy, items, taken, refused, outcome

vars == <<busy, items, taken, refused, outcome>>

Confirming == {"accepted", "permanent"}
Results == Confirming \cup {"failed", "malformed"}

Init ==
    /\ busy = [t \in Tasks |-> FALSE]
    /\ items = [t \in Tasks |-> {}]
    /\ taken = [t \in Tasks |-> {}]
    /\ refused = [t \in Tasks |-> {}]
    /\ outcome = [t \in Tasks |-> "none"]

Begin(t) ==
    /\ ~busy[t]
    /\ busy' = [busy EXCEPT ![t] = TRUE]
    /\ \E batch \in Batches : items' = [items EXCEPT ![t] = batch]
    /\ taken' = [taken EXCEPT ![t] = {}]
    /\ refused' = [refused EXCEPT ![t] = {}]
    /\ UNCHANGED outcome

(* The server answers: more of the batch is taken, or refused for good.    *)
Progress(t) ==
    /\ busy[t]
    /\ \E got, out \in SUBSET items[t] :
          /\ taken' = [taken EXCEPT ![t] = @ \cup got]
          /\ refused' = [refused EXCEPT ![t] = @ \cup out]
    /\ UNCHANGED items

Work(t) == Progress(t) /\ UNCHANGED <<busy, outcome>>

Return(t) ==
    /\ Progress(t)
    /\ busy' = [busy EXCEPT ![t] = FALSE]
    /\ \E result \in Results :
          /\ outcome' = [outcome EXCEPT ![t] = result]
          /\ result \in Confirming => items[t] = taken'[t] \cup refused'[t]

Next == \E t \in Tasks : Begin(t) \/ Work(t) \/ Return(t)

Spec == Init /\ [][Next]_vars
=============================================================================
