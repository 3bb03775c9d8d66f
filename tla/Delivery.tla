------------------------------ MODULE Delivery ------------------------------
(***************************************************************************)
(* What the agent promises about the records it accepts, without queues,   *)
(* flushes, retries or a store: at-least-once delivery.  The agent holds a *)
(* record from its acceptance until it is settled, delivered to the server *)
(* or discarded by a documented rule.  Only a crash takes a record it      *)
(* still owes from it, and only one whose durability was never promised or *)
(* has expired.  A record it no longer holds never comes back.             *)
(***************************************************************************)
EXTENDS Naturals

CONSTANT Kind

VARIABLES
    accepted,               \* records are numbered in acceptance order
    held,                   \* those the agent still has, anywhere
    volatile,               \* those without a promise of durability
    delivered, discarded,   \* what became of them; a record may be both
    boots                   \* crashes so far

vars == <<accepted, held, volatile, delivered, discarded, boots>>

None == [k \in Kind |-> {}]

Init ==
    /\ accepted = [k \in Kind |-> 0]
    /\ held = None /\ volatile = None /\ delivered = None /\ discarded = None
    /\ boots = 0

Accept(k) ==
    LET n == accepted[k] + 1 IN
    /\ accepted' = [accepted EXCEPT ![k] = n]
    /\ held' = [held EXCEPT ![k] = @ \cup {n}]
    /\ volatile' \in {volatile, [volatile EXCEPT ![k] = @ \cup {n}]}
    /\ UNCHANGED <<delivered, discarded, boots>>

(* Held records are delivered, once more perhaps, or discarded; settled    *)
(* ones may be let go of.                                                  *)
Settle(k) ==
    /\ \E got, out \in SUBSET held[k] :
          /\ delivered' = [delivered EXCEPT ![k] = @ \cup got]
          /\ discarded' = [discarded EXCEPT ![k] = @ \cup out]
    /\ \E gone \in SUBSET (held[k] \cap (delivered'[k] \cup discarded'[k])) :
          held' = [held EXCEPT ![k] = @ \ gone]
    /\ UNCHANGED <<accepted, volatile, boots>>

(* A durable copy outlives its TTL; it may have been the only one.         *)
Expire(k) ==
    \E n \in held[k] :
        /\ volatile' = [volatile EXCEPT ![k] = @ \cup {n}]
        /\ held' \in {held, [held EXCEPT ![k] = @ \ {n}]}
        /\ UNCHANGED <<accepted, delivered, discarded, boots>>

(* The embedding program throws away everything accepted so far.           *)
Clear ==
    /\ discarded' = [k \in Kind |-> discarded[k] \cup 1..accepted[k]]
    /\ \E gone \in [Kind -> SUBSET UNION {held[k] : k \in Kind}] :
          held' = [k \in Kind |-> held[k] \ gone[k]]
    /\ UNCHANGED <<accepted, volatile, delivered, boots>>

(* The process dies and takes settled records and volatile ones with it.   *)
Crash ==
    /\ boots' = boots + 1
    /\ \A k \in Kind : /\ held'[k] \subseteq held[k]
                       /\ held[k] \ held'[k] \subseteq
                             volatile[k] \cup delivered[k] \cup discarded[k]
    /\ UNCHANGED <<accepted, volatile, delivered, discarded>>

Next ==
    \/ \E k \in Kind : Accept(k) \/ Settle(k) \/ Expire(k)
    \/ Clear \/ Crash

Spec == Init /\ [][Next]_vars
=============================================================================
