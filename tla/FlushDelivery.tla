--------------------------- MODULE FlushDelivery ---------------------------
(* FlushPipeline implements Delivery.  The agent holds what is stored, and *)
(* what is buffered or in a batch.                                         *)
EXTENDS FlushPipeline

Held(k) == store[k] \cup InMemory(k)

Promise == INSTANCE Delivery WITH
    held <- [k \in Kind |-> Held(k)],
    boots <- used["crashes"]

(* The pipeline keeps the promise of at-least-once delivery: through       *)
(* drains, lost answers, requeues, evictions, crashes and reloads, every   *)
(* step of agent.rs on its queues and its store is a step, or none, of     *)
(* Delivery.                                                               *)
AtLeastOnce == Promise!Spec
=============================================================================
