--------------------------- MODULE TransportSend ---------------------------
(* Transport implements SendCall.                                          *)
EXTENDS Transport

Contract == INSTANCE SendCall WITH
    Batches <- UNION {Payloads(t) : t \in Tasks},
    busy <- [t \in Tasks |-> tpc[t] # "idle"],
    items <- whole

(* A call of the transport, with its retries, its halving and the tasks it *)
(* shares breaker and limiter with, is one SendCall: no interleaving makes *)
(* transport.rs confirm a batch of which an item was neither taken nor     *)
(* refused, change an outcome it has returned, or send what is not in the  *)
(* batch.                                                                  *)
SendsAsPromised == Contract!Spec
=============================================================================
