----------------------------- MODULE TransportMC -----------------------------
(* Instances of Transport for TLC: b1 sends batches, s1 pushes the status, *)
(* r1 fetches the rules.                                                   *)
EXTENDS TransportSend

CONSTANTS b1, s1, r1

AllRoles ==
    [t \in Tasks |-> CASE t = r1 -> "rules" [] t = s1 -> "status" [] OTHER -> "batch"]
=============================================================================
