---------------------------- MODULE RulesCacheMC ----------------------------
(* An instance of RulesCache for TLC: documents with different ttls.       *)
EXTENDS RulesCache

Ttls == [v \in Version |-> CASE v = 1 -> 2 [] v = 2 -> 0 [] OTHER -> 1]
=============================================================================
