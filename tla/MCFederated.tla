------------------------------ MODULE MCFederated -----------------------------
(* A small instance of Federated: two tenants share an aggregator and a      *)
(* repository, a third is not enabled.                                       *)
EXTENDS Federated, TLC

OneAggregator == [t \in Tenants |-> "averages"]
Alike == Permutations(Enabled)
OneRepository == [t \in Tenants |-> "patterns"]

==============================================================================
