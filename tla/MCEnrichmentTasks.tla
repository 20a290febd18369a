-------------------------- MODULE MCEnrichmentTasks --------------------------
(* Constant values of the TLC runs of EnrichmentTasks. *)
EXTENDS EnrichmentTasks, TLC

TradersOnly == [t \in Task |-> "TRADER_DISTRIBUTION"]
TradersAndWallets ==
  [t \in Task |-> IF t = 1 THEN "TRADER_DISTRIBUTION" ELSE "WALLET_CLUSTER_ANALYSIS"]
TradersAndHolders ==
  [t \in Task |-> IF t = 1 THEN "TRADER_DISTRIBUTION" ELSE "HOLDER_SNAPSHOT"]

AmpleClasses == [type \in AnalysisType |-> 4]
OnePerClass == [type \in AnalysisType |-> 1]

Symmetry == Permutations(Worker)
=============================================================================
