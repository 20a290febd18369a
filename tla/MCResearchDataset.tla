-------------------------- MODULE MCResearchDataset --------------------------
(* Constant values of the TLC runs of ResearchDataset. *)
EXTENDS ResearchDataset, TLC

Plain == [id |-> 0, family |-> "observation", lag |-> 0, pair |-> None, price |-> None,
          liquidity |-> None, value |-> None]
Admitted == [Plain EXCEPT !.id = 1, !.family = "lifecycle", !.value = "NEW"]
Cheap == [Plain EXCEPT !.id = 2, !.pair = 1, !.price = 1, !.liquidity = 5]
Dear == [Plain EXCEPT !.id = 3, !.pair = 1, !.price = 2, !.liquidity = 1]
Other == [Plain EXCEPT !.id = 3, !.pair = 2, !.price = 1, !.liquidity = 3]
Tiered == [Plain EXCEPT !.id = 3, !.family = "tier", !.lag = -1]

\* After the admission and a price, one of: another price of the pair, another pair, a tier,
\* which the identity of a dataset does not cover.
mcTemplate == {Admitted, Cheap, Dear, Other, Tiered}
mcLookbackTolerance(h) == 1
mcLabelTolerance(h) == 1
mcGapAllowed(h) == 1
mcHashed == Family \ {"candidate", "tier", "selective"}
Builders == Permutations(Builder)
mcScope == {[start |-> 0, end |-> 5]}
mcNoWindows == <<>>
mcWindows ==
  <<[start |-> 0, end |-> 2, label_end |-> 2], [start |-> 2, end |-> 4, label_end |-> 4]>>
=============================================================================
