------------------------------ MODULE MCArchive ------------------------------
(* Constant values of the TLC runs of Archive. *)
EXTENDS Archive, TLC

\* Both facts refer to a dimension of their own.
MCDimensionOf(fact) == <<fact>>
MCDimension == {<<fact>> : fact \in Fact}
Symmetry == Permutations(Worker) \cup Permutations(Fact)
=============================================================================
