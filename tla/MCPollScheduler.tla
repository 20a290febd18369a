--------------------------- MODULE MCPollScheduler ---------------------------
(* Constant values of the TLC runs of PollScheduler. *)
EXTENDS PollScheduler, TLC

Uniform(n) == [c \in OrdinaryClass |-> n]
OneChain == [t \in Token |-> "solana"]

\* Plans as fast as the target intervals, and plans that stretch them.
NormalPlan == {Uniform(1)}
StretchedPlan == {Uniform(3)}
TargetIntervals == Uniform(1)
PhasedIntervals == Uniform(2)

NoDigest == [t \in Token |-> 0]
OddDigest == [t \in Token |-> 1]

AllNew == [t \in Token |-> "NEW"]
AllActive == [t \in Token |-> "ACTIVE"]
OneCandidate == [t \in Token |-> IF t = 1 THEN "ACTIVE" ELSE "DORMANT"]
OneNotAdmitted == [t \in Token |-> IF t = 1 THEN "NEW" ELSE None]

NoMoves == {}
CollapseMoves ==
  {<<"NEW", "ACTIVE">>, <<"ACTIVE", "FADING">>, <<"FADING", "DORMANT">>}

Symmetry == Permutations(Worker)
=============================================================================
