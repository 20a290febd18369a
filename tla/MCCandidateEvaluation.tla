------------------------ MODULE MCCandidateEvaluation ------------------------
(* Constant values of the TLC runs of CandidateEvaluation. *)
EXTENDS CandidateEvaluation, TLC

\* A token that may go to deep review, next to one that is new, covered or like it.
mcStanding == {<<0, 2>>, <<1, 2>>, <<2, 2>>}
=============================================================================
