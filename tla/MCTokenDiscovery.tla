-------------------------- MODULE MCTokenDiscovery --------------------------
(* Constant values of the TLC runs of TokenDiscovery. *)
EXTENDS TokenDiscovery
=============================================================================
