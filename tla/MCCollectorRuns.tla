--------------------------- MODULE MCCollectorRuns ---------------------------
(* Bounds of the TLC run of CollectorRuns.  They leave out steps of the operator, of the  *)
(* clock and of the server only, none of which is fair: what a process must do by itself  *)
(* is never cut.                                                                          *)
EXTENDS CollectorRuns

CONSTANT Operator  \* Bound: the process, of the interchangeable ones, that may run repairs

Repairing(p) == process[p].pc \in {"sampled", "reconciling"}

\* Bound: a repair names a declared epoch, and is asked for when there is a run.
RepairBounds ==
  \A p \in Process : Repairing(p) =>
    p = Operator /\ Recorded # {} /\ epoch[process[p].epoch] # "absent"

\* Bound: the first epoch is closed when the second is declared; from then on the third
\* instant and the loss of a connection are left to the behaviours of one epoch.
EpochBounds ==
  /\ epoch[1] = "closed" => epoch[2] # "absent"
  /\ epoch[2] # "absent" => clock <= 1 /\ ~lost

Bounds == RepairBounds /\ EpochBounds
=============================================================================
