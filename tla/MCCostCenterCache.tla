-------------------------- MODULE MCCostCenterCache --------------------------
(* An instance of CostCenterCache for TLC: cost centers and requests are alike. *)
EXTENDS CostCenterCache, TLC

Symmetric == Permutations(Procs) \cup Permutations(Centers)
=============================================================================
