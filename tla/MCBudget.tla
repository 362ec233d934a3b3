-------------------------------- MODULE MCBudget --------------------------------
(* An instance of Budget for TLC.                                             *)
EXTENDS Budget, TLC

CONSTANTS k1, k2, k3, k4, c1, c2

MCKeys == {k1, k2, k3, k4}
MCCallers == {c1, c2}

\* Keys and callers are only ever compared for equality.
MCSymmetry == Permutations(MCKeys) \cup Permutations(MCCallers)
=============================================================================
