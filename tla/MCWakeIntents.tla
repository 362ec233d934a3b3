----------------------------- MODULE MCWakeIntents -----------------------------
(* Instances of WakeIntents for TLC.                                          *)
EXTENDS WakeIntents, TLC

CONSTANTS i1, i2, i3, s1, s2, s3, c1, c2

MCTwoIds == {i1, i2}
MCThreeIds == {i1, i2, i3}
MCTwoSources == {s1, s2}
MCThreeSources == {s1, s2, s3}
MCCallers == {c1, c2}

\* Identifiers and sources are only ever compared for equality.
MCSymmetry == Permutations(MCThreeIds) \cup Permutations(MCThreeSources) \cup Permutations(MCCallers)
=============================================================================
