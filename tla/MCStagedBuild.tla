--------------------------- MODULE MCStagedBuild ----------------------------
(***************************************************************************)
(* An instance of StagedBuild for TLC: two invocations, one output name.   *)
(***************************************************************************)
EXTENDS StagedBuild, TLC

CONSTANTS A, B, N

TwoRuns == {A, B}
OneName == {N}
Symmetry == Permutations(TwoRuns)
=============================================================================
