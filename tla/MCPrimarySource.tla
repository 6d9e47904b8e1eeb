-------------------------- MODULE MCPrimarySource ---------------------------
(***************************************************************************)
(* Symmetry for the run of PrimarySource: it orders neither threads nor    *)
(* sources, and the run checks no liveness.                                *)
(***************************************************************************)
EXTENDS PrimarySource, TLC

Symmetric == Permutations(Savers) \cup Permutations(Sources)
==============================================================================
