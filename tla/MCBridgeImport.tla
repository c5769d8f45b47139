--------------------------- MODULE MCBridgeImport ---------------------------
(***************************************************************************)
(* Model-checking instance of BridgeImport: repositories and commits are   *)
(* interchangeable (the liveness run does not use it).                     *)
(***************************************************************************)
EXTENDS BridgeImport, TLC

Symmetry == Permutations(Repos) \cup Permutations(Commits)
=============================================================================
