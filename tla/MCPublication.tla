---------------------------- MODULE MCPublication ----------------------------
(***************************************************************************)
(* Model-checking instance of Publication: workers, paths and row ids are  *)
(* interchangeable, so TLC may take them up to permutation.                *)
(***************************************************************************)
EXTENDS Publication, TLC

Symmetry == Permutations(Workers) \cup Permutations(Paths)
              \cup Permutations(FileIds)
=============================================================================
