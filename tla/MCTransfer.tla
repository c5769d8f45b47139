----------------------------- MODULE MCTransfer -----------------------------
(***************************************************************************)
(* Model-checking instance of Transfer: callers and transfers are          *)
(* interchangeable.                                                        *)
(***************************************************************************)
EXTENDS Transfer, TLC

Symmetry == Permutations(Callers) \cup Permutations(Transfers)
=============================================================================
