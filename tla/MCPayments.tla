----------------------------- MODULE MCPayments -----------------------------
(***************************************************************************)
(* Model-checking instance of Payments: requests, orders and payments are  *)
(* interchangeable.                                                        *)
(***************************************************************************)
EXTENDS Payments, TLC

Symmetry == Permutations(Calls) \cup Permutations(OrderIds) \cup Permutations(Invoices)
=============================================================================
