---------------------------- MODULE MCLlamaPool -----------------------------
(***************************************************************************)
(* Model-checking instance of LlamaPool.  No symmetry: liveness.           *)
(***************************************************************************)
EXTENDS LlamaPool
=============================================================================
