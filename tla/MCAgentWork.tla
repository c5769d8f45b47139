---------------------------- MODULE MCAgentWork -----------------------------
(***************************************************************************)
(* Model-checking instance of AgentWork: agents, keys, calls and operators *)
(* are interchangeable.                                                    *)
(***************************************************************************)
EXTENDS AgentWork, TLC

Symmetry == Permutations(Agents) \cup Permutations(Keys) \cup Permutations(Calls)
              \cup Permutations(Operators)
=============================================================================
