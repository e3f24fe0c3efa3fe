----------------------------- MODULE MCAgentLimit -----------------------------
(***************************************************************************)
(* AgentLimit on small instances: one agent, and a time to live that one   *)
(* edit shortens.                                                          *)
(***************************************************************************)
EXTENDS AgentLimit, TLC

OneAgent == [c \in Call |-> CHOOSE a \in Agent : TRUE]
Shortened == (0 :> 2) @@ (1 :> 1)
Symmetry == Permutations(Call)
=============================================================================
