---------------------------- MODULE MCAgentProcess ----------------------------
(* AgentProcess with two projects, a session in each, and two spawns. *)
EXTENDS AgentProcess, TLC

CONSTANTS s1, s2, p1, p2, h1, h2, decider, caller

MCProfileOf == [s \in Sessions |-> IF s = s1 THEN p1 ELSE p2]
HandlersAlike == Permutations({h1, h2})
=============================================================================
