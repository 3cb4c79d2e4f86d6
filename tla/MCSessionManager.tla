--------------------------- MODULE MCSessionManager ---------------------------
(* SessionManager with two sessions of one project, and another project. *)
EXTENDS SessionManager, TLC

CONSTANTS p1, p2, s1, s2

MCProfileOf == [s \in Sessions |-> p1]
SessionsAlike == Permutations(Sessions)
===============================================================================
