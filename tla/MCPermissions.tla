---------------------------- MODULE MCPermissions ----------------------------
(* Permissions with two sessions and two requests for the same action. *)
EXTENDS Permissions, TLC

CONSTANTS r1, r2, s1, s2, a1

MCActionOf == [r \in Requests |-> a1]
MCSymmetry == Permutations({s1, s2}) \cup Permutations({r1, r2})
=============================================================================
