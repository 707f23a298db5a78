------------------------------ MODULE MCRAMCache ------------------------------
(* A small instance of RAMCache for TLC. *)
EXTENDS RAMCache

CONSTANTS small, large, l1, l2, q1, q2

(* Bodies of one and three bytes against limits of two, four and, the last *)
(* wrapping to a negative number, eight bytes.                             *)
MCBodies == {small, large}
MCSizeOf == [b \in MCBodies |-> IF b = small THEN 1 ELSE 3]

(* No definition or property tells one link, or one query, from another.   *)
Symmetry == Permutations({l1, l2}) \cup Permutations({q1, q2})
=============================================================================
