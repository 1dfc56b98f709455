------------------------------ MODULE MCAccess ------------------------------
(* Instances of Access for TLC. *)
EXTENDS Access, TLC

CONSTANTS u1, u2, p1, r1, q1, q2, owner, data

\* What the migrations grant, as far as the control plane goes.
Grants == owner :> Actions @@ data :> {}

Symmetry == Permutations({u1, u2}) \cup Permutations({q1, q2})
=============================================================================
