---------------------------- MODULE MCAuthorizer ----------------------------
(* Authorizer on small instances. *)
EXTENDS Authorizer, TLC

CONSTANTS u1, u2, p1, p2, admin, r1, r2, a1, a2

(* The migrations grant the role what it needs. *)
SeedRole == {<<admin, p1>>}

Symmetry == Permutations(Reqs) \cup Permutations(Admins)
=============================================================================
