--------------------------- MODULE MCAuthSession ---------------------------
(* AuthSession on small instances. *)
EXTENDS AuthSession, TLC

CONSTANTS r1, r2, u1, u2

(* Tokens are generated in a fixed order, so only users and requests are   *)
(* interchangeable.                                                        *)
Symmetry == Permutations({r1, r2}) \cup Permutations({u1, u2})
=============================================================================
