--------------------------- MODULE MCUserAuthCache ---------------------------
(* Instances of UserAuthCache for TLC. *)
EXTENDS UserAuthCache, TLC

CONSTANTS r1, r2, a1, a2, p1, f1, f2, g1, g2

Symmetry == Permutations(Readers) \union Permutations(Admins)
=============================================================================
