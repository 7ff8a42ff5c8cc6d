---------------------------- MODULE MCUserSession ----------------------------
(* Instances of UserSession for TLC. *)
EXTENDS UserSession

CONSTANTS c1, c2, c3, n1, n2, Kinds1, Kinds2, Kinds3, Near3

MCMayDo == [c \in Calls |-> CASE c = c1 -> Kinds1 [] c = c2 -> Kinds2 [] c = c3 -> Kinds3]
MCNear  == [c \in Calls |-> IF c = c3 THEN Near3 ELSE {n1}]
=============================================================================
