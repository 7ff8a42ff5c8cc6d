---------------------------- MODULE MCSystemTask ----------------------------
(* Instances of SystemTask for TLC. *)
EXTENDS SystemTask

CONSTANTS r1, r2, r3, c1
=============================================================================
