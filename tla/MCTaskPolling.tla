---------------------------- MODULE MCTaskPolling ----------------------------
(* Instances of TaskPolling for TLC. *)
EXTENDS TaskPolling, TLC

CONSTANTS t1, p1, p2, f1

Symmetry == Permutations({p1, p2})
=============================================================================
