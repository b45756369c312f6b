------------------------------ MODULE MCPublisher -----------------------------
(* Small instances of Publisher for TLC.                                   *)
EXTENDS Publisher, TLC

CONSTANTS p1, p2, c1, c2, A, B

Symmetry == Permutations({p1, p2}) \cup Permutations({A, B})
=============================================================================
