------------------------------- MODULE MCBundle -------------------------------
(* A small instance of Bundle for TLC.                                     *)
EXTENDS Bundle, TLC

CONSTANTS r1, r2

Symmetry == Permutations(Readers)
=============================================================================
