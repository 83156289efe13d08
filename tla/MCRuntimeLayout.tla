---------------------------- MODULE MCRuntimeLayout ----------------------------
(* Small instances of RuntimeLayout for TLC.                                *)
EXTENDS RuntimeLayout, TLC

CONSTANTS p1, p2, p3

Symmetry == Permutations(Procs)
=============================================================================
