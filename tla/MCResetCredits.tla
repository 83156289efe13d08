---------------------------- MODULE MCResetCredits ----------------------------
(* Small instances of ResetCredits for TLC.                                 *)
EXTENDS ResetCredits, TLC

CONSTANTS a1, a2, a3, x, y

Symmetry == Permutations(Attempts) \cup Permutations(Accounts)
=============================================================================
