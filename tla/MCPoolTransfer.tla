--------------------------- MODULE MCPoolTransfer ---------------------------
(* A small instance of PoolTransfer for TLC.  Accounts are interchangeable, *)
(* so the first login may as well be of the first one.                      *)
EXTENDS PoolTransfer, TLC

CONSTANTS a, b, x

MCOwners == 1 :> {a} @@ 2 :> {a, b}
=============================================================================
