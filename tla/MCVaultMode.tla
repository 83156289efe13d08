------------------------------ MODULE MCVaultMode ------------------------------
(***************************************************************************)
(* An instance of VaultMode for TLC: its bounds are numbers.               *)
(***************************************************************************)
EXTENDS VaultMode
=============================================================================
