------------------------------ MODULE MCTurnChain ------------------------------
(* Small instances of TurnChain for TLC.                                    *)
EXTENDS TurnChain

(* Signatures are only compared.                                            *)
Symmetry == Permutations(Signatures)
=============================================================================
