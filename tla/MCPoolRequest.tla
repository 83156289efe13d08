---------------------------- MODULE MCPoolRequest ----------------------------
(* Small instances of PoolRequest for TLC.                                   *)
EXTENDS PoolRequest, TLC

CONSTANTS r1, r2

MCPair == <<"main", "a">>
RequestSymmetry == Permutations({r1, r2})
=============================================================================
