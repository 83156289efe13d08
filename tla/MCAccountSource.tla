--------------------------- MODULE MCAccountSource ---------------------------
(***************************************************************************)
(* An instance of AccountSource for TLC: two accounts, no symmetry since   *)
(* one of them may be the vault's.                                         *)
(***************************************************************************)
EXTENDS AccountSource

(* OpenCode's source, which waits for refreshes and writes its readings one *)
(* behind the other, is taken a step further than Pi's.                     *)
MCEvents == [s \in Sources |-> IF s = "opencode" THEN 4 ELSE 3]
=============================================================================
