------------------------------- MODULE MCWsPool -------------------------------
(* Small instances of WsPool for TLC.                                       *)
EXTENDS WsPool

CONSTANTS r1, r2
=============================================================================
