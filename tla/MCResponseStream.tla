-------------------------- MODULE MCResponseStream ---------------------------
(* Small instances of ResponseStream for TLC.                               *)
EXTENDS ResponseStream, TLC

CONSTANTS c1, c2

=============================================================================
