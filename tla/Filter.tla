-------------------------------- MODULE Filter --------------------------------
(* A filter of a sequence by membership in a set: SelectSeq as a recursive   *)
(* function, so that a proof can unfold it.  It is Array.prototype.filter    *)
(* wherever the modelled code keeps the accounts that pass a test, in order. *)
EXTENDS Naturals, Sequences

Only(s, S) ==
    LET kept[n \in 0 .. Len(s)] ==
            IF n = 0 THEN <<>>
            ELSE kept[n - 1] \o (IF s[n] \in S THEN <<s[n]>> ELSE <<>>)
    IN  kept[Len(s)]
=============================================================================
