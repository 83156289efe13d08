---------------------------- MODULE StreamContract ---------------------------
(***************************************************************************)
(* What a streamed response promises the host and the socket pool: it ends *)
(* exactly once, and an ending after which the request may be sent again   *)
(* (by the host's retry, or over HTTP by the pool) is given only while the *)
(* host has neither shown output nor started a tool.                       *)
(***************************************************************************)
VARIABLES
    dirty,     \* the host has shown output or dispatched a tool call
    ending     \* "none", or how the stream ended

Replayable == {"retryable", "refused", "oversized"}
Endings == Replayable \cup {"terminal", "closed", "aborted"}

Init == dirty = FALSE /\ ending = "none"

Show == ending = "none" /\ dirty' = TRUE /\ UNCHANGED ending

(* The last frame may itself be output: it is shown before the ending.      *)
End ==
    /\ ending = "none"
    /\ ending' \in Endings
    /\ ending' \in Replayable => ~dirty'
    /\ dirty => dirty'

Next == Show \/ End

Spec == Init /\ [][Next]_<<dirty, ending>>
=============================================================================
