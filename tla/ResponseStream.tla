---------------------------- MODULE ResponseStream ---------------------------
(***************************************************************************)
(* streamResponsesWebSocket (ws.ts): one response streamed over a          *)
(* WebSocket, from the request frame to the single verdict the pool gets   *)
(* and the single way the host's body ends.  Frames, the socket's close    *)
(* and error events, the idle timer, the abort signal and a cancelled body *)
(* arrive in any order; handling an `error` frame awaits, so an abort can  *)
(* land in the middle of it.                                               *)
(***************************************************************************)
EXTENDS Naturals, FiniteSets

CONSTANTS
    Calls,       \* function calls the response may make
    MaxFrames    \* bound: frames the server sends before it falls silent

ASSUME FramesAssumption == MaxFrames \in Nat

VARIABLES
    started,     \* the body's start() has run
    completed,
    emitted,     \* a frame was handed to the reader
    added,       \* emittedCalls.addedItemIds
    reasoning,   \* emittedCalls.reasoningItemIds is not empty
    finished,    \* emittedCalls.finished
    other,       \* emittedCalls.other
    finalized,   \* finalizedFunctionCallIds
    listening,   \* the socket's listeners are attached
    timer,       \* the idle timer is armed
    waiting,     \* the error frame onRetryableTerminal is awaited for, or "none"
    frames,
    verdicts,    \* calls of onTerminal, onConnectionInvalid and onAbort
    chained,     \* onComplete was called: a later request may chain to it
    marked,      \* onRateLimitReached was called
    first,       \* the first-event gate: "none", "event" or "error"
    body,        \* how the host's body stream stands
    shown,       \* host: output or reasoning text is on screen
    ran          \* host: calls it has dispatched

shape  == <<added, reasoning, finished, other>>
wire   == <<listening, timer, waiting>>
outcome == <<verdicts, chained, marked, first>>
host   == <<shown, ran>>
streamVars == <<started, completed, emitted, shape, finalized, wire, frames, outcome, body, host>>

-----------------------------------------------------------------------------
(* What the reader has been given *)

outputShape ==
    IF other THEN "other"
    ELSE IF finished THEN (IF reasoning THEN "other" ELSE "finished-calls")
    ELSE IF added # {} THEN "unfinished-calls" ELSE "none"

(* Nothing the host would repeat: the response may be asked for again.      *)
Clean == outputShape \in {"none", "unfinished-calls"}

-----------------------------------------------------------------------------
(* Endings.  Each releases the listeners and the timer.                     *)

Verdict == completed' = TRUE /\ verdicts' = verdicts + 1 /\ listening' = FALSE /\ timer' = FALSE

(* An ending routed by what the reader already has.                         *)
EndByShape(clean) ==
    body' = IF Clean THEN clean
            ELSE IF outputShape = "finished-calls" THEN "closed" ELSE "terminal"

invalidateTransport(kind) ==
    IF completed
    THEN UNCHANGED <<completed, verdicts, listening, timer, chained, marked, body>>
    ELSE Verdict /\ EndByShape(kind) /\ UNCHANGED <<chained, marked>>

onFirstEvent == first' = IF first = "none" THEN "event" ELSE first

-----------------------------------------------------------------------------
(* start(), attach() *)

Attach ==
    /\ ~started
    /\ started' = TRUE
    /\ listening' = TRUE /\ timer' = TRUE
    /\ UNCHANGED <<completed, emitted, shape, finalized, waiting, frames, outcome, body, host>>

(* The signal is aborted already, or socket.send throws.                    *)
AttachFails(how) ==
    /\ ~started
    /\ started' = TRUE
    /\ Verdict
    /\ body' = how
    /\ UNCHANGED <<emitted, shape, finalized, waiting, frames, chained, marked, first, host>>

-----------------------------------------------------------------------------
(* onMessage *)

Arrives ==
    /\ listening /\ ~completed
    /\ frames < MaxFrames
    /\ frames' = frames + 1
    /\ UNCHANGED started

(* Mutant: a frame disarms the timer and does not arm it again.             *)
StopTimer == timer' = FALSE /\ UNCHANGED <<listening, waiting>>

resetIdleTimeout == timer' = TRUE /\ UNCHANGED <<listening, waiting>>

RateLimitsFrame ==
    /\ Arrives
    /\ resetIdleTimeout
    /\ UNCHANGED <<completed, emitted, shape, finalized, outcome, body, host>>

UnparsedFrame ==
    /\ Arrives
    /\ resetIdleTimeout
    /\ onFirstEvent
    /\ UNCHANGED <<completed, emitted, shape, finalized, verdicts, chained, marked, body, host>>

BinaryFrame ==
    /\ Arrives
    /\ invalidateTransport("retryable")
    /\ UNCHANGED <<emitted, shape, finalized, waiting, first, host>>

(* A frame enqueued for the reader.                                         *)
Enqueue == Arrives /\ emitted' = TRUE /\ onFirstEvent

Passes ==
    /\ Enqueue
    /\ resetIdleTimeout
    /\ UNCHANGED <<completed, verdicts, chained, marked, body>>

(* response.created, response.in_progress and the codex. envelope.          *)
LifecycleFrame == Passes /\ UNCHANGED <<shape, finalized, host>>

CallAdded(c) ==
    /\ Passes
    /\ added' = added \cup {c}
    /\ UNCHANGED <<reasoning, finished, other, finalized, host>>

CallArguments(c) ==
    /\ Passes
    /\ other' = (other \/ c \notin added)
    /\ UNCHANGED <<added, reasoning, finished, finalized, host>>

(* Mutant: a finished call is not recorded as part of the response.         *)
CallDoneUnrecorded(c) ==
    /\ Passes
    /\ finished' = TRUE /\ ran' = ran \cup {c}
    /\ UNCHANGED <<added, reasoning, other, finalized, shown>>

(* output_item.done of a whole function call: the host runs it.             *)
CallDone(c) ==
    /\ Passes
    /\ finished' = TRUE
    /\ finalized' = finalized \cup {c}
    /\ ran' = ran \cup {c}
    /\ UNCHANGED <<added, reasoning, other, shown>>

(* A done frame the host's parser drops (status, a missing field, no id at  *)
(* all), or one of a custom tool call, which the host may run.              *)
CallDonePartial(c) ==
    /\ Passes
    /\ other' = TRUE
    /\ \/ finalized' = finalized \cup {c} /\ ran' \in {ran, ran \cup {c}}
       \/ UNCHANGED <<finalized, ran>>
    /\ UNCHANGED <<added, reasoning, finished, shown>>

ReasoningAdded ==
    /\ Passes
    /\ reasoning' = TRUE
    /\ UNCHANGED <<added, finished, other, finalized, host>>

ReasoningDone ==
    /\ Passes
    /\ other' = (other \/ ~reasoning)
    /\ UNCHANGED <<added, reasoning, finished, finalized, host>>

(* Everything else: a message, text, reasoning text, an unknown frame.      *)
OutputFrame ==
    /\ Passes
    /\ other' = TRUE /\ shown' = TRUE
    /\ UNCHANGED <<added, reasoning, finished, finalized, ran>>

(* response.completed may list calls whose done frame was missed.           *)
CompletedFrame ==
    /\ Enqueue
    /\ Verdict
    /\ chained' = TRUE
    /\ body' = "closed"
    /\ \E listed \in SUBSET Calls : finalized' = finalized \cup listed
    /\ other' = TRUE
    /\ UNCHANGED <<added, reasoning, finished, waiting, marked, host>>

(* response.incomplete, or response.failed without a rate limit label.      *)
FailedFrame ==
    /\ Enqueue
    /\ Verdict
    /\ body' = "closed"
    /\ other' = TRUE
    /\ UNCHANGED <<added, reasoning, finished, finalized, waiting, chained, marked, host>>

(* response.failed that names the exhausted window: never enqueued, and     *)
(* with output on screen the turn just ends.                                *)
LimitFrame ==
    /\ Arrives
    /\ Verdict
    /\ marked' = TRUE
    /\ IF Clean THEN onFirstEvent ELSE UNCHANGED first
    /\ body' = IF Clean THEN "retryable" ELSE "closed"
    /\ UNCHANGED <<emitted, shape, finalized, waiting, chained, host>>

(* An error frame with a 429 or `usage_limit_reached` before output.        *)
AdmissionLimit ==
    /\ Arrives
    /\ Clean
    /\ Verdict
    /\ marked' = TRUE
    /\ onFirstEvent
    /\ body' = "retryable"
    /\ UNCHANGED <<emitted, shape, finalized, waiting, chained, host>>

(* Any other error frame: listeners and timer go, then onRetryableTerminal  *)
(* is awaited.                                                              *)
ErrorFrame(kind) ==
    /\ Arrives
    /\ listening' = FALSE /\ timer' = FALSE
    /\ waiting' = kind
    /\ UNCHANGED <<completed, emitted, shape, finalized, outcome, body, host>>

(* The stream ended during the await.                                       *)
AwaitOvertaken ==
    /\ waiting # "none" /\ completed
    /\ waiting' = "none"
    /\ UNCHANGED <<started, completed, emitted, shape, finalized, listening, timer, frames,
                   outcome, body, host>>

(* websocket_connection_limit_reached: the pool's callback throws.          *)
ConnectionLimit ==
    /\ waiting = "connection-limit"
    /\ waiting' = "none"
    /\ invalidateTransport("retryable")
    /\ UNCHANGED <<started, emitted, shape, finalized, frames, first, host>>

(* An error with a status outside 200..299 is surfaced with that status.    *)
WrappedError ==
    /\ waiting = "status" /\ ~completed
    /\ waiting' = "none"
    /\ Verdict
    /\ first' = IF ~emitted /\ first = "none" THEN "error" ELSE first
    /\ EndByShape("refused")
    /\ UNCHANGED <<started, emitted, shape, finalized, frames, chained, marked, host>>

(* An error without one is passed on, and the turn ends.                    *)
PlainError ==
    /\ waiting = "plain" /\ ~completed
    /\ waiting' = "none"
    /\ emitted' = TRUE /\ other' = TRUE
    /\ onFirstEvent
    /\ Verdict
    /\ body' = "closed"
    /\ UNCHANGED <<started, added, reasoning, finished, finalized, frames, chained, marked, host>>

-----------------------------------------------------------------------------
(* The socket, the timer, the caller *)

SocketEnds(kind) ==
    /\ listening
    /\ invalidateTransport(kind)
    /\ UNCHANGED <<started, emitted, shape, finalized, waiting, frames, first, host>>

IdleTimeout ==
    /\ timer /\ ~completed
    /\ invalidateTransport("retryable")
    /\ UNCHANGED <<started, emitted, shape, finalized, waiting, frames, first, host>>

(* Mutant: the abort does not look whether the stream has ended.            *)
AbortAgain ==
    /\ started
    /\ Verdict
    /\ body' = "aborted"
    /\ UNCHANGED <<started, emitted, shape, finalized, waiting, frames, chained, marked, first,
                   host>>

(* The abort signal, or the host cancelling the body.                       *)
Abort ==
    /\ started /\ ~completed
    /\ Verdict
    /\ body' = "aborted"
    /\ UNCHANGED <<started, emitted, shape, finalized, waiting, frames, chained, marked, first,
                   host>>

-----------------------------------------------------------------------------
StreamInit ==
    /\ started = FALSE /\ completed = FALSE /\ emitted = FALSE
    /\ added = {} /\ reasoning = FALSE /\ finished = FALSE /\ other = FALSE
    /\ finalized = {}
    /\ listening = FALSE /\ timer = FALSE /\ waiting = "none"
    /\ frames = 0
    /\ verdicts = 0 /\ chained = FALSE /\ marked = FALSE /\ first = "none"
    /\ body = "open" /\ shown = FALSE /\ ran = {}

ErrorKinds == {"connection-limit", "status", "plain"}

Frame ==
    \/ RateLimitsFrame \/ UnparsedFrame \/ BinaryFrame \/ LifecycleFrame
    \/ \E c \in Calls : CallAdded(c) \/ CallArguments(c) \/ CallDone(c) \/ CallDonePartial(c)
    \/ ReasoningAdded \/ ReasoningDone \/ OutputFrame
    \/ CompletedFrame \/ FailedFrame \/ LimitFrame \/ AdmissionLimit
    \/ \E kind \in ErrorKinds : ErrorFrame(kind)

Await == AwaitOvertaken \/ ConnectionLimit \/ WrappedError \/ PlainError

StreamNext ==
    \/ Attach \/ (\E how \in {"aborted", "retryable"} : AttachFails(how))
    \/ Frame \/ Await
    \/ (\E kind \in {"retryable", "oversized"} : SocketEnds(kind))
    \/ IdleTimeout \/ Abort

StreamSpec == StreamInit /\ [][StreamNext]_streamVars

(* The body is started by its constructor, an awaited callback settles, and *)
(* the timer fires when no frame resets it any more.                        *)
FairStream == StreamSpec /\ WF_streamVars(Attach) /\ WF_streamVars(Await) /\ WF_streamVars(IdleTimeout)

-----------------------------------------------------------------------------
(* Properties *)

FlagTypes ==
    /\ started \in BOOLEAN /\ completed \in BOOLEAN /\ emitted \in BOOLEAN
    /\ reasoning \in BOOLEAN /\ finished \in BOOLEAN /\ other \in BOOLEAN
    /\ listening \in BOOLEAN /\ timer \in BOOLEAN
    /\ chained \in BOOLEAN /\ marked \in BOOLEAN /\ shown \in BOOLEAN

DataTypes ==
    /\ added \subseteq Calls /\ finalized \subseteq Calls /\ ran \subseteq Calls
    /\ waiting \in ErrorKinds \cup {"none"}
    /\ frames \in 0..MaxFrames
    /\ verdicts \in Nat
    /\ first \in {"none", "event", "error"}
    /\ body \in {"open", "retryable", "refused", "oversized", "terminal", "closed", "aborted"}

(* Every variable keeps its type; the listeners and the timer are gone once *)
(* the stream has ended.                                                    *)
StreamTypeOK ==
    /\ FlagTypes /\ DataTypes
    /\ completed => ~listening /\ ~timer

(* An ending after which the host or the pool sends the request again is    *)
(* given only while the host shows nothing and has started no tool.         *)
ReplayIsSafe == body \in {"retryable", "refused", "oversized"} => ~shown /\ ran = {}

(* The pool gets one verdict per stream, when the body ends: a second one   *)
(* would free the connection under the next request.                        *)
OneVerdict ==
    /\ verdicts = IF completed THEN 1 ELSE 0
    /\ completed <=> body # "open"

(* A response the server did not complete is never chained to, and a tool   *)
(* whose call stands in a chained response is known to be in it.            *)
ChainedResponseIsWhole == chained => body = "closed" /\ ran \subseteq finalized

(* A started stream ends even when the server falls silent.                 *)
StreamEnds == <>completed

Contract == INSTANCE StreamContract
    WITH dirty <- shown \/ ran # {}, ending <- IF completed THEN body ELSE "none"

(* The stream keeps the contract StreamContract states.                     *)
KeepsContract == Contract!Spec
=============================================================================
