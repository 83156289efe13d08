--------------------------- MODULE WebSocketProofs ----------------------------
(***************************************************************************)
(* Proofs about the WebSocket transport.  ResponseStream, for any set of   *)
(* calls and any number of frames: a stream ends once, never invites an    *)
(* unsafe replay, and so implements StreamContract.  WsPool, for any       *)
(* number of requests, entries, sockets and retries.  TurnChain, for every *)
(* bound on items, turns and crossing requests: what is sent of a          *)
(* conversation and what the server holds of it make the conversation up,  *)
(* without overlap; and the requests of a user turn that were made from    *)
(* one body carry one turn id.                                             *)
(***************************************************************************)
EXTENDS WsPool, ResponseStream, TurnChain, TLAPS, FiniteSetTheorems, SequenceTheorems

(***************************************************************************)
(* ResponseStream                                                          *)
(***************************************************************************)
(* What the shape records covers what the host has done.                    *)
ShapeCoversHost ==
    /\ shown => other
    /\ ran # {} => finished \/ other

(* Nothing has happened before the body starts.                             *)
Pristine ==
    ~started =>
        ~completed /\ ~listening /\ ~timer /\ waiting = "none" /\ ~shown /\ ran = {}

Inv == StreamTypeOK /\ OneVerdict /\ ShapeCoversHost /\ Pristine /\ ReplayIsSafe

USE FramesAssumption DEF streamVars, shape, wire, outcome, host

LEMMA InvInit == StreamInit => Inv
<1>1. StreamInit => FlagTypes
  BY Zenon DEF StreamInit, FlagTypes
<1>2. StreamInit => DataTypes
  BY DEF StreamInit, DataTypes
<1>3. StreamInit => /\ completed => ~listening /\ ~timer
              /\ OneVerdict /\ ShapeCoversHost /\ Pristine /\ ReplayIsSafe
  BY DEF StreamInit, OneVerdict, ShapeCoversHost, Pristine, ReplayIsSafe
<1> QED BY <1>1, <1>2, <1>3 DEF Inv, StreamTypeOK

(* Every step keeps the flags Boolean.                                      *)
LEMMA FlagsStep == ASSUME FlagTypes, [StreamNext]_streamVars PROVE FlagTypes'
<1> USE DEF FlagTypes
<1>1. ASSUME NEW how \in {"aborted", "retryable"}, AttachFails(how) PROVE FlagTypes'
  BY Zenon, <1>1 DEF AttachFails, Verdict
<1>2. ASSUME NEW c \in Calls, CallAdded(c) PROVE FlagTypes'
  BY Zenon, <1>2 DEF CallAdded, Passes, resetIdleTimeout, Enqueue, onFirstEvent,
     Arrives
<1>3. ASSUME NEW c \in Calls, CallArguments(c) PROVE FlagTypes'
  BY Zenon, <1>3 DEF CallArguments, Passes, resetIdleTimeout, Enqueue, onFirstEvent,
     Arrives
<1>4. ASSUME NEW c \in Calls, CallDone(c) PROVE FlagTypes'
  BY Zenon, <1>4 DEF CallDone, Passes, resetIdleTimeout, Enqueue, onFirstEvent,
     Arrives
<1>5. ASSUME NEW c \in Calls, CallDonePartial(c) PROVE FlagTypes'
  BY Zenon, <1>5 DEF CallDonePartial, Passes, resetIdleTimeout, Enqueue, onFirstEvent,
     Arrives
<1>6. ASSUME NEW kind \in ErrorKinds, ErrorFrame(kind) PROVE FlagTypes'
  BY Zenon, <1>6 DEF ErrorFrame, Arrives
<1>7. ASSUME NEW kind \in {"retryable", "oversized"}, SocketEnds(kind) PROVE FlagTypes'
  BY Zenon, <1>7 DEF SocketEnds, invalidateTransport, Verdict, EndByShape, Clean,
     outputShape
<1>8. CASE Attach
  BY Zenon, <1>8 DEF Attach
<1>9. CASE RateLimitsFrame
  BY Zenon, <1>9 DEF RateLimitsFrame, Arrives, resetIdleTimeout
<1>10. CASE UnparsedFrame
  BY Zenon, <1>10 DEF UnparsedFrame, onFirstEvent, Arrives, resetIdleTimeout
<1>11. CASE BinaryFrame
  BY Zenon, <1>11 DEF BinaryFrame, invalidateTransport, Arrives, Verdict,
     EndByShape, Clean, outputShape
<1>12. CASE LifecycleFrame
  BY Zenon, <1>12 DEF LifecycleFrame, Passes, resetIdleTimeout, Enqueue, onFirstEvent,
     Arrives
<1>13. CASE ReasoningAdded
  BY Zenon, <1>13 DEF ReasoningAdded, Passes, resetIdleTimeout, Enqueue, onFirstEvent,
     Arrives
<1>14. CASE ReasoningDone
  BY Zenon, <1>14 DEF ReasoningDone, Passes, resetIdleTimeout, Enqueue, onFirstEvent,
     Arrives
<1>15. CASE OutputFrame
  BY Zenon, <1>15 DEF OutputFrame, Passes, resetIdleTimeout, Enqueue, onFirstEvent,
     Arrives
<1>16. CASE CompletedFrame
  BY Zenon, <1>16 DEF CompletedFrame, Verdict, Enqueue, onFirstEvent, Arrives
<1>17. CASE FailedFrame
  BY Zenon, <1>17 DEF FailedFrame, Verdict, Enqueue, onFirstEvent, Arrives
<1>18. CASE LimitFrame
  BY Zenon, <1>18 DEF LimitFrame, Verdict, onFirstEvent, Arrives, Clean, outputShape
<1>19. CASE AdmissionLimit
  BY Zenon, <1>19 DEF AdmissionLimit, Verdict, onFirstEvent, Arrives, Clean,
     outputShape
<1>20. CASE AwaitOvertaken
  BY Zenon, <1>20 DEF AwaitOvertaken
<1>21. CASE ConnectionLimit
  BY Zenon, <1>21 DEF ConnectionLimit, invalidateTransport, Verdict, EndByShape,
     Clean, outputShape
<1>22. CASE WrappedError
  BY Zenon, <1>22 DEF WrappedError, Verdict, EndByShape, Clean, outputShape
<1>23. CASE PlainError
  BY Zenon, <1>23 DEF PlainError, Verdict, onFirstEvent
<1>24. CASE IdleTimeout
  BY Zenon, <1>24 DEF IdleTimeout, invalidateTransport, Verdict, EndByShape, Clean,
     outputShape
<1>25. CASE Abort
  BY Zenon, <1>25 DEF Abort, Verdict
<1>26. CASE UNCHANGED streamVars
  BY Zenon, <1>26
<1> QED
  BY <1>1, <1>2, <1>3, <1>4, <1>5, <1>6, <1>7, <1>8, <1>9, <1>10, <1>11, <1>12,
     <1>13, <1>14, <1>15, <1>16, <1>17, <1>18, <1>19, <1>20, <1>21, <1>22, <1>23,
     <1>24, <1>25, <1>26 DEF StreamNext, Frame, Await

(* Every step keeps the rest of the invariant.                              *)
LEMMA InvStep == ASSUME Inv, [StreamNext]_streamVars, FlagTypes' PROVE Inv'
<1> USE DEF Inv, StreamTypeOK, DataTypes, OneVerdict, ShapeCoversHost, Pristine,
          ReplayIsSafe, ErrorKinds
<1>1. ASSUME NEW how \in {"aborted", "retryable"}, AttachFails(how) PROVE Inv'
  BY <1>1 DEF AttachFails, Verdict
<1>2. ASSUME NEW c \in Calls, CallAdded(c) PROVE Inv'
  BY <1>2 DEF CallAdded, Passes, resetIdleTimeout, Enqueue, onFirstEvent, Arrives
<1>3. ASSUME NEW c \in Calls, CallArguments(c) PROVE Inv'
  <2>1. other => other'
    BY Zenon, <1>3 DEF CallArguments
  <2>2. Passes /\ UNCHANGED <<added, reasoning, finished, finalized, host>>
    BY <1>3 DEF CallArguments
  <2> QED
    BY <2>1, <2>2 DEF Passes, resetIdleTimeout, Enqueue, onFirstEvent, Arrives
<1>4. ASSUME NEW c \in Calls, CallDone(c) PROVE Inv'
  BY <1>4 DEF CallDone, Passes, resetIdleTimeout, Enqueue, onFirstEvent, Arrives
<1>5. ASSUME NEW c \in Calls, CallDonePartial(c) PROVE Inv'
  BY <1>5 DEF CallDonePartial, Passes, resetIdleTimeout, Enqueue, onFirstEvent,
     Arrives
<1>6. ASSUME NEW kind \in ErrorKinds, ErrorFrame(kind) PROVE Inv'
  BY <1>6 DEF ErrorFrame, Arrives
<1>7. ASSUME NEW kind \in {"retryable", "oversized"}, SocketEnds(kind) PROVE Inv'
  <2>1. ~completed
    BY <1>7 DEF SocketEnds
  <2>2. Verdict /\ EndByShape(kind)
    BY <1>7, <2>1 DEF SocketEnds, invalidateTransport
  <2>3. body' \in {"retryable", "oversized"} => Clean
    BY <2>2 DEF EndByShape
  <2>4. body' \in {"retryable", "oversized", "closed", "terminal"}
    BY <2>2 DEF EndByShape
  <2> QED
    BY <1>7, <2>1, <2>2, <2>3, <2>4
       DEF SocketEnds, invalidateTransport, Verdict, Clean, outputShape
<1>8. CASE Attach
  BY <1>8 DEF Attach
<1>9. CASE RateLimitsFrame
  BY <1>9 DEF RateLimitsFrame, Arrives, resetIdleTimeout
<1>10. CASE UnparsedFrame
  BY <1>10 DEF UnparsedFrame, onFirstEvent, Arrives, resetIdleTimeout
<1>11. CASE BinaryFrame
  BY <1>11 DEF BinaryFrame, invalidateTransport, Arrives, Verdict, EndByShape,
     Clean, outputShape
<1>12. CASE LifecycleFrame
  BY <1>12 DEF LifecycleFrame, Passes, resetIdleTimeout, Enqueue, onFirstEvent,
     Arrives
<1>13. CASE ReasoningAdded
  BY <1>13 DEF ReasoningAdded, Passes, resetIdleTimeout, Enqueue, onFirstEvent,
     Arrives
<1>14. CASE ReasoningDone
  <2>1. other => other'
    BY Zenon, <1>14 DEF ReasoningDone
  <2>2. Passes /\ UNCHANGED <<added, reasoning, finished, finalized, host>>
    BY <1>14 DEF ReasoningDone
  <2> QED
    BY <2>1, <2>2 DEF Passes, resetIdleTimeout, Enqueue, onFirstEvent, Arrives
<1>15. CASE OutputFrame
  BY <1>15 DEF OutputFrame, Passes, resetIdleTimeout, Enqueue, onFirstEvent, Arrives
<1>16. CASE CompletedFrame
  BY <1>16 DEF CompletedFrame, Verdict, Enqueue, onFirstEvent, Arrives
<1>17. CASE FailedFrame
  BY <1>17 DEF FailedFrame, Verdict, Enqueue, onFirstEvent, Arrives
<1>18. CASE LimitFrame
  BY <1>18 DEF LimitFrame, Verdict, onFirstEvent, Arrives, Clean, outputShape
<1>19. CASE AdmissionLimit
  BY <1>19 DEF AdmissionLimit, Verdict, onFirstEvent, Arrives, Clean, outputShape
<1>20. CASE AwaitOvertaken
  BY <1>20 DEF AwaitOvertaken
<1>21. CASE ConnectionLimit
  BY <1>21 DEF ConnectionLimit, invalidateTransport, Verdict, EndByShape, Clean,
     outputShape
<1>22. CASE WrappedError
  BY <1>22 DEF WrappedError, Verdict, EndByShape, Clean, outputShape
<1>23. CASE PlainError
  BY <1>23 DEF PlainError, Verdict, onFirstEvent
<1>24. CASE IdleTimeout
  BY <1>24 DEF IdleTimeout, invalidateTransport, Verdict, EndByShape, Clean,
     outputShape
<1>25. CASE Abort
  BY <1>25 DEF Abort, Verdict
<1>26. CASE UNCHANGED streamVars
  BY <1>26
<1> QED
  BY <1>1, <1>2, <1>3, <1>4, <1>5, <1>6, <1>7, <1>8, <1>9, <1>10, <1>11, <1>12,
     <1>13, <1>14, <1>15, <1>16, <1>17, <1>18, <1>19, <1>20, <1>21, <1>22, <1>23,
     <1>24, <1>25, <1>26 DEF StreamNext, Frame, Await

(* What the host has done stays done, and an ended stream does not move.     *)
LEMMA Monotone ==
  ASSUME Inv, [StreamNext]_streamVars
  PROVE  /\ shown => shown'
         /\ ran \subseteq ran'
         /\ completed => completed' /\ UNCHANGED <<body, shown, ran>>
<1> DEFINE Grows == /\ shown => shown'
                    /\ ran \subseteq ran'
                    /\ completed => completed' /\ UNCHANGED <<body, shown, ran>>
<1> USE DEF Inv, StreamTypeOK, OneVerdict, Pristine
<1>1. ASSUME NEW how \in {"aborted", "retryable"}, AttachFails(how) PROVE Grows
  BY <1>1 DEF AttachFails, Verdict
<1>2. ASSUME NEW c \in Calls, CallAdded(c) PROVE Grows
  BY <1>2 DEF CallAdded, Passes, resetIdleTimeout, Enqueue, onFirstEvent, Arrives
<1>3. ASSUME NEW c \in Calls, CallArguments(c) PROVE Grows
  BY <1>3 DEF CallArguments, Passes, resetIdleTimeout, Enqueue, onFirstEvent, Arrives
<1>4. ASSUME NEW c \in Calls, CallDone(c) PROVE Grows
  BY <1>4 DEF CallDone, Passes, resetIdleTimeout, Enqueue, onFirstEvent, Arrives
<1>5. ASSUME NEW c \in Calls, CallDonePartial(c) PROVE Grows
  BY <1>5 DEF CallDonePartial, Passes, resetIdleTimeout, Enqueue, onFirstEvent,
     Arrives
<1>6. ASSUME NEW kind \in ErrorKinds, ErrorFrame(kind) PROVE Grows
  BY <1>6 DEF ErrorFrame, Arrives
<1>7. ASSUME NEW kind \in {"retryable", "oversized"}, SocketEnds(kind) PROVE Grows
  BY <1>7 DEF SocketEnds, invalidateTransport, Verdict, EndByShape, Clean,
     outputShape
<1>8. CASE Attach
  BY <1>8 DEF Attach
<1>9. CASE RateLimitsFrame
  BY <1>9 DEF RateLimitsFrame, Arrives, resetIdleTimeout
<1>10. CASE UnparsedFrame
  BY <1>10 DEF UnparsedFrame, onFirstEvent, Arrives, resetIdleTimeout
<1>11. CASE BinaryFrame
  BY <1>11 DEF BinaryFrame, invalidateTransport, Arrives, Verdict, EndByShape,
     Clean, outputShape
<1>12. CASE LifecycleFrame
  BY <1>12 DEF LifecycleFrame, Passes, resetIdleTimeout, Enqueue, onFirstEvent,
     Arrives
<1>13. CASE ReasoningAdded
  BY <1>13 DEF ReasoningAdded, Passes, resetIdleTimeout, Enqueue, onFirstEvent,
     Arrives
<1>14. CASE ReasoningDone
  BY <1>14 DEF ReasoningDone, Passes, resetIdleTimeout, Enqueue, onFirstEvent, Arrives
<1>15. CASE OutputFrame
  BY <1>15 DEF OutputFrame, Passes, resetIdleTimeout, Enqueue, onFirstEvent, Arrives
<1>16. CASE CompletedFrame
  BY <1>16 DEF CompletedFrame, Verdict, Enqueue, onFirstEvent, Arrives
<1>17. CASE FailedFrame
  BY <1>17 DEF FailedFrame, Verdict, Enqueue, onFirstEvent, Arrives
<1>18. CASE LimitFrame
  BY <1>18 DEF LimitFrame, Verdict, onFirstEvent, Arrives, Clean, outputShape
<1>19. CASE AdmissionLimit
  BY <1>19 DEF AdmissionLimit, Verdict, onFirstEvent, Arrives, Clean, outputShape
<1>20. CASE AwaitOvertaken
  BY <1>20 DEF AwaitOvertaken
<1>21. CASE ConnectionLimit
  BY <1>21 DEF ConnectionLimit, invalidateTransport, Verdict, EndByShape, Clean,
     outputShape
<1>22. CASE WrappedError
  BY <1>22 DEF WrappedError, Verdict, EndByShape, Clean, outputShape
<1>23. CASE PlainError
  BY <1>23 DEF PlainError, Verdict, onFirstEvent
<1>24. CASE IdleTimeout
  BY <1>24 DEF IdleTimeout, invalidateTransport, Verdict, EndByShape, Clean,
     outputShape
<1>25. CASE Abort
  BY <1>25 DEF Abort, Verdict
<1>26. CASE UNCHANGED streamVars
  BY <1>26
<1> QED
  BY <1>1, <1>2, <1>3, <1>4, <1>5, <1>6, <1>7, <1>8, <1>9, <1>10, <1>11, <1>12,
     <1>13, <1>14, <1>15, <1>16, <1>17, <1>18, <1>19, <1>20, <1>21, <1>22, <1>23,
     <1>24, <1>25, <1>26 DEF StreamNext, Frame, Await

(* The invariant holds throughout.                                          *)
LEMMA Invariance == StreamSpec => []Inv
<1>1. Inv /\ [StreamNext]_streamVars => Inv'
  BY FlagsStep, InvStep DEF Inv, StreamTypeOK
<1> QED BY InvInit, <1>1, PTL DEF StreamSpec

(* Every variable keeps its type, and no listener or timer outlives the     *)
(* stream.                                                                  *)
THEOREM StreamTypeCorrect == StreamSpec => []StreamTypeOK
  BY Invariance, PTL DEF Inv

(* However frames, timers, aborts and the await interleave, the pool gets   *)
(* one verdict per stream.                                                  *)
THEOREM EndsOnce == StreamSpec => []OneVerdict
  BY Invariance, PTL DEF Inv

(* No ending invites a replay after output or a dispatched tool.            *)
THEOREM SafeReplay == StreamSpec => []ReplayIsSafe
  BY Invariance, PTL DEF Inv

(* A tool the host may have started is one the stream has recorded, and a   *)
(* chained stream has ended.                                                *)
Recorded == ran \subseteq finalized /\ (chained => completed) /\ ChainedResponseIsWhole

LEMMA RecordedStep == ASSUME Inv, Recorded, [StreamNext]_streamVars PROVE Recorded'
<1> USE DEF Recorded, ChainedResponseIsWhole
<1>1. completed => completed' /\ body' = body
  BY Monotone
<1>2. CASE CompletedFrame
  BY <1>2 DEF CompletedFrame, Verdict
<1>3. ASSUME NEW c \in Calls, CallDone(c) \/ CallDonePartial(c) PROVE Recorded'
  BY <1>3 DEF CallDone, CallDonePartial, Passes, Enqueue, Arrives
<1>4. ASSUME UNCHANGED <<ran, finalized, chained>> PROVE Recorded'
  BY <1>1, <1>4
<1>5. ASSUME NEW how \in {"aborted", "retryable"}, AttachFails(how) PROVE Recorded'
  BY <1>4, <1>5 DEF AttachFails
<1>6. ASSUME NEW c \in Calls, CallAdded(c) \/ CallArguments(c) PROVE Recorded'
  BY <1>4, <1>6 DEF CallAdded, CallArguments, Passes
<1>7. ASSUME NEW kind \in ErrorKinds, ErrorFrame(kind) PROVE Recorded'
  BY <1>4, <1>7 DEF ErrorFrame
<1>8. ASSUME NEW kind \in {"retryable", "oversized"}, SocketEnds(kind) PROVE Recorded'
  BY <1>4, <1>8 DEF SocketEnds, invalidateTransport
<1>9. CASE Attach \/ RateLimitsFrame \/ UnparsedFrame \/ BinaryFrame \/ LifecycleFrame
  BY <1>4, <1>9 DEF Attach, RateLimitsFrame, UnparsedFrame, BinaryFrame, LifecycleFrame, Passes,
     invalidateTransport
<1>10. CASE ReasoningAdded \/ ReasoningDone \/ OutputFrame
  BY <1>4, <1>10 DEF ReasoningAdded, ReasoningDone, OutputFrame, Passes
<1>11. CASE FailedFrame \/ LimitFrame \/ AdmissionLimit
  BY <1>4, <1>11 DEF FailedFrame, LimitFrame, AdmissionLimit
<1>12. CASE Await
  BY <1>4, <1>12 DEF Await, AwaitOvertaken, ConnectionLimit, invalidateTransport, WrappedError,
     PlainError
<1>13. CASE IdleTimeout \/ Abort
  BY <1>4, <1>13 DEF IdleTimeout, invalidateTransport, Abort
<1>14. CASE UNCHANGED streamVars
  BY <1>4, <1>14
<1> QED
  BY <1>2, <1>3, <1>5, <1>6, <1>7, <1>8, <1>9, <1>10, <1>11, <1>12, <1>13, <1>14
  DEF StreamNext, Frame

(* A response the server did not complete is never chained to, and a tool   *)
(* whose call stands in a chained response is known to be in it: whatever   *)
(* frames the server sends and however its close, the timer and the abort   *)
(* race them.                                                               *)
THEOREM ChainsWhole == StreamSpec => []ChainedResponseIsWhole
<1>1. StreamInit => Recorded
  BY DEF StreamInit, Recorded, ChainedResponseIsWhole
<1>2. Inv /\ Recorded /\ [StreamNext]_streamVars => Recorded'
  BY RecordedStep
<1>3. Recorded => ChainedResponseIsWhole
  BY DEF Recorded
<1> QED BY <1>1, <1>2, <1>3, Invariance, PTL DEF StreamSpec

(* The stream implements its contract.                                      *)
THEOREM ImplementsContract == StreamSpec => KeepsContract
<1>1. StreamInit => Contract!Init
  BY DEF StreamInit, Contract!Init
<1>2. ASSUME Inv, Inv', [StreamNext]_streamVars
      PROVE  [Contract!Next]_<<shown \/ ran # {}, IF completed THEN body ELSE "none">>
  <2>1. CASE completed
    <3>1. completed' /\ body' = body /\ shown' = shown /\ ran' = ran
      BY <1>2, <2>1, Monotone
    <3>2. (shown \/ ran # {})' = (shown \/ ran # {})
      BY <3>1, Zenon
    <3>3. (IF completed THEN body ELSE "none")' = (IF completed THEN body ELSE "none")
      BY <2>1, <3>1
    <3> QED BY <3>2, <3>3, Zenon
  <2>2. CASE ~completed /\ completed'
    <3>1. body' \in Contract!Endings
      BY <1>2, <2>2 DEF Inv, StreamTypeOK, DataTypes, OneVerdict, Contract!Endings,
         Contract!Replayable
    <3>2. body' \in Contract!Replayable => ~(shown' \/ ran' # {})
      BY <1>2 DEF Inv, ReplayIsSafe, Contract!Replayable
    <3>3. (shown \/ ran # {}) => (shown' \/ ran' # {})
      BY <1>2, Monotone
    <3> QED BY <2>2, <3>1, <3>2, <3>3 DEF Contract!Next, Contract!End
  <2>3. CASE ~completed /\ ~completed'
    <3>1. (shown \/ ran # {}) => (shown' \/ ran' # {})
      BY <1>2, Monotone
    <3>2. CASE shown' \/ ran' # {}
      BY <2>3, <3>2 DEF Contract!Next, Contract!Show
    <3>3. CASE ~(shown' \/ ran' # {})
      BY <2>3, <3>1, <3>3
    <3> QED BY <3>2, <3>3
  <2> QED BY <2>1, <2>2, <2>3
<1> QED BY <1>1, <1>2, Invariance, PTL DEF StreamSpec, KeepsContract, Contract!Spec

HIDE FramesAssumption DEF streamVars, shape, wire, outcome, host

(***************************************************************************)
(* WsPool                                                                  *)
(***************************************************************************)
USE PoolAssumption DEF request, pool, entry, vars

Kinds == {"lost", "oversized", "limit"}

(* Splits a step into its actions.                                          *)
LEMMA StepCases ==
    ASSUME [Next]_vars
    PROVE  \/ \E r \in Requests : Begin(r)
           \/ \E r \in Requests : ConnectsPrewarm(r) \/ ConnectsChained(r)
           \/ \E r \in Requests : ConnectFails(r)
           \/ \E r \in Requests : PrewarmStarts(r) \/ StreamStarts(r)
           \/ \E r \in Requests : PrewarmCompletes(r)
           \/ \E r \in Requests : PrewarmEnds(r)
           \/ \E r \in Requests : Ready(r)
           \/ \E r \in Requests : FirstEvent(r) \/ GraceEnds(r) \/ Delivers(r)
           \/ \E r \in Requests : StreamCompletes(r) \/ StreamRefused(r)
           \/ \E r \in Requests, kind \in Kinds : StreamInvalid(r, kind)
           \/ \E r \in Requests, limit \in BOOLEAN : StreamAborted(r, limit)
           \/ \E r \in Requests : Catch(r)
           \/ Prune \/ RemoveEntry
           \/ \E s \in Sockets : ServerCloses(s) \/ Ages(s)
           \/ UNCHANGED vars
  BY Zenon DEF Next, Proceeds, Kinds

LEMMA Unchanged ==
    ASSUME UNCHANGED vars
    PROVE  /\ pc' = pc /\ mine' = mine /\ sock' = sock /\ chain' = chain /\ failure' = failure
           /\ delivered' = delivered /\ served' = served /\ pooled' = pooled /\ made' = made
           /\ busy' = busy /\ fallback' = fallback /\ streamFailures' = streamFailures
           /\ socket' = socket /\ continuation' = continuation /\ state' = state
           /\ removals' = removals
  BY Zenon

LEMMA NoneIsNone == None \notin Entries /\ None \notin Sockets
  BY DEF None, Entries, Sockets

(* What invalidate does to the types.                                       *)
LEMMA InvalidateTypes ==
    ASSUME TypeOK, NEW e \in Entries, invalidate(e)
    PROVE  /\ socket' \in [Entries -> Sockets \cup {None}]
           /\ continuation' \in [Entries -> Sockets \cup {None}]
           /\ state' \in [Sockets -> {"unused", "open", "old", "closed"}]
  BY DEF invalidate, TypeOK

LEMMA AnswerTypes ==
    ASSUME TypeOK, NEW r \in Requests, NEW how \in {"none", "http", "ws", "error", "aborted"},
           Answer(r, how)
    PROVE  /\ pc' \in [Requests -> Places]
           /\ sock' \in [Requests -> Sockets \cup {None}]
           /\ chain' \in [Requests -> Sockets \cup {None}]
           /\ failure' \in [Requests -> {"none", "abort", "upgrade", "timeout", "error"}]
           /\ served' \in [Requests -> {"none", "http", "ws", "error", "aborted"}]
  BY DEF Answer, TypeOK, Places

LEMMA ThrowTypes ==
    ASSUME TypeOK, NEW r \in Requests, NEW what \in {"abort", "upgrade", "timeout", "error"},
           Throw(r, what)
    PROVE  /\ pc' \in [Requests -> Places]
           /\ failure' \in [Requests -> {"none", "abort", "upgrade", "timeout", "error"}]
  BY DEF Throw, TypeOK, Places

(* A request that has begun has an entry.                                   *)
HasEntry == \A r \in Requests : Owns(r) \/ pc[r] = "caught" => mine[r] \in Entries

LEMMA TypesStep == ASSUME TypeOK, HasEntry, [Next]_vars PROVE TypeOK'
<1> USE NoneIsNone
<1>1. ASSUME NEW r \in Requests, Begin(r) PROVE TypeOK'
  <2>1. PICK e \in Entries :
            /\ \/ pooled = e /\ UNCHANGED made
               \/ pooled = None /\ e = made + 1 /\ made' = e
            /\ Take(r, e)
            /\ BeginHttp(r, e) \/ BeginSocket(r, e)
    BY <1>1 DEF Begin
  <2>2. made' \in 0..MaxEntries
    BY <2>1 DEF TypeOK, Entries
  <2>3. CASE BeginHttp(r, e)
    BY <2>1, <2>2, <2>3, AnswerTypes DEF Take, BeginHttp, TypeOK
  <2>4. CASE BeginSocket(r, e)
    <3>1. sock' \in [Requests -> Sockets \cup {None}] /\ pc' \in [Requests -> Places]
      BY <2>4 DEF BeginSocket, TypeOK, Reusable, Places
    <3>2. /\ socket' \in [Entries -> Sockets \cup {None}]
          /\ continuation' \in [Entries -> Sockets \cup {None}]
          /\ state' \in [Sockets -> {"unused", "open", "old", "closed"}]
      BY <2>4, InvalidateTypes DEF BeginSocket, TypeOK
    <3> QED BY <2>1, <2>2, <2>4, <3>1, <3>2 DEF Take, BeginSocket, TypeOK
  <2> QED BY <2>1, <2>3, <2>4
<1>2. ASSUME NEW r \in Requests, ConnectsPrewarm(r) \/ ConnectsChained(r) PROVE TypeOK'
  <2>1. /\ Connects(r) /\ mine[r] \in Entries
        /\ socket' \in [Entries -> Sockets \cup {None}]
        /\ state' \in [Sockets -> {"unused", "open", "old", "closed"}]
    BY <1>2 DEF ConnectsPrewarm, ConnectsChained, Connects, TypeOK, HasEntry, Owns
  <2>2. CASE ConnectsPrewarm(r)
    BY <2>1, <2>2 DEF Connects, ConnectsPrewarm, TypeOK, Places
  <2>3. CASE ConnectsChained(r)
    BY <2>1, <2>3 DEF Connects, ConnectsChained, ContinuesChain, TypeOK, Places
  <2> QED BY <1>2, <2>2, <2>3
<1>3. ASSUME NEW r \in Requests, ConnectFails(r) PROVE TypeOK'
  BY <1>3, ThrowTypes DEF ConnectFails, TypeOK
<1>4. ASSUME NEW r \in Requests, PrewarmStarts(r) \/ StreamStarts(r) PROVE TypeOK'
  <2>1. mine[r] \in Entries
    BY <1>4 DEF PrewarmStarts, StreamStarts, AfterDump, HasEntry, Owns
  <2> QED BY <1>4, <2>1, ThrowTypes DEF PrewarmStarts, StreamStarts, AfterDump, TypeOK, Places
<1>5. ASSUME NEW r \in Requests, PrewarmCompletes(r) PROVE TypeOK'
  BY <1>5 DEF PrewarmCompletes, TypeOK, Places
<1>6. ASSUME NEW r \in Requests, PrewarmEnds(r) PROVE TypeOK'
  BY <1>6 DEF PrewarmEnds, Throw, TypeOK, Places, HasEntry, Owns
<1>7. ASSUME NEW r \in Requests, Ready(r) PROVE TypeOK'
  BY <1>7 DEF Ready, ContinuesChain, TypeOK, Places, HasEntry, Owns
<1>8. ASSUME NEW r \in Requests, FirstEvent(r) \/ GraceEnds(r) \/ Delivers(r) PROVE TypeOK'
  BY <1>8, AnswerTypes DEF FirstEvent, GraceEnds, Delivers, TypeOK, Places
<1>9. ASSUME NEW r \in Requests, StreamCompletes(r) \/ StreamRefused(r) PROVE TypeOK'
  <2>1. mine[r] \in Entries /\ Answer(r, "ws")
    BY <1>9 DEF StreamCompletes, StreamRefused, Streaming, HasEntry, Owns
  <2>2. CASE StreamCompletes(r)
    BY <2>1, <2>2, AnswerTypes DEF StreamCompletes, Free, TypeOK
  <2>3. CASE StreamRefused(r)
    BY <2>1, <2>3, AnswerTypes, InvalidateTypes DEF StreamRefused, Free, TypeOK
  <2> QED BY <1>9, <2>2, <2>3
<1>10. ASSUME NEW r \in Requests, NEW kind \in Kinds, StreamInvalid(r, kind) PROVE TypeOK'
  <2>1. AfterInvalid(r, kind = "oversized") \in {"http", "ws"} /\ mine[r] \in Entries
    BY <1>10 DEF AfterInvalid, StreamInvalid, Streaming, HasEntry, Owns
  <2>2. /\ fallback' \in [Entries -> BOOLEAN] /\ streamFailures' \in [Entries -> Nat]
        /\ busy' \in [Entries -> BOOLEAN]
    <3>1. CASE kind # "lost" \/ fallback[mine[r]]
      BY <1>10, <2>1, <3>1 DEF StreamInvalid, Free, TypeOK
    <3>2. CASE ~(kind # "lost" \/ fallback[mine[r]])
      <4>1. recordStreamFailure(mine[r], FALSE) /\ Free(mine[r])
        BY <1>10, <3>2 DEF StreamInvalid
      <4> QED BY <2>1, <4>1 DEF recordStreamFailure, Free, TypeOK
    <3> QED BY <3>1, <3>2
  <2>3. /\ Answer(r, AfterInvalid(r, kind = "oversized")) /\ invalidate(mine[r])
        /\ UNCHANGED <<mine, delivered, pooled, made, removals>>
    BY <1>10 DEF StreamInvalid
  <2> QED BY <2>1, <2>2, <2>3, AnswerTypes, InvalidateTypes DEF TypeOK
<1>11. ASSUME NEW r \in Requests, NEW limit \in BOOLEAN, StreamAborted(r, limit) PROVE TypeOK'
  <2>1. mine[r] \in Entries
    BY <1>11 DEF StreamAborted, Streaming, HasEntry, Owns
  <2>2. /\ fallback' \in [Entries -> BOOLEAN] /\ streamFailures' \in [Entries -> Nat]
        /\ busy' \in [Entries -> BOOLEAN]
    BY <1>11, <2>1 DEF StreamAborted, Free, TypeOK
  <2> QED BY <1>11, <2>1, <2>2, AnswerTypes, InvalidateTypes DEF StreamAborted, TypeOK, Places
<1>12. ASSUME NEW r \in Requests, Catch(r) PROVE TypeOK'
  <2>1. mine[r] \in Entries
    BY <1>12 DEF Catch, HasEntry, Owns
  <2>2. CASE CatchAbort(r)
    BY <1>12, <2>1, <2>2, AnswerTypes, InvalidateTypes DEF Catch, CatchAbort, Free, TypeOK
  <2>3. CASE CatchFailure(r)
    <3>1. /\ fallback' \in [Entries -> BOOLEAN] /\ streamFailures' \in [Entries -> Nat]
          /\ busy' \in [Entries -> BOOLEAN]
      BY <2>1, <2>3 DEF CatchFailure, recordStreamFailure, Free, TypeOK
    <3> QED BY <1>12, <2>1, <2>3, <3>1, AnswerTypes, InvalidateTypes
            DEF Catch, CatchFailure, TypeOK
  <2> QED BY <1>12, <2>2, <2>3 DEF Catch
<1>13. ASSUME Prune \/ RemoveEntry PROVE TypeOK'
  BY <1>13, InvalidateTypes DEF Prune, RemoveEntry, TypeOK
<1>14. ASSUME NEW s \in Sockets, ServerCloses(s) \/ Ages(s) PROVE TypeOK'
  BY <1>14 DEF ServerCloses, Ages, TypeOK
<1>15. CASE UNCHANGED vars
  BY <1>15, Unchanged DEF TypeOK
<1> QED
  BY StepCases, <1>1, <1>2, <1>3, <1>4, <1>5, <1>6, <1>7, <1>8, <1>9, <1>10, <1>11, <1>12,
     <1>13, <1>14, <1>15

LEMMA HasEntryStep == ASSUME TypeOK, HasEntry, [Next]_vars PROVE HasEntry'
<1>1. ASSUME NEW r \in Requests, Begin(r) PROVE HasEntry'
  BY <1>1 DEF Begin, Take, BeginHttp, BeginSocket, Answer, HasEntry, Owns, TypeOK
<1>2. CASE ~\E r \in Requests : Begin(r)
  <2>1. mine' = mine
    BY <1>2, StepCases, Unchanged
    DEF ConnectsPrewarm, ConnectsChained, ContinuesChain, ConnectFails, PrewarmStarts,
        StreamStarts, AfterDump, PrewarmCompletes, PrewarmEnds, Ready, FirstEvent, GraceEnds,
        Delivers, StreamCompletes, StreamRefused, StreamInvalid, StreamAborted, Catch, Prune,
        RemoveEntry, ServerCloses, Ages
  <2>2. ASSUME NEW q \in Requests, pc[q] \in {"idle", "done"} PROVE pc'[q] = pc[q]
    <3> USE <2>2 DEF TypeOK
    <3>1. ASSUME NEW r \in Requests,
                 \/ ConnectsPrewarm(r) \/ ConnectsChained(r) \/ ConnectFails(r)
                 \/ PrewarmStarts(r) \/ StreamStarts(r) \/ PrewarmCompletes(r)
          PROVE  pc'[q] = pc[q]
      BY <3>1 DEF ConnectsPrewarm, ConnectsChained, Connects, ContinuesChain, ConnectFails,
                  Throw, PrewarmStarts, StreamStarts, AfterDump, PrewarmCompletes
    <3>2. ASSUME NEW r \in Requests,
                 PrewarmEnds(r) \/ Ready(r) \/ FirstEvent(r) \/ GraceEnds(r) \/ Delivers(r)
          PROVE  pc'[q] = pc[q]
      BY <3>2 DEF PrewarmEnds, Throw, Ready, ContinuesChain, FirstEvent, GraceEnds, Delivers,
                  Answer
    <3>3. ASSUME NEW r \in Requests, StreamCompletes(r) \/ StreamRefused(r)
          PROVE  pc'[q] = pc[q]
      BY <3>3 DEF StreamCompletes, StreamRefused, Streaming, Answer
    <3>4. ASSUME NEW r \in Requests, NEW kind \in Kinds, StreamInvalid(r, kind)
          PROVE  pc'[q] = pc[q]
      BY <3>4 DEF StreamInvalid, Streaming, Answer
    <3>5. ASSUME NEW r \in Requests, NEW limit \in BOOLEAN, StreamAborted(r, limit)
          PROVE  pc'[q] = pc[q]
      BY <3>5 DEF StreamAborted, Streaming, Answer
    <3>6. ASSUME NEW r \in Requests, Catch(r) PROVE pc'[q] = pc[q]
      BY <3>6 DEF Catch, CatchAbort, CatchFailure, Answer
    <3>7. ASSUME \/ Prune \/ RemoveEntry \/ \E s \in Sockets : ServerCloses(s) \/ Ages(s)
                 \/ UNCHANGED vars
          PROVE  pc'[q] = pc[q]
      BY <3>7, Unchanged DEF Prune, RemoveEntry, ServerCloses, Ages
    <3> QED BY <1>2, StepCases, <3>1, <3>2, <3>3, <3>4, <3>5, <3>6, <3>7
  <2> QED BY <2>1, <2>2 DEF HasEntry, Owns, TypeOK, Places
<1> QED BY <1>1, <1>2

(* Every variable keeps its type, whatever falls between a request's awaits.*)
THEOREM TypeCorrect == Spec => []TypeOK
<1>1. Init => TypeOK /\ HasEntry
  BY NoneIsNone DEF Init, TypeOK, HasEntry, Owns, Places
<1>2. TypeOK /\ HasEntry /\ [Next]_vars => TypeOK' /\ HasEntry'
  BY TypesStep, HasEntryStep
<1> QED BY <1>1, <1>2, PTL DEF Spec

-----------------------------------------------------------------------------
(* A response the caller has begun to read *)

(* Only a response that is relayed or returned is read, and only an ended   *)
(* request is served.                                                       *)
Unread ==
    \A r \in Requests :
        /\ delivered[r] => pc[r] \in {"relayed", "returned", "done"}
        /\ served[r] # "none" => pc[r] = "done"

LEMMA UnreadStep ==
    ASSUME TypeOK, Unread, NoSecondResponse, [Next]_vars
    PROVE  Unread' /\ NoSecondResponse'
<1> USE DEF TypeOK, Unread, NoSecondResponse
<1>1. ASSUME NEW r \in Requests, Begin(r) PROVE Unread' /\ NoSecondResponse'
  BY <1>1 DEF Begin, Take, BeginHttp, BeginSocket, Answer
<1>2. ASSUME NEW r \in Requests, ConnectsPrewarm(r) \/ ConnectsChained(r)
      PROVE Unread' /\ NoSecondResponse'
  BY <1>2 DEF ConnectsPrewarm, ConnectsChained, Connects, ContinuesChain
<1>3. ASSUME NEW r \in Requests, ConnectFails(r) PROVE Unread' /\ NoSecondResponse'
  BY <1>3 DEF ConnectFails, Throw
<1>4. ASSUME NEW r \in Requests, PrewarmStarts(r) \/ StreamStarts(r)
      PROVE Unread' /\ NoSecondResponse'
  BY <1>4 DEF PrewarmStarts, StreamStarts, AfterDump, Throw
<1>5. ASSUME NEW r \in Requests, PrewarmCompletes(r) PROVE Unread' /\ NoSecondResponse'
  BY <1>5 DEF PrewarmCompletes
<1>6. ASSUME NEW r \in Requests, PrewarmEnds(r) PROVE Unread' /\ NoSecondResponse'
  BY <1>6 DEF PrewarmEnds, Throw
<1>7. ASSUME NEW r \in Requests, Ready(r) PROVE Unread' /\ NoSecondResponse'
  BY <1>7 DEF Ready, ContinuesChain
<1>8. ASSUME NEW r \in Requests, FirstEvent(r) \/ GraceEnds(r) \/ Delivers(r)
      PROVE Unread' /\ NoSecondResponse'
  BY <1>8 DEF FirstEvent, GraceEnds, Delivers, Answer
<1>9. ASSUME NEW r \in Requests, StreamCompletes(r) \/ StreamRefused(r)
      PROVE Unread' /\ NoSecondResponse'
  BY <1>9 DEF StreamCompletes, StreamRefused, Streaming, Answer
<1>10. ASSUME NEW r \in Requests, NEW kind \in Kinds, StreamInvalid(r, kind)
       PROVE Unread' /\ NoSecondResponse'
  <2>1. /\ Streaming(r) /\ delivered' = delivered
        /\ Answer(r, AfterInvalid(r, kind = "oversized"))
    BY <1>10 DEF StreamInvalid
  <2>2. AfterInvalid(r, kind = "oversized") = "http" => ~delivered[r]
    BY DEF AfterInvalid
  <2>3. AfterInvalid(r, kind = "oversized") \in {"http", "ws"}
    BY DEF AfterInvalid
  <2> QED BY <2>1, <2>2, <2>3 DEF Answer, Streaming
<1>11. ASSUME NEW r \in Requests, NEW limit \in BOOLEAN, StreamAborted(r, limit)
       PROVE Unread' /\ NoSecondResponse'
  BY <1>11 DEF StreamAborted, Streaming, Answer
<1>12. ASSUME NEW r \in Requests, Catch(r) PROVE Unread' /\ NoSecondResponse'
  <2>1. PICK how \in {"aborted", "http", "error"} : Answer(r, how)
    BY <1>12 DEF Catch, CatchAbort, CatchFailure
  <2>2. ~delivered[r] /\ delivered' = delivered
    BY <1>12 DEF Catch
  <2> QED BY <2>1, <2>2 DEF Answer
<1>13. ASSUME Prune \/ RemoveEntry PROVE Unread' /\ NoSecondResponse'
  BY <1>13 DEF Prune, RemoveEntry
<1>14. ASSUME NEW s \in Sockets, ServerCloses(s) \/ Ages(s) PROVE Unread' /\ NoSecondResponse'
  BY <1>14 DEF ServerCloses, Ages
<1>15. CASE UNCHANGED vars
  BY <1>15, Unchanged
<1> QED
  BY StepCases, <1>1, <1>2, <1>3, <1>4, <1>5, <1>6, <1>7, <1>8, <1>9, <1>10, <1>11, <1>12,
     <1>13, <1>14, <1>15

(* A caller that has read part of the WebSocket response is never given the *)
(* response over HTTP as well: websocketFetch's fallbacks reach a relayed   *)
(* response only before a frame of it was delivered.                        *)
THEOREM ReadOnce == Spec => []NoSecondResponse
<1>1. Init => Unread /\ NoSecondResponse
  BY DEF Init, Unread, NoSecondResponse
<1>2. TypeOK /\ Unread /\ NoSecondResponse /\ [Next]_vars => Unread' /\ NoSecondResponse'
  BY UnreadStep
<1> QED BY <1>1, <1>2, TypeCorrect, PTL DEF Spec

-----------------------------------------------------------------------------
(* The holder of an entry *)

(* An entry in use has one user: the request that made it busy.  Between an *)
(* abort and its catch the entry is free, and no request starts.            *)
Holders ==
    /\ \A q, r \in Requests : Owns(q) /\ Owns(r) /\ mine[q] = mine[r] => q = r
    /\ \A e \in Entries : busy[e] => \E r \in Requests : Owns(r) /\ mine[r] = e
    /\ \A r \in Requests : Owns(r) => busy[mine[r]]
    /\ \A r \in Requests : pc[r] = "caught" => ~busy[mine[r]]

(* A request that still expects its response is on an entry that has not    *)
(* given up on WebSockets.                                                  *)
NotGivenUp == \A r \in Requests : Owns(r) /\ pc[r] # "catching" => ~fallback[mine[r]]

(* The entries change hands in three ways only.                             *)
NobodyMoves ==
    /\ busy' = busy
    /\ \A q \in Requests :
        /\ Owns(q)' <=> Owns(q)
        /\ pc'[q] = "caught" <=> pc[q] = "caught"
        /\ Owns(q) \/ pc[q] = "caught" => mine'[q] = mine[q]

Acquires(r) ==
    \E e \in Entries :
        /\ ~busy[e] /\ busy' = [busy EXCEPT ![e] = TRUE]
        /\ Owns(r)' /\ ~Owns(r) /\ pc[r] # "caught"
        /\ mine' = [mine EXCEPT ![r] = e]
        /\ \A q \in Requests : q # r => pc'[q] = pc[q]
        /\ \A q \in Requests : pc'[q] # "caught"

Releases(r) ==
    /\ Owns(r) \/ pc[r] = "caught"
    /\ ~Owns(r)'
    /\ busy' = [busy EXCEPT ![mine[r]] = FALSE]
    /\ mine' = mine
    /\ \A q \in Requests : q # r => pc'[q] = pc[q]

LEMMA HandsStep ==
    ASSUME ~Reissue, TypeOK, HasEntry, NotGivenUp, [Next]_vars
    PROVE  \/ NobodyMoves
           \/ \E r \in Requests : Acquires(r) \/ Releases(r)
<1> USE DEF TypeOK, Owns
<1>1. ASSUME NEW r \in Requests, Begin(r) PROVE NobodyMoves \/ Acquires(r)
  <2>1. PICK e \in Entries : Take(r, e) /\ (BeginHttp(r, e) \/ BeginSocket(r, e))
    BY <1>1 DEF Begin
  <2>2. CASE BeginHttp(r, e)
    BY <1>1, <2>1, <2>2 DEF Begin, Take, BeginHttp, Answer, NobodyMoves
  <2>3. CASE BeginSocket(r, e)
    BY <1>1, <2>1, <2>3 DEF Begin, Take, BeginSocket, Acquires
  <2> QED BY <2>1, <2>2, <2>3
<1>2. ASSUME NEW r \in Requests,
             \/ ConnectsPrewarm(r) \/ ConnectsChained(r) \/ ConnectFails(r)
             \/ PrewarmStarts(r) \/ StreamStarts(r) \/ PrewarmCompletes(r)
      PROVE  NobodyMoves
  BY <1>2 DEF ConnectsPrewarm, ConnectsChained, Connects, ContinuesChain, ConnectFails, Throw,
              PrewarmStarts, StreamStarts, AfterDump, PrewarmCompletes, NobodyMoves
<1>3. ASSUME NEW r \in Requests,
             PrewarmEnds(r) \/ Ready(r) \/ FirstEvent(r) \/ Delivers(r)
      PROVE  NobodyMoves
  BY <1>3 DEF PrewarmEnds, Throw, Ready, ContinuesChain, FirstEvent, Delivers, NobodyMoves
<1>4. ASSUME NEW r \in Requests, GraceEnds(r) PROVE NobodyMoves
  <2>1. ~fallback[mine[r]]
    BY <1>4 DEF GraceEnds, NotGivenUp
  <2> QED BY <1>4, <2>1 DEF GraceEnds, NobodyMoves
<1>5. ASSUME NEW r \in Requests, StreamCompletes(r) \/ StreamRefused(r) PROVE Releases(r)
  BY <1>5 DEF StreamCompletes, StreamRefused, Streaming, Answer, Free, Releases
<1>6. ASSUME NEW r \in Requests, NEW kind \in Kinds, StreamInvalid(r, kind) PROVE Releases(r)
  BY <1>6 DEF StreamInvalid, Streaming, Answer, Free, Releases
<1>7. ASSUME NEW r \in Requests, NEW limit \in BOOLEAN, StreamAborted(r, limit) PROVE Releases(r)
  BY <1>7 DEF StreamAborted, Streaming, Answer, Free, Releases
<1>8. ASSUME NEW r \in Requests, Catch(r) PROVE Releases(r)
  BY <1>8 DEF Catch, CatchAbort, CatchFailure, Answer, Free, Releases
<1>9. ASSUME \/ Prune \/ RemoveEntry \/ \E s \in Sockets : ServerCloses(s) \/ Ages(s)
             \/ UNCHANGED vars
      PROVE  NobodyMoves
  BY <1>9, Unchanged DEF Prune, RemoveEntry, ServerCloses, Ages, NobodyMoves
<1> QED BY StepCases, <1>1, <1>2, <1>3, <1>4, <1>5, <1>6, <1>7, <1>8, <1>9

LEMMA HoldersStep ==
    ASSUME ~Reissue, TypeOK, HasEntry, NotGivenUp, Holders, [Next]_vars
    PROVE  Holders'
<1>1. CASE NobodyMoves
  BY <1>1 DEF NobodyMoves, Holders
<1>2. ASSUME NEW r \in Requests, Acquires(r) PROVE Holders'
  BY <1>2 DEF Acquires, Holders, TypeOK, HasEntry, Owns
<1>3. ASSUME NEW r \in Requests, Releases(r) PROVE Holders'
  BY <1>3 DEF Releases, Holders, TypeOK, HasEntry, Owns
<1> QED BY <1>1, <1>2, <1>3, HandsStep

LEMMA NotGivenUpStep ==
    ASSUME TypeOK, HasEntry, NotGivenUp, Holders, [Next]_vars
    PROVE  NotGivenUp'
<1> USE DEF TypeOK, Owns, NotGivenUp
<1>1. ASSUME NEW r \in Requests, Begin(r) PROVE NotGivenUp'
  <2>1. PICK e \in Entries : Take(r, e) /\ (BeginHttp(r, e) \/ BeginSocket(r, e))
    BY <1>1 DEF Begin
  <2>2. CASE BeginHttp(r, e)
    BY <1>1, <2>1, <2>2 DEF Begin, Take, BeginHttp, Answer
  <2>3. CASE BeginSocket(r, e)
    BY <1>1, <2>1, <2>3 DEF Begin, Take, BeginSocket
  <2> QED BY <2>1, <2>2, <2>3
<1>2. ASSUME NEW r \in Requests,
             \/ ConnectsPrewarm(r) \/ ConnectsChained(r) \/ ConnectFails(r)
             \/ PrewarmStarts(r) \/ StreamStarts(r) \/ PrewarmCompletes(r)
      PROVE  NotGivenUp'
  BY <1>2 DEF ConnectsPrewarm, ConnectsChained, Connects, ContinuesChain, ConnectFails, Throw,
              PrewarmStarts, StreamStarts, AfterDump, PrewarmCompletes
<1>3. ASSUME NEW r \in Requests, Ready(r) \/ FirstEvent(r) \/ Delivers(r) \/ GraceEnds(r)
      PROVE  NotGivenUp'
  BY <1>3 DEF Ready, ContinuesChain, FirstEvent, Delivers, GraceEnds, Answer
(* The entry that gives up is the request's, and nobody else is on it.      *)
<1>4. ASSUME NEW r \in Requests, Owns(r) \/ pc[r] = "caught", mine' = mine,
             \A q \in Requests : q # r => pc'[q] = pc[q],
             \A e \in Entries : fallback'[e] => fallback[e] \/ e = mine[r],
             ~Owns(r)' \/ pc'[r] = "catching"
      PROVE  NotGivenUp'
  BY <1>4 DEF Holders, HasEntry
<1>5. ASSUME NEW r \in Requests, PrewarmEnds(r) PROVE NotGivenUp'
  <2>1. CASE pc' = [pc EXCEPT ![r] = "ready"]
    BY <1>5, <2>1 DEF PrewarmEnds, Throw
  <2>2. CASE pc' = [pc EXCEPT ![r] = "catching"]
    <3>1. \A e \in Entries : fallback'[e] => fallback[e] \/ e = mine[r]
      BY <1>5, <2>2 DEF PrewarmEnds, Throw
    <3>2. Owns(r) /\ mine' = mine
      BY <1>5 DEF PrewarmEnds
    <3> QED BY <2>2, <3>1, <3>2, <1>4
  <2> QED BY <1>5, <2>1, <2>2 DEF PrewarmEnds, Throw
<1>6. ASSUME NEW r \in Requests, StreamCompletes(r) \/ StreamRefused(r) PROVE NotGivenUp'
  BY <1>6 DEF StreamCompletes, StreamRefused, Streaming, Answer
<1>7. ASSUME NEW r \in Requests, NEW kind \in Kinds, StreamInvalid(r, kind) PROVE NotGivenUp'
  <2>1. \A e \in Entries : fallback'[e] => fallback[e] \/ e = mine[r]
    BY <1>7 DEF StreamInvalid, recordStreamFailure
  <2>2. Owns(r) /\ mine' = mine /\ Answer(r, AfterInvalid(r, kind = "oversized"))
    BY <1>7 DEF StreamInvalid, Streaming
  <2> QED BY <2>1, <2>2, <1>4 DEF Answer
<1>8. ASSUME NEW r \in Requests, NEW limit \in BOOLEAN, StreamAborted(r, limit)
      PROVE  NotGivenUp'
  <2>1. \A e \in Entries : fallback'[e] => fallback[e] \/ e = mine[r]
    BY <1>8 DEF StreamAborted
  <2>2. /\ Owns(r) /\ mine' = mine
        /\ pc' = [pc EXCEPT ![r] = "caught"] \/ pc' = [pc EXCEPT ![r] = "done"]
    BY <1>8 DEF StreamAborted, Streaming, Answer
  <2> QED BY <2>1, <2>2, <1>4
<1>9. ASSUME NEW r \in Requests, Catch(r) PROVE NotGivenUp'
  <2>1. CASE CatchAbort(r)
    BY <1>9, <2>1 DEF Catch, CatchAbort, Answer
  <2>2. CASE CatchFailure(r)
    <3>1. \A e \in Entries : fallback'[e] => fallback[e] \/ e = mine[r]
      BY <2>2 DEF CatchFailure, recordStreamFailure
    <3>2. /\ Owns(r) \/ pc[r] = "caught"
          /\ mine' = mine /\ pc' = [pc EXCEPT ![r] = "done"]
      BY <1>9, <2>2 DEF Catch, CatchFailure, Answer
    <3> QED BY <3>1, <3>2, <1>4
  <2> QED BY <1>9, <2>1, <2>2 DEF Catch
<1>10. ASSUME \/ Prune \/ RemoveEntry \/ \E s \in Sockets : ServerCloses(s) \/ Ages(s)
              \/ UNCHANGED vars
       PROVE  NotGivenUp'
  BY <1>10, Unchanged DEF Prune, RemoveEntry, ServerCloses, Ages
<1> QED
  BY StepCases, <1>1, <1>2, <1>3, <1>5, <1>6, <1>7, <1>8, <1>9, <1>10

-----------------------------------------------------------------------------
(* The sockets of an entry *)

(* What an entry may speak on, or chain to, now or later.                   *)
Uses(e, s) ==
    \/ socket[e] = s
    \/ continuation[e] = s
    \/ \E r \in Requests : Owns(r) /\ mine[r] = e /\ (sock[r] = s \/ chain[r] = s)

(* No two entries know one socket.                                          *)
Apart ==
    \A s \in Sockets :
        /\ \A e \in Entries : Uses(e, s) => state[s] # "unused"
        /\ \A e, f \in Entries : Uses(e, s) /\ Uses(f, s) => e = f

(* An entry's continuation is of its socket, when it has both ...           *)
Linked ==
    \A e \in Entries :
        socket[e] = None \/ continuation[e] = None \/ continuation[e] = socket[e]

(* ... and so are the socket and the chain of the request that holds it.    *)
LinkedAt(r) ==
    LET e == mine[r]
    IN  /\ pc[r] \in {"idle", "done"} => sock[r] = None
        /\ pc[r] \in {"idle", "socket", "prewarmDump", "prewarm", "ready", "done"} =>
                chain[r] = None
        /\ pc[r] = "socket" =>
                /\ socket[e] = None \/ socket[e] = sock[r]
                /\ continuation[e] = None \/ continuation[e] = sock[r]
        /\ pc[r] = "prewarm" \/ Streaming(r) =>
                sock[r] # None /\ (socket[e] = None \/ socket[e] = sock[r])
        /\ pc[r] = "mainDump" => chain[r] = None \/ socket[e] = None \/ socket[e] = chain[r]
        /\ Streaming(r) => chain[r] = None \/ chain[r] = sock[r]

RequestsLinked == \A r \in Requests : LinkedAt(r)

Sound == Apart /\ Linked /\ RequestsLinked

(* A step after which every entry uses at most what it used.                *)
UsesNoMore ==
    /\ \A e \in Entries, s \in Sockets : Uses(e, s)' => Uses(e, s)
    /\ \A s \in Sockets : state'[s] = "unused" => state[s] = "unused"

LEMMA ApartKept == ASSUME Apart, UsesNoMore PROVE Apart'
  BY Zenon DEF Apart, UsesNoMore

(* The parts of UsesNoMore, for a step of request r.                        *)
LEMMA UsesOf ==
    ASSUME TypeOK, HasEntry, NEW r \in Requests,
           \A e \in Entries, s \in Sockets : socket'[e] = s => Uses(e, s),
           \A e \in Entries, s \in Sockets : continuation'[e] = s => Uses(e, s),
           \A q \in Requests : q # r /\ Owns(q)' =>
                /\ Owns(q) /\ mine'[q] = mine[q]
                /\ sock'[q] = sock[q] /\ chain'[q] = chain[q],
           \A s \in Sockets :
                Owns(r)' /\ (sock'[r] = s \/ chain'[r] = s) => Uses(mine'[r], s),
           \A s \in Sockets : state'[s] = "unused" => state[s] = "unused"
    PROVE  UsesNoMore
<1> SUFFICES ASSUME NEW e \in Entries, NEW s \in Sockets, Uses(e, s)' PROVE Uses(e, s)
  BY DEF UsesNoMore
<1>1. CASE socket'[e] = s \/ continuation'[e] = s
  BY <1>1
<1>2. CASE \E q \in Requests : Owns(q)' /\ mine'[q] = e /\ (sock'[q] = s \/ chain'[q] = s)
  <2>1. PICK q \in Requests : Owns(q)' /\ mine'[q] = e /\ (sock'[q] = s \/ chain'[q] = s)
    BY <1>2
  <2>2. CASE q = r
    BY <2>1, <2>2
  <2>3. CASE q # r
    BY <2>1, <2>3 DEF Uses
  <2> QED BY <2>2, <2>3
<1> QED BY <1>1, <1>2 DEF Uses

(* A request another request's step leaves alone stays linked: its entry's  *)
(* socket and continuation are at most forgotten.                           *)
LEMMA OthersLinked ==
    ASSUME NEW q \in Requests, LinkedAt(q),
           pc'[q] = pc[q], sock'[q] = sock[q], chain'[q] = chain[q], mine'[q] = mine[q],
           Owns(q) => /\ socket'[mine[q]] \in {None, socket[mine[q]]}
                      /\ continuation'[mine[q]] \in {None, continuation[mine[q]]}
    PROVE  LinkedAt(q)'
  BY DEF LinkedAt, Owns, Streaming

(* A step of request r that concerns its own entry only.                    *)
Local(r) ==
    /\ mine' = mine
    /\ \A q \in Requests : q # r => pc'[q] = pc[q] /\ sock'[q] = sock[q] /\ chain'[q] = chain[q]
    /\ \A e \in Entries : e # mine[r] =>
        socket'[e] \in {None, socket[e]} /\ continuation'[e] \in {None, continuation[e]}
    /\ \A s \in Sockets : state'[s] = "unused" => state[s] = "unused"

LEMMA LocalLinks ==
    ASSUME TypeOK, HasEntry, Holders, Linked, RequestsLinked, NEW r \in Requests,
           Owns(r) \/ pc[r] = "caught", Local(r), LinkedAt(r)',
           \/ socket'[mine[r]] = None \/ continuation'[mine[r]] = None
           \/ continuation'[mine[r]] = socket'[mine[r]]
    PROVE  Linked' /\ RequestsLinked'
<1>1. Linked'
  BY DEF Linked, Local
<1>2. ASSUME NEW q \in Requests, q # r PROVE LinkedAt(q)'
  <2>1. Owns(q) => mine[q] # mine[r] /\ mine[q] \in Entries
    BY <1>2 DEF Holders, HasEntry
  <2>2. LinkedAt(q)
    BY DEF RequestsLinked
  <2> QED BY <1>2, <2>1, <2>2, OthersLinked DEF Local
<1> QED BY <1>1, <1>2 DEF RequestsLinked

LEMMA LocalUses ==
    ASSUME TypeOK, HasEntry, NEW r \in Requests, Local(r), mine[r] \in Entries,
           \A s \in Sockets :
                \/ socket'[mine[r]] = s \/ continuation'[mine[r]] = s
                \/ Owns(r)' /\ (sock'[r] = s \/ chain'[r] = s)
                => Uses(mine[r], s)
    PROVE  UsesNoMore
<1> USE NoneIsNone
<1>1. ASSUME NEW e \in Entries, NEW s \in Sockets, socket'[e] = s \/ continuation'[e] = s
      PROVE  Uses(e, s)
  <2>1. CASE e = mine[r]
    BY <1>1, <2>1
  <2>2. CASE e # mine[r]
    BY <1>1, <2>2 DEF Local, Uses
  <2> QED BY <2>1, <2>2
<1>2. \A q \in Requests : q # r /\ Owns(q)' =>
            /\ Owns(q) /\ mine'[q] = mine[q]
            /\ sock'[q] = sock[q] /\ chain'[q] = chain[q]
  BY DEF Local, Owns
<1>3. \A s \in Sockets : Owns(r)' /\ (sock'[r] = s \/ chain'[r] = s) => Uses(mine'[r], s)
  BY DEF Local
<1>4. \A s \in Sockets : state'[s] = "unused" => state[s] = "unused"
  BY DEF Local
<1> QED BY <1>1, <1>2, <1>3, <1>4, UsesOf

(* A request that leaves its entry as it is, or invalid, and lets go of it. *)
LEMMA ReleaseSound ==
    ASSUME TypeOK, HasEntry, Holders, Sound, NEW r \in Requests, Releases(r),
           pc'[r] = "caught" \/ (pc'[r] = "done" /\ sock'[r] = None /\ chain'[r] = None),
           \A q \in Requests : q # r => sock'[q] = sock[q] /\ chain'[q] = chain[q],
           \/ invalidate(mine[r])
           \/ /\ UNCHANGED <<socket, state>>
              /\ Streaming(r) /\ continuation' = [continuation EXCEPT ![mine[r]] = sock[r]]
    PROVE  Sound'
<1> USE NoneIsNone
<1>1. mine[r] \in Entries /\ LinkedAt(r)
  BY DEF Releases, HasEntry, Sound, RequestsLinked
<1>2. Local(r)
  BY <1>1 DEF Releases, Local, invalidate, TypeOK
<1>3. LinkedAt(r)'
  BY DEF LinkedAt, Streaming, Owns
<1>4. /\ socket'[mine[r]] = None \/ socket'[mine[r]] = socket[mine[r]]
      /\ \/ continuation'[mine[r]] = None
         \/ Owns(r) /\ continuation'[mine[r]] = sock[r]
      /\ \/ socket'[mine[r]] = None \/ continuation'[mine[r]] = None
         \/ continuation'[mine[r]] = socket'[mine[r]]
  BY <1>1 DEF invalidate, TypeOK, LinkedAt, Streaming, Owns
<1>5. UsesNoMore
  <2>1. \A s \in Sockets : socket'[mine[r]] = s \/ continuation'[mine[r]] = s
            => Uses(mine[r], s)
    BY <1>1, <1>4 DEF Uses
  <2> QED BY <1>1, <1>2, <2>1, LocalUses DEF Releases
<1> QED BY <1>2, <1>3, <1>4, <1>5, ApartKept, LocalLinks DEF Sound, Releases

(* The request takes a free entry: its open socket, or none and no chain.   *)
LEMMA BeginSound ==
    ASSUME TypeOK, HasEntry, Holders, Sound, NEW r \in Requests, Begin(r)
    PROVE  Sound'
<1> USE NoneIsNone
<1>1. PICK e \in Entries : Take(r, e) /\ (BeginHttp(r, e) \/ BeginSocket(r, e))
  BY DEF Begin
<1>2. pc[r] = "idle" /\ sock[r] = None /\ chain[r] = None
  BY DEF Begin, Sound, RequestsLinked, LinkedAt
<1>3. CASE BeginHttp(r, e)
  <2>1. UsesNoMore
    <3>1. \A q \in Requests : q # r => mine'[q] = mine[q]
      BY <1>1 DEF Take, TypeOK
    <3> QED BY <1>2, <1>3, <3>1, UsesOf DEF BeginHttp, Answer, TypeOK, Owns, Uses
  <2>2. \A q \in Requests : LinkedAt(q)'
    <3>1. ASSUME NEW q \in Requests, q # r PROVE LinkedAt(q)'
      BY <1>1, <1>3, <3>1, OthersLinked
      DEF Take, BeginHttp, Answer, TypeOK, Sound, RequestsLinked
    <3>2. LinkedAt(r)'
      BY <1>3 DEF BeginHttp, Answer, LinkedAt, TypeOK, Streaming
    <3> QED BY <3>1, <3>2
  <2>3. Linked'
    BY <1>3 DEF BeginHttp, Sound, Linked
  <2> QED BY <2>1, <2>2, <2>3, ApartKept DEF Sound, RequestsLinked
<1>4. CASE BeginSocket(r, e)
  <2>1. /\ \A q \in Requests : q # r =>
                /\ pc'[q] = pc[q] /\ mine'[q] = mine[q]
                /\ sock'[q] = sock[q] /\ chain'[q] = chain[q]
        /\ pc'[r] = "socket" /\ mine'[r] = e /\ chain'[r] = None
    BY <1>1, <1>2, <1>4 DEF Take, BeginSocket, TypeOK
  <2>2. /\ \A f \in Entries :
            /\ socket'[f] \in {None, socket[f]}
            /\ continuation'[f] \in {None, continuation[f]}
        /\ \A s \in Sockets : state'[s] = "unused" => state[s] = "unused"
    BY <1>4 DEF BeginSocket, invalidate, TypeOK
  <2>3. \/ sock'[r] = socket[e] /\ socket[e] # None /\ UNCHANGED <<socket, continuation>>
        \/ sock'[r] = None /\ socket'[e] = None /\ continuation'[e] = None
    BY <1>2, <1>4 DEF BeginSocket, Reusable, invalidate, TypeOK
  <2>4. UsesNoMore
    <3>1. \A f \in Entries, s \in Sockets : socket'[f] = s \/ continuation'[f] = s => Uses(f, s)
      BY <2>2 DEF Uses
    <3>2. \A s \in Sockets : sock'[r] = s \/ chain'[r] = s => Uses(mine'[r], s)
      BY <2>1, <2>3 DEF Uses
    <3>3. \A q \in Requests : q # r /\ Owns(q)' =>
            /\ Owns(q) /\ mine'[q] = mine[q]
            /\ sock'[q] = sock[q] /\ chain'[q] = chain[q]
      BY <2>1 DEF Owns
    <3> QED BY <2>2, <3>1, <3>2, <3>3, UsesOf
  <2>5. Linked'
    BY <2>2 DEF Sound, Linked
  <2>6. ASSUME NEW q \in Requests PROVE LinkedAt(q)'
    <3>1. CASE q = r
      BY <1>4, <2>1, <2>3, <3>1 DEF LinkedAt, Streaming, Sound, Linked
    <3>2. CASE q # r
      <4>1. Owns(q) => mine[q] \in Entries
        BY DEF HasEntry
      <4> QED BY <2>1, <2>2, <3>2, <4>1, OthersLinked DEF Sound, RequestsLinked
    <3> QED BY <3>1, <3>2
  <2> QED BY <2>4, <2>5, <2>6, ApartKept DEF Sound, RequestsLinked
<1> QED BY <1>1, <1>3, <1>4

(* A dialled socket is one that nobody knows.                               *)
LEMMA ConnectsSound ==
    ASSUME TypeOK, HasEntry, Holders, Sound, NEW r \in Requests,
           ConnectsPrewarm(r) \/ ConnectsChained(r)
    PROVE  Sound'
<1> USE NoneIsNone
<1> DEFINE e == mine[r]
<1>1. /\ Connects(r) /\ pc[r] = "socket" /\ Owns(r) /\ e \in Entries /\ LinkedAt(r)
  BY DEF ConnectsPrewarm, ConnectsChained, Connects, HasEntry, Owns, Sound, RequestsLinked
<1>2. /\ mine' = mine /\ sock' = sock
      /\ \A q \in Requests : q # r => pc'[q] = pc[q] /\ chain'[q] = chain[q]
  BY DEF ConnectsPrewarm, ConnectsChained, ContinuesChain, TypeOK
<1>3. continuation' = continuation \/ continuation' = [continuation EXCEPT ![e] = None]
  BY DEF ConnectsPrewarm, ConnectsChained, ContinuesChain
<1>4. \/ pc'[r] \in {"prewarmDump", "ready"} /\ chain'[r] = chain[r]
      \/ /\ pc'[r] = "mainDump" /\ continuation[e] # None
         /\ chain'[r] = chain[r] \/ chain'[r] = continuation[e]
  BY DEF ConnectsPrewarm, ConnectsChained, ContinuesChain, TypeOK
<1>5. continuation[e] = None \/ continuation[e] = sock[r]
  BY <1>1 DEF LinkedAt
<1>6. Local(r)
  BY <1>1, <1>2, <1>3 DEF Connects, Local, TypeOK, Fresh
<1>7. CASE sock[r] # None
  <2>1. socket' = [socket EXCEPT ![e] = sock[r]] /\ UNCHANGED state
    BY <1>1, <1>7 DEF Connects
  <2>2. LinkedAt(r)'
    BY <1>1, <1>2, <1>4, <1>5, <2>1 DEF LinkedAt, Streaming, TypeOK
  <2>3. UsesNoMore
    <3>1. \A s \in Sockets : socket'[e] = s => sock[r] = s
      BY <1>1, <2>1 DEF TypeOK
    <3>2. \A s \in Sockets : continuation'[e] = s => continuation[e] = s
      BY <1>1, <1>3 DEF TypeOK
    <3> QED BY <1>1, <1>2, <1>4, <1>6, <3>1, <3>2, LocalUses DEF Uses
  <2> QED BY <1>1, <1>2, <1>3, <1>5, <1>6, <2>1, <2>2, <2>3, ApartKept, LocalLinks DEF Sound, TypeOK
<1>8. CASE sock[r] = None
  <2>1. PICK s0 \in Sockets :
            /\ Fresh(s0) /\ state' = [state EXCEPT ![s0] = "open"]
            /\ socket' = [socket EXCEPT ![e] = s0]
    BY <1>1, <1>8 DEF Connects
  <2>2. continuation[e] = None /\ continuation' = continuation /\ chain'[r] = chain[r]
    BY <1>3, <1>4, <1>5, <1>8, <1>1 DEF TypeOK
  <2>3. LinkedAt(r)'
    BY <1>1, <1>2, <1>4, <2>2 DEF LinkedAt, Streaming
  <2>4. \A f \in Entries, s \in Sockets :
            Uses(f, s)' => Uses(f, s) \/ (f = e /\ s = s0)
    <3>1. SUFFICES ASSUME NEW f \in Entries, NEW s \in Sockets, Uses(f, s)',
                          ~(f = e /\ s = s0)
                   PROVE  Uses(f, s)
      OBVIOUS
    <3>2. CASE socket'[f] = s
      BY <1>1, <2>1, <3>1, <3>2 DEF Uses, TypeOK
    <3>3. CASE continuation'[f] = s
      BY <2>2, <3>3 DEF Uses
    <3>4. ASSUME NEW q \in Requests, Owns(q)', mine'[q] = f, sock'[q] = s \/ chain'[q] = s
          PROVE  Uses(f, s)
      <4>1. Owns(q) /\ mine[q] = f /\ (sock[q] = s \/ chain[q] = s)
        BY <1>1, <1>2, <2>2, <3>4 DEF Owns
      <4> QED BY <4>1 DEF Uses
    <3> QED BY <3>1, <3>2, <3>3, <3>4 DEF Uses
  <2>5. \A f \in Entries : ~Uses(f, s0)
    BY <2>1 DEF Fresh, Sound, Apart
  <2>6. Apart'
    <3>1. ASSUME NEW s \in Sockets, NEW f \in Entries, Uses(f, s)' PROVE state'[s] # "unused"
      BY <2>1, <2>4, <3>1 DEF Sound, Apart, TypeOK
    <3>2. ASSUME NEW s \in Sockets, NEW f \in Entries, NEW g \in Entries, Uses(f, s)', Uses(g, s)'
          PROVE  f = g
      BY <2>4, <2>5, <3>2 DEF Sound, Apart
    <3> QED BY <3>1, <3>2 DEF Apart
  <2> QED BY <1>1, <1>6, <2>2, <2>3, <2>6, LocalLinks DEF Sound
<1> QED BY <1>7, <1>8

(* The other steps of a request that keeps its entry.                       *)
LEMMA HolderSound ==
    ASSUME TypeOK, HasEntry, Holders, NotGivenUp, Sound, NEW r \in Requests,
           \/ ConnectFails(r) \/ PrewarmStarts(r) \/ StreamStarts(r)
           \/ PrewarmCompletes(r) \/ PrewarmEnds(r) \/ Ready(r)
           \/ FirstEvent(r) \/ GraceEnds(r) \/ Delivers(r)
    PROVE  Sound'
<1> USE NoneIsNone
<1> DEFINE e == mine[r]
<1>1. /\ mine' = mine /\ socket' = socket /\ state' = state /\ Owns(r) /\ Owns(r)'
      /\ \A q \in Requests : q # r => pc'[q] = pc[q] /\ sock'[q] = sock[q] /\ chain'[q] = chain[q]
  <2>1. ~fallback[e] \/ pc[r] # "stream"
    BY DEF NotGivenUp, Owns
  <2> QED BY <2>1
    DEF ConnectFails, PrewarmStarts, StreamStarts, AfterDump, PrewarmCompletes, PrewarmEnds,
        Ready, ContinuesChain, FirstEvent, GraceEnds, Delivers, Throw, TypeOK, Owns
<1>2. e \in Entries /\ LinkedAt(r)
  BY <1>1 DEF HasEntry, Sound, RequestsLinked
<1>3. /\ \A f \in Entries : f # e => continuation'[f] = continuation[f]
      /\ \/ continuation'[e] \in {None, continuation[e]}
         \/ pc[r] = "prewarm" /\ pc'[r] = "ready" /\ continuation'[e] = sock[r]
  BY <1>2 DEF ConnectFails, PrewarmStarts, StreamStarts, AfterDump, PrewarmCompletes,
     PrewarmEnds, Ready, ContinuesChain, FirstEvent, GraceEnds, Delivers, Throw, TypeOK
<1>4. Local(r)
  BY <1>1, <1>3 DEF Local
<1>5. LinkedAt(r)'
  <2>1. CASE ConnectFails(r) \/ PrewarmCompletes(r) \/ PrewarmEnds(r)
    BY <1>1, <1>2, <2>1 DEF ConnectFails, PrewarmCompletes, PrewarmEnds, Throw, TypeOK,
       LinkedAt, Streaming
  <2>2. CASE PrewarmStarts(r) \/ StreamStarts(r)
    BY <1>1, <1>2, <2>2 DEF PrewarmStarts, StreamStarts, AfterDump, Throw, TypeOK,
       LinkedAt, Streaming
  <2>3. CASE Ready(r)
    BY <1>1, <1>2, <2>3 DEF Ready, ContinuesChain, TypeOK, LinkedAt, Streaming, Sound, Linked
  <2>4. CASE FirstEvent(r) \/ GraceEnds(r) \/ Delivers(r)
    <3>1. ~fallback[e] \/ pc[r] # "stream"
      BY DEF NotGivenUp, Owns
    <3> QED BY <1>1, <1>2, <2>4, <3>1
        DEF FirstEvent, GraceEnds, Delivers, TypeOK, LinkedAt, Streaming
  <2> QED BY <2>1, <2>2, <2>3, <2>4
<1>6. \A s \in Sockets : sock'[r] = s \/ chain'[r] = s => Uses(e, s)
  <2>1. /\ sock'[r] = sock[r] \/ sock'[r] = socket[e]
        /\ chain'[r] = chain[r] \/ chain'[r] = continuation[e]
    <3>1. ~fallback[e] \/ pc[r] # "stream"
      BY DEF NotGivenUp, Owns
    <3> QED BY <3>1
      DEF ConnectFails, PrewarmStarts, StreamStarts, AfterDump, PrewarmCompletes, PrewarmEnds,
          Ready, ContinuesChain, FirstEvent, GraceEnds, Delivers, Throw, TypeOK
  <2> QED BY <1>1, <2>1 DEF Uses
<1>7. \A s \in Sockets : socket'[e] = s \/ continuation'[e] = s => Uses(e, s)
  BY <1>1, <1>3 DEF Uses
<1>8. UsesNoMore
  BY <1>2, <1>4, <1>6, <1>7, LocalUses
<1>9. \/ socket'[e] = None \/ continuation'[e] = None \/ continuation'[e] = socket'[e]
  BY <1>1, <1>2, <1>3 DEF Sound, Linked, LinkedAt
<1> QED BY <1>1, <1>4, <1>5, <1>8, <1>9, ApartKept, LocalLinks DEF Sound

(* The pool's and the server's steps.                                       *)
LEMMA OutsideSound ==
    ASSUME TypeOK, HasEntry, Sound,
           \/ Prune \/ RemoveEntry \/ \E s \in Sockets : ServerCloses(s) \/ Ages(s)
           \/ UNCHANGED vars
    PROVE  Sound'
<1> USE NoneIsNone
<1>1. pc' = pc /\ mine' = mine /\ sock' = sock /\ chain' = chain
  BY Unchanged DEF Prune, RemoveEntry, ServerCloses, Ages
<1>2. /\ \A f \in Entries :
            /\ socket'[f] \in {None, socket[f]}
            /\ continuation'[f] \in {None, continuation[f]}
      /\ \A s \in Sockets : state'[s] = "unused" => state[s] = "unused"
  BY Unchanged DEF Prune, RemoveEntry, ServerCloses, Ages, invalidate, TypeOK
<1>3. UsesNoMore
  BY <1>1, <1>2 DEF UsesNoMore, Uses, Owns
<1>4. Linked'
  BY <1>2 DEF Sound, Linked
<1>5. ASSUME NEW q \in Requests PROVE LinkedAt(q)'
  <2>1. Owns(q) => mine[q] \in Entries
    BY DEF HasEntry
  <2> QED BY <1>1, <1>2, <2>1, OthersLinked DEF Sound, RequestsLinked
<1> QED BY <1>3, <1>4, <1>5, ApartKept DEF Sound, RequestsLinked

(* An answered request knows no socket.                                     *)
Ended(r) ==
    /\ pc' = [pc EXCEPT ![r] = "done"]
    /\ sock' = [sock EXCEPT ![r] = None]
    /\ chain' = [chain EXCEPT ![r] = None]

LEMMA SoundStep ==
    ASSUME ~Reissue, TypeOK, HasEntry, Holders, NotGivenUp, Sound, [Next]_vars
    PROVE  Sound'
<1> USE DEF TypeOK
<1>1. ASSUME NEW r \in Requests, StreamCompletes(r) PROVE Sound'
  <2>1. /\ Releases(r) /\ Streaming(r) /\ UNCHANGED <<socket, state>>
        /\ continuation' = [continuation EXCEPT ![mine[r]] = sock[r]]
        /\ pc'[r] = "done" /\ sock'[r] = None /\ chain'[r] = None
        /\ \A q \in Requests : q # r => sock'[q] = sock[q] /\ chain'[q] = chain[q]
    BY <1>1 DEF StreamCompletes, Streaming, Answer, Free, Releases, Owns
  <2> QED BY <2>1, ReleaseSound
<1>2. ASSUME NEW r \in Requests, Releases(r), invalidate(mine[r]),
             \/ pc' = [pc EXCEPT ![r] = "caught"] /\ UNCHANGED <<sock, chain>>
             \/ Ended(r)
      PROVE  Sound'
  <2>1. /\ pc'[r] = "caught" \/ (pc'[r] = "done" /\ sock'[r] = None /\ chain'[r] = None)
        /\ \A q \in Requests : q # r => sock'[q] = sock[q] /\ chain'[q] = chain[q]
    <3>1. CASE pc' = [pc EXCEPT ![r] = "caught"] /\ sock' = sock /\ chain' = chain
      BY <1>2, <3>1
    <3>2. CASE Ended(r)
      BY <1>2, <3>2 DEF Ended
    <3> QED BY Zenon, <1>2, <3>1, <3>2
  <2> QED BY <1>2, <2>1, ReleaseSound
<1>3. ASSUME NEW r \in Requests, StreamRefused(r) PROVE Sound'
  <2>1. Releases(r) /\ invalidate(mine[r]) /\ Ended(r)
    BY <1>3 DEF StreamRefused, Streaming, Answer, Free, Releases, Owns, Ended
  <2> QED BY <1>2, <2>1
<1>4. ASSUME NEW r \in Requests, NEW kind \in Kinds, StreamInvalid(r, kind) PROVE Sound'
  <2>1. Releases(r) /\ invalidate(mine[r]) /\ Ended(r)
    BY <1>4 DEF StreamInvalid, Streaming, Answer, Free, Releases, Owns, Ended
  <2> QED BY <1>2, <2>1
<1>5. ASSUME NEW r \in Requests, NEW limit \in BOOLEAN, StreamAborted(r, limit) PROVE Sound'
  <2>1. Releases(r) /\ invalidate(mine[r])
    BY <1>5 DEF StreamAborted, Streaming, Answer, Free, Releases, Owns
  <2>2. \/ pc' = [pc EXCEPT ![r] = "caught"] /\ UNCHANGED <<sock, chain>>
        \/ Ended(r)
    BY <1>5 DEF StreamAborted, Answer, Ended
  <2> QED BY <1>2, <2>1, <2>2
<1>6. ASSUME NEW r \in Requests, Catch(r) PROVE Sound'
  <2>1. Releases(r) /\ invalidate(mine[r]) /\ Ended(r)
    BY <1>6 DEF Catch, CatchAbort, CatchFailure, Answer, Free, Releases, Owns, Ended
  <2> QED BY <1>2, <2>1
<1> QED
  BY StepCases, BeginSound, ConnectsSound, HolderSound, OutsideSound,
     <1>1, <1>3, <1>4, <1>5, <1>6

(* Cardinality speaks of the one holder of a busy entry.                    *)
LEMMA HoldersMeansOne == ASSUME Holders PROVE BusyForOne
<1> SUFFICES ASSUME NEW e \in Entries
             PROVE  LET holders == {r \in Requests : Owns(r) /\ mine[r] = e}
                    IN  IF busy[e] THEN Cardinality(holders) = 1 ELSE holders = {}
  BY DEF BusyForOne
<1> DEFINE holders == {r \in Requests : Owns(r) /\ mine[r] = e}
<1>1. CASE busy[e]
  <2>1. PICK r \in Requests : Owns(r) /\ mine[r] = e
    BY <1>1 DEF Holders
  <2>2. holders = {r}
    BY <2>1 DEF Holders
  <2> QED BY <1>1, <2>2, FS_Singleton
<1>2. CASE ~busy[e]
  BY <1>2 DEF Holders
<1> QED BY <1>1, <1>2

LEMMA OwnedSockets ==
    ASSUME TypeOK, HasEntry, Holders, Sound PROVE SocketsAreOwned
<1>1. BusyForOne
  BY HoldersMeansOne
<1>2. OneStreamPerSocket
  <2> SUFFICES ASSUME NEW q \in Requests, NEW r \in Requests,
                      Streaming(q) \/ pc[q] = "prewarm", Streaming(r) \/ pc[r] = "prewarm",
                      sock[q] = sock[r]
               PROVE  q = r
    BY DEF OneStreamPerSocket
  <2>1. Owns(q) /\ Owns(r) /\ mine[q] \in Entries /\ mine[r] \in Entries
    BY DEF Streaming, Owns, HasEntry
  <2>2. sock[q] \in Sockets
    BY DEF Sound, RequestsLinked, LinkedAt, TypeOK
  <2>3. Uses(mine[q], sock[q]) /\ Uses(mine[r], sock[q])
    BY <2>1 DEF Uses
  <2>4. mine[q] = mine[r]
    BY <2>1, <2>2, <2>3 DEF Sound, Apart
  <2> QED BY <2>1, <2>4 DEF Holders
<1>3. ChainOnItsSocket
  BY DEF ChainOnItsSocket, Sound, RequestsLinked, LinkedAt
<1> QED BY <1>1, <1>2, <1>3 DEF SocketsAreOwned

(* An entry is busy exactly while one request holds it, no two responses    *)
(* are streamed over one socket, and a request chains only to a response of *)
(* the socket it streams on: as long as no request starts between an        *)
(* aborted request's rejection and its catch, however many requests, dials, *)
(* removals and closes fall between the awaits of websocketFetch.           *)
THEOREM OwnedAtAllTimes == ~Reissue /\ Spec => []SocketsAreOwned
<1> DEFINE IInv == ~Reissue /\ TypeOK /\ HasEntry /\ Holders /\ NotGivenUp /\ Sound
<1>1. ~Reissue /\ Init => IInv
  BY NoneIsNone
  DEF Init, TypeOK, HasEntry, Owns, Places, Holders, NotGivenUp, Sound, Apart, Uses, Linked,
      RequestsLinked, LinkedAt, Streaming
<1>2. IInv /\ [Next]_vars => IInv'
  BY TypesStep, HasEntryStep, HoldersStep, NotGivenUpStep, SoundStep
<1>3. IInv => SocketsAreOwned
  BY OwnedSockets
<1> QED BY <1>1, <1>2, <1>3, PTL DEF Spec

(***************************************************************************)
(* TurnChain                                                               *)
(***************************************************************************)

ItemKinds == {"user", "assistant", "call", "output"}
Items == [kind : ItemKinds, n : Nat]

Continuations ==
    [id : {1}, input : Seq(Items), signature : Signatures, finalized : SUBSET Nat,
     held : SUBSET Items]

Flights ==
    [id : {1}, full : Seq(Items), sent : SUBSET Items, held : SUBSET Items,
     chained : BOOLEAN, turn : Nat]

TInv ==
    /\ history \in Seq(Items) /\ signature \in Signatures
    /\ items \in 0..MaxItems /\ ranCalls \subseteq 1..items /\ elsewhere \subseteq 1..items
    /\ chainedTo \in {Nothing} \cup Continuations
    /\ turn \in [id : 0..MaxTurns, input : Seq(Items), signature : Signatures]
    /\ overHttp \in BOOLEAN
    /\ flight \in {Nothing} \cup Flights
    /\ crossed \in 0..MaxCrossed /\ bodies \in 0..MaxItems
    /\ stamped \subseteq (1..items) \X (1..MaxTurns) \X (0..bodies)

-----------------------------------------------------------------------------
(* The inductive invariant of what is sent *)

Old(item) == item.n \in 1..items

(* Only items made so far are anywhere.                                     *)
Made ==
    /\ \A i \in 1..Len(history) : Old(history[i])
    /\ chainedTo # Nothing =>
          /\ \A i \in 1..Len(chainedTo.input) : Old(chainedTo.input[i])
          /\ \A item \in chainedTo.held : Old(item)
          /\ chainedTo.finalized \subseteq 1..items
    /\ flight # Nothing => \A item \in flight.held : Old(item)

IsLatest(s, k) ==
    /\ k \in 1..Len(s) /\ isUserTurnMessage(s[k])
    /\ \A j \in k + 1..Len(s) : ~isUserTurnMessage(s[j])

(* A history has a user message and repeats no item; a call that ran and    *)
(* its output are not in it before they are reported.                       *)
Written ==
    /\ history # <<>> => \E k \in 1..Len(history) : IsLatest(history, k)
    /\ ranCalls # {} => history # <<>>
    /\ \A i, j \in 1..Len(history) : history[i] = history[j] => i = j
    /\ \A n \in ranCalls : \A i \in 1..Len(history) :
          history[i].kind \in {"call", "output"} => history[i].n # n

(* Where an item of the conversation may be missing from what is held.      *)
Covered(item, held) == item \in held \/ (item.kind = "assistant" /\ item.n \in elsewhere)

(* What a trimmed suffix leaves out is held, and what it sends is not.      *)
Trims(item, held, final) ==
    /\ item.kind \in {"user", "output"} => item \notin held
    /\ item.kind = "assistant" => Covered(item, held)
    /\ item.kind = "call" => (item \in held <=> item.n \in final)

(* The same of calls that have yet to be reported.                          *)
Pends(held, final) ==
    \A n \in ranCalls : /\ Item("output", n) \notin held
                        /\ Item("call", n) \in held <=> n \in final

(* A history that does not extend the chained one parts from it at once.    *)
Parted(a, b) == a # <<>> /\ b # <<>> /\ a[1] # b[1]

Chained ==
    Idle /\ chainedTo # Nothing =>
        /\ chainedTo.input # <<>> /\ ~overHttp
        /\ \A i \in 1..Len(chainedTo.input) :
              Covered(chainedTo.input[i], chainedTo.held)
        /\ Pends(chainedTo.held, chainedTo.finalized)
        /\ \/ Parted(chainedTo.input, history)
           \/ /\ IsPrefix(chainedTo.input, history)
              /\ \A i \in Len(chainedTo.input) + 1..Len(history) :
                    Trims(history[i], chainedTo.held, chainedTo.finalized)

Base == IF flight.chained THEN chainedTo.finalized ELSE {}

Flying ==
    flight # Nothing =>
        /\ flight.full = history /\ history # <<>> /\ ~overHttp
        /\ \A i \in 1..Len(history) : Covered(history[i], flight.held \cup flight.sent)
        /\ flight.held \cap flight.sent = {}
        /\ flight.sent \subseteq ToSet(history)
        /\ flight.chained => chainedTo # Nothing
        /\ Pends(flight.held, Base)

SInv == TInv /\ Made /\ Written /\ Chained /\ Flying

-----------------------------------------------------------------------------
(* The inductive invariant of turns *)

(* Two requests' stamps: no id stands for two user messages, and no user    *)
(* message has two ids of one body.                                         *)
Agree(s, t) ==
    /\ s[2] = t[2] => s[1] = t[1]
    /\ s[1] = t[1] /\ s[3] = t[3] => s[2] = t[2]

(* Turn ids grow, and so do the bodies they were minted for: a body other   *)
(* than the last request's has stamped nothing.                             *)
Stamps ==
    /\ turn.id = 0 => stamped = {}
    /\ \A s \in stamped : s[2] <= turn.id /\ s[3] <= bodies
    /\ turn.signature # signature => \A s \in stamped : s[3] < bodies
    /\ \A s, t \in stamped : Agree(s, t)

(* The last request's user message carries the last turn id.                *)
LastStamped ==
    turn.id # 0 =>
        \E k \in 1..Len(turn.input) : \E b \in 0..bodies :
            /\ IsLatest(turn.input, k)
            /\ <<turn.input[k].n, turn.id, b>> \in stamped
            /\ \A s \in stamped : s[1] <= turn.input[k].n /\ s[3] <= b

(* The user has spoken since the last request.                              *)
Spoken == \E k \in 1..Len(history) :
            IsLatest(history, k) /\ \A s \in stamped : s[1] < history[k].n

(* The history only grew since then, and not by user messages.              *)
SameTurn ==
    /\ IsPrefix(turn.input, history)
    /\ \A i \in Len(turn.input) + 1..Len(history) : ~isUserTurnMessage(history[i])

Turns ==
    crossed = 0 =>
        /\ Stamps /\ LastStamped
        /\ history # <<>> => Spoken \/ (turn.id # 0 /\ SameTurn)
        /\ turn.id # 0 => history # <<>>
        /\ flight # Nothing => turn.id # 0 /\ turn.input = history /\ turn.signature = signature
        /\ Idle /\ chainedTo # Nothing =>
              turn.id # 0 /\ chainedTo.input = turn.input /\ chainedTo.signature = turn.signature

IInv == SInv /\ Turns

-----------------------------------------------------------------------------
(* Lemmas about the operators *)

LEMMA ToSetDef ==
    ASSUME NEW S, NEW s \in Seq(S), NEW x
    PROVE  x \in ToSet(s) <=> \E i \in 1..Len(s) : x = s[i]
  BY DEF ToSet

LEMMA PrefixDef ==
    ASSUME NEW S, NEW s \in Seq(S), NEW t \in Seq(S)
    PROVE  IsPrefix(s, t) <=> Len(s) <= Len(t) /\ \A i \in 1..Len(s) : s[i] = t[i]
<1>1. SubSeq(s, 1, Len(s)) = s
  BY SubSeqFull
<1>2. CASE Len(s) <= Len(t)
  <2>1. /\ SubSeq(t, 1, Len(s)) \in Seq(S) /\ Len(SubSeq(t, 1, Len(s))) = Len(s)
        /\ \A i \in 1..Len(s) : SubSeq(t, 1, Len(s))[i] = t[i]
    BY <1>2
  <2>2. s = SubSeq(t, 1, Len(s)) <=> \A i \in 1..Len(s) : s[i] = SubSeq(t, 1, Len(s))[i]
    BY <2>1, SeqEqual
  <2> QED BY <1>1, <1>2, <2>1, <2>2 DEF IsPrefix
<1>3. CASE ~(Len(s) <= Len(t))
  BY <1>3 DEF IsPrefix
<1> QED BY <1>2, <1>3

LEMMA RestSet ==
    ASSUME NEW S, NEW s \in Seq(S), NEW k \in 0..Len(s), NEW x
    PROVE  x \in ToSet(Rest(s, k)) <=> \E i \in k + 1..Len(s) : x = s[i]
<1>1. /\ Rest(s, k) \in Seq(S) /\ Len(Rest(s, k)) = Len(s) - k
      /\ \A i \in 1..Len(s) - k : Rest(s, k)[i] = s[k + i]
  BY DEF Rest
<1>2. x \in ToSet(Rest(s, k)) <=> \E i \in 1..Len(s) - k : x = s[k + i]
  <2>1. x \in ToSet(Rest(s, k)) <=> \E i \in 1..Len(Rest(s, k)) : x = Rest(s, k)[i]
    BY <1>1, ToSetDef
  <2>2. Len(Rest(s, k)) = Len(s) - k
    BY <1>1
  <2> HIDE DEF Rest
  <2> QED BY <1>1, <2>1, <2>2
<1>3. ASSUME NEW i \in k + 1..Len(s), x = s[i]
      PROVE  \E j \in 1..Len(s) - k : x = s[k + j]
  <2>1. i - k \in 1..Len(s) - k /\ k + (i - k) = i
    OBVIOUS
  <2> QED BY <1>3, <2>1
<1>4. ASSUME NEW j \in 1..Len(s) - k, x = s[k + j]
      PROVE  \E i \in k + 1..Len(s) : x = s[i]
  BY <1>4
<1> QED BY <1>2, <1>3, <1>4

(* The latest user message is the one after which there is none.            *)
LEMMA LatestIs ==
    ASSUME NEW s \in Seq(Items), NEW k \in 1..Len(s), IsLatest(s, k)
    PROVE  LatestUser(s) = s[k].n
<1> DEFINE P(i) == /\ isUserTurnMessage(s[i])
                   /\ \A j \in i + 1..Len(s) : ~isUserTurnMessage(s[j])
<1>1. P(k)
  BY DEF IsLatest
<1>2. ASSUME NEW i \in 1..Len(s), P(i) PROVE i = k
  <2>1. CASE i < k BY <2>1, <1>2, <1>1
  <2>2. CASE k < i BY <2>2, <1>2, <1>1
  <2> QED BY <2>1, <2>2
<1>3. (CHOOSE i \in 1..Len(s) : P(i)) = k
  BY <1>1, <1>2
<1> QED BY <1>3 DEF LatestUser

(* Appending keeps prefixes, and keeps the latest user message unless it    *)
(* appends one.                                                             *)
LEMMA PrefixGrows ==
    ASSUME NEW S, NEW s \in Seq(S), NEW t \in Seq(S), NEW u \in Seq(S), IsPrefix(s, t)
    PROVE  IsPrefix(s, t \o u)
<1>1. /\ t \o u \in Seq(S) /\ Len(t \o u) = Len(t) + Len(u)
      /\ \A i \in 1..Len(t) : (t \o u)[i] = t[i]
  BY ConcatProperties
<1>2. Len(s) <= Len(t) /\ \A i \in 1..Len(s) : s[i] = t[i]
  BY PrefixDef
<1>3. /\ Len(s) <= Len(t \o u)
      /\ \A i \in 1..Len(s) : s[i] = (t \o u)[i]
  BY <1>1, <1>2
<1> QED BY <1>1, <1>3, PrefixDef

LEMMA LatestStays ==
    ASSUME NEW s \in Seq(Items), NEW u \in Seq(Items), NEW k \in 1..Len(s), IsLatest(s, k),
           \A i \in 1..Len(u) : ~isUserTurnMessage(u[i])
    PROVE  IsLatest(s \o u, k) /\ (s \o u)[k] = s[k]
<1>1. /\ Len(s \o u) = Len(s) + Len(u) /\ Len(s) \in Nat /\ Len(u) \in Nat
      /\ \A i \in 1..Len(s) + Len(u) :
            (s \o u)[i] = IF i <= Len(s) THEN s[i] ELSE u[i - Len(s)]
  BY ConcatProperties
<1>2. ASSUME NEW j \in k + 1..Len(s) + Len(u) PROVE ~isUserTurnMessage((s \o u)[j])
  <2>1. CASE j <= Len(s) BY <2>1, <1>1 DEF IsLatest
  <2>2. CASE ~(j <= Len(s))
    <3>1. j - Len(s) \in 1..Len(u) BY <1>1, <2>2
    <3> QED BY <3>1, <2>2, <1>1
  <2> QED BY <2>1, <2>2
<1> QED BY <1>1, <1>2 DEF IsLatest

-----------------------------------------------------------------------------
(* Types *)

Turn == [id : 0..MaxTurns, input : Seq(Items), signature : Signatures]

LEMMA AdvanceType ==
    ASSUME NEW t \in Turn, NEW sent, NEW full \in Seq(Items), signature \in Signatures,
           advanceTurn(t, sent, full).id <= MaxTurns
    PROVE  /\ advanceTurn(t, sent, full) \in Turn
           /\ advanceTurn(t, sent, full).id \in 1..MaxTurns
           /\ advanceTurn(t, sent, full).id \in {t.id, t.id + 1}
           /\ advanceTurn(t, sent, full).input = full
           /\ advanceTurn(t, sent, full).signature = signature
  BY ChainAssumption DEF advanceTurn, Turn

(* The bodies of a request.                                                 *)
LEMMA Bodies ==
    ASSUME NEW c \in {Nothing} \cup Continuations, NEW full \in Seq(Items)
    PROVE  LET parts == withContinuation(c, full)
           IN  \/ parts = Body(FALSE, ToSet(full), Nothing)
               \/ c # Nothing /\ c.input = <<>> /\ parts = Body(TRUE, ToSet(full), c)
               \/ c # Nothing /\ parts = Body(FALSE, ToSet(full), c)
               \/ /\ c # Nothing /\ c.input # <<>> /\ c.signature = signature
                  /\ Len(c.input) < Len(full) /\ IsPrefix(c.input, full)
                  /\ parts = Body(TRUE, continuationInput(Rest(full, Len(c.input)), c.finalized), c)
  BY Zenon DEF withContinuation, hasContinuationPrefix

LEMMA ToSetType ==
    ASSUME NEW s \in Seq(Items)
    PROVE  ToSet(s) \subseteq Items
  BY DEF ToSet

(* What a trimmed body sends is of the suffix.                              *)
LEMMA TrimmedSent ==
    ASSUME NEW full \in Seq(Items), NEW k \in 0..Len(full), NEW final, NEW item
    PROVE  item \in continuationInput(Rest(full, k), final) <=>
              \E i \in k + 1..Len(full) :
                  /\ item = full[i]
                  /\ \/ item.kind \in {"user", "output"}
                     \/ item.kind = "call" /\ item.n \notin final
<1>1. item \in ToSet(Rest(full, k)) <=> \E i \in k + 1..Len(full) : item = full[i]
  BY RestSet
<1> QED BY <1>1 DEF continuationInput

(* Every body sends items of the history only.                              *)
LEMMA SentIsOfHistory ==
    ASSUME NEW c \in {Nothing} \cup Continuations, NEW full \in Seq(Items)
    PROVE  withContinuation(c, full).sent \subseteq ToSet(full)
<1> DEFINE trimmed == continuationInput(Rest(full, Len(c.input)), c.finalized)
<1>1. ASSUME c # Nothing, Len(c.input) < Len(full) PROVE trimmed \subseteq ToSet(full)
  <2>1. Len(c.input) \in 0..Len(full) /\ Len(full) \in Nat
    BY <1>1 DEF Continuations
  <2>2. ASSUME NEW item \in trimmed PROVE item \in ToSet(full)
    <3>1. \E i \in Len(c.input) + 1..Len(full) : item = full[i]
      BY <2>1, <2>2, TrimmedSent
    <3> QED BY <2>1, <3>1, ToSetDef
  <2> QED BY <2>2
<1>2. \/ withContinuation(c, full).sent = ToSet(full)
      \/ c # Nothing /\ Len(c.input) < Len(full) /\ withContinuation(c, full).sent = trimmed
  <2> HIDE DEF trimmed
  <2> QED BY Bodies DEF Body, trimmed
<1> QED BY <1>1, <1>2

LEMMA ItemType ==
    ASSUME NEW kind \in ItemKinds, NEW n \in Nat
    PROVE  /\ Item(kind, n) \in Items
           /\ Item(kind, n).kind = kind /\ Item(kind, n).n = n
  BY DEF Item, Items

LEMMA SaysType ==
    ASSUME NEW n \in Nat, NEW text \in BOOLEAN
    PROVE  /\ Says(n, text) \in Seq(Items) /\ Len(Says(n, text)) \in {0, 1}
           /\ \A i \in 1..Len(Says(n, text)) : i = 1 /\ Says(n, text)[i] = Item("assistant", n)
           /\ text <=> Len(Says(n, text)) = 1
<1>1. Item("assistant", n) \in Items
  BY ItemType DEF ItemKinds
<1> QED BY <1>1 DEF Says

(* The stamp of a request names a user message made and a turn id.          *)
LEMMA StampType ==
    ASSUME TInv, NEW fresh \in Nat, items <= fresh, NEW t, t.id \in 1..MaxTurns,
           NEW full \in Seq(Items), NEW k \in 1..Len(full), IsLatest(full, k),
           full[k].n \in 1..fresh, Stamp(t, full)
    PROVE  stamped' \subseteq (1..fresh) \X (1..MaxTurns) \X (0..bodies)
<1>1. LatestUser(full) = full[k].n
  BY LatestIs
<1>2. <<LatestUser(full), t.id, bodies>> \in (1..fresh) \X (1..MaxTurns) \X (0..bodies)
  BY <1>1, ChainAssumption DEF TInv
<1>3. 1..items \subseteq 1..fresh
  BY DEF TInv
<1> QED BY <1>2, <1>3 DEF Stamp, TInv

LEMMA SendsType ==
    ASSUME TInv, Made, Written, Idle, history # <<>>, NEW c \in {Nothing} \cup Continuations, Sends(c)
    PROVE  /\ chainedTo' \in {Nothing, c}
           /\ turn' \in Turn
           /\ stamped' \subseteq (1..items) \X (1..MaxTurns) \X (0..bodies)
           /\ flight' \in Flights
<1> DEFINE parts == withContinuation(c, history)
<1> DEFINE t == advanceTurn(turn, parts.sent, history)
<1>1. history \in Seq(Items) /\ turn \in Turn /\ signature \in Signatures
  BY DEF TInv, Turn
<1>2. /\ parts.left \in {Nothing, c} /\ parts.chained \in BOOLEAN /\ parts.sent \subseteq ToSet(history)
      /\ parts.chained => c # Nothing
  <2>1. parts.sent \subseteq ToSet(history)
    BY <1>1, SentIsOfHistory
  <2>2. \/ parts = Body(FALSE, ToSet(history), Nothing)
        \/ c # Nothing /\ parts = Body(TRUE, ToSet(history), c)
        \/ c # Nothing /\ parts = Body(FALSE, ToSet(history), c)
        \/ /\ c # Nothing
           /\ parts = Body(TRUE, continuationInput(Rest(history, Len(c.input)), c.finalized), c)
    BY <1>1, Bodies
  <2>3. ASSUME NEW linked, NEW sent, NEW left, parts = Body(linked, sent, left)
        PROVE  parts.chained = linked /\ parts.left = left
    BY <2>3 DEF Body
  <2> HIDE DEF parts
  <2>4. CASE parts = Body(FALSE, ToSet(history), Nothing)
    BY <2>1, <2>3, <2>4
  <2>5. CASE c # Nothing /\ parts = Body(TRUE, ToSet(history), c)
    BY <2>1, <2>3, <2>5
  <2>6. CASE c # Nothing /\ parts = Body(FALSE, ToSet(history), c)
    BY <2>1, <2>3, <2>6
  <2>7. CASE /\ c # Nothing
             /\ parts = Body(TRUE, continuationInput(Rest(history, Len(c.input)), c.finalized), c)
    BY <2>1, <2>3, <2>7
  <2> QED BY <2>2, <2>4, <2>5, <2>6, <2>7
<1>2a. t.id <= MaxTurns
  BY DEF Sends
<1>3. t \in Turn /\ t.id \in 1..MaxTurns
  <2> HIDE DEF parts
  <2> QED BY <1>1, <1>2a, AdvanceType
<1>4. PICK k \in 1..Len(history) : IsLatest(history, k)
  BY DEF Written
<1>5. stamped' \subseteq (1..items) \X (1..MaxTurns) \X (0..bodies)
  <2>1. history[k].n \in 1..items
    BY DEF Made, Old
  <2>2. Stamp(t, history)
    BY DEF Sends
  <2>3. items \in Nat /\ items <= items
    BY ChainAssumption DEF TInv
  <2> HIDE DEF t
  <2> QED BY <1>1, <1>3, <1>4, <2>1, <2>2, <2>3, StampType
<1>6. flight' \in Flights
  <2>1. flight' = [id |-> 1, full |-> history, sent |-> parts.sent,
                   held |-> IF parts.chained THEN c.held ELSE {}, chained |-> parts.chained,
                   turn |-> t.id]
    BY DEF Sends
  <2>2. (IF parts.chained THEN c.held ELSE {}) \subseteq Items
    BY <1>2 DEF Continuations
  <2>3. parts.sent \subseteq Items
    BY <1>1, <1>2, ToSetType
  <2>4. t.id \in Nat
    BY <1>3
  <2> HIDE DEF parts, t
  <2> QED BY <1>1, <1>2, <2>1, <2>2, <2>3, <2>4 DEF Flights
<1> QED BY <1>2, <1>3, <1>5, <1>6 DEF Sends

LEMMA UpdateType ==
    ASSUME TInv, Flying, ~Idle, NEW n \in Nat, NEW text \in BOOLEAN, NEW calls \in BOOLEAN
    PROVE  updateContinuation(n, text, calls) \in Continuations
<1>1. flight \in Flights /\ flight # Nothing
  BY DEF TInv, Idle
<1>2. flight.chained => chainedTo \in Continuations
  BY <1>1 DEF TInv, Flying
<1>3. (IF flight.chained THEN chainedTo.finalized ELSE {}) \cup (IF calls THEN {n} ELSE {})
        \subseteq Nat
  BY <1>2 DEF Continuations
<1>4. flight.held \cup flight.sent \cup ToSet(Says(n, text))
          \cup (IF calls THEN {Item("call", n)} ELSE {}) \subseteq Items
  <2>1. ToSet(Says(n, text)) \subseteq Items
    BY SaysType, ToSetType
  <2>2. Item("call", n) \in Items
    BY ItemType DEF ItemKinds
  <2> QED BY <1>1, <2>1, <2>2 DEF Flights
<1>5. flight.full \in Seq(Items) /\ signature \in Signatures
  BY <1>1 DEF TInv, Flights
<1> QED BY <1>3, <1>4, <1>5 DEF updateContinuation, Continuations

LEMMA TypeStep ==
    ASSUME TInv, Made, Written, Flying, [ChainNext]_chainVars
    PROVE  TInv'
<1> USE ChainAssumption
<1>0. /\ items \in Nat /\ items + 1 \in Nat /\ 1..items \subseteq 1..items + 1
      /\ MaxItems \in Nat /\ MaxTurns \in Nat
      /\ bodies \in Nat /\ (HasRoom => items + 1 \in 0..MaxItems /\ bodies + 1 \in 0..MaxItems)
  BY DEF TInv, HasRoom
<1>1. CASE UserSpeaks
  <2>1. Item("user", items + 1) \in Items
    BY <1>0, ItemType DEF ItemKinds
  <2> QED BY <1>0, <1>1, <2>1 DEF UserSpeaks, TInv
<1>2. CASE Compact
  <2>1. Item("user", items + 1) \in Items
    BY <1>0, ItemType DEF ItemKinds
  <2> QED BY <1>0, <1>2, <2>1 DEF Compact, TInv
<1>3. ASSUME NEW n \in ranCalls, Reports(n) PROVE TInv'
  <2>1. n \in Nat
    BY DEF TInv
  <2>2. Item("call", n) \in Items /\ Item("output", n) \in Items
    BY <2>1, ItemType DEF ItemKinds
  <2>3. history' \in Seq(Items)
    BY <1>3, <2>2 DEF Reports, TInv
  <2> QED BY <1>3, <2>3 DEF Reports, TInv
<1>4. ASSUME NEW text \in BOOLEAN, NEW calls \in BOOLEAN, OtherLane(text, calls) PROVE TInv'
  <2>1. Says(items + 1, text) \in Seq(Items)
    BY <1>0, SaysType
  <2>2. history' \in Seq(Items)
    BY <1>4, <2>1 DEF OtherLane, TInv
  <2> QED BY <1>0, <1>4, <2>2 DEF OtherLane, TInv
<1>5. ASSUME NEW text \in BOOLEAN, NEW calls \in BOOLEAN, Completes(text, calls) PROVE TInv'
  <2>1. Says(items + 1, text) \in Seq(Items)
    BY <1>0, SaysType
  <2>2. history' \in Seq(Items)
    BY <1>5, <2>1 DEF Completes, TInv
  <2>3. chainedTo' \in Continuations
    BY <1>0, <1>5, UpdateType DEF Completes
  <2>4. /\ items' = items + 1 /\ items' \in 0..MaxItems
        /\ ranCalls' \subseteq ranCalls \cup {items'}
        /\ UNCHANGED <<signature, bodies, elsewhere, turn, overHttp, stamped, crossed>>
        /\ flight' = Nothing
    BY <1>0, <1>5 DEF Completes, HasRoom, TInv
  <2>5. ranCalls' \subseteq 1..items' /\ elsewhere \subseteq 1..items'
        /\ stamped \subseteq (1..items') \X (1..MaxTurns) \X (0..bodies)
    BY <1>0, <2>4 DEF TInv
  <2> QED BY <2>2, <2>3, <2>4, <2>5 DEF TInv
<1>6. CASE Request
  <2>1. FreshChain \in Continuations
    <3>1. <<>> \in Seq(Items)
      OBVIOUS
    <3> QED BY <3>1 DEF FreshChain, Continuations, TInv
  <2>2. PICK c \in {Nothing} \cup Continuations : Sends(c)
    BY <1>6, <2>1 DEF Request, TInv
  <2>3. /\ chainedTo' \in {Nothing, c} /\ turn' \in Turn
        /\ stamped' \subseteq (1..items) \X (1..MaxTurns) \X (0..bodies) /\ flight' \in Flights
    BY <1>6, <2>2, SendsType DEF Request
  <2> QED BY <1>6, <2>3 DEF Request, TInv, Turn
<1>7. ASSUME NEW keep \in BOOLEAN, Cut(keep) PROVE TInv'
  <2>1. /\ Item("assistant", items + 1) \in Items /\ Item("call", items + 1) \in Items
        /\ Item("output", items + 1) \in Items
    BY <1>0, ItemType DEF ItemKinds
  <2>2. history' \in Seq(Items)
    <3>1. <<Item("assistant", items + 1), Item("call", items + 1), Item("output", items + 1)>>
              \in Seq(Items)
      BY <2>1
    <3>2. history \in Seq(Items)
      BY DEF TInv
    <3>3. CASE keep
      <4>1. history' = history \o <<Item("assistant", items + 1), Item("call", items + 1),
                                    Item("output", items + 1)>>
        BY <1>7, <3>3 DEF Cut
      <4> QED BY <3>1, <3>2, <4>1, ConcatProperties
    <3>4. CASE ~keep
      BY <1>7, <3>2, <3>4 DEF Cut
    <3> QED BY <3>3, <3>4
  <2>3. items' \in 0..MaxItems /\ items <= items'
    BY <1>0, <1>7 DEF Cut, TInv
  <2> QED BY <1>0, <1>7, <2>2, <2>3 DEF Cut, TInv
<1>8. CASE FallsBack
  <2> DEFINE t == advanceTurn(turn, ToSet(flight.full), flight.full)
  <2>1. history \in Seq(Items) /\ flight.full = history /\ history # <<>> /\ turn \in Turn
    BY <1>8 DEF TInv, FallsBack, Flying, Idle, Turn
  <2>2. t.id <= MaxTurns /\ turn' = t /\ Stamp(t, history)
    BY <1>8, <2>1 DEF FallsBack
  <2>3. t \in Turn /\ t.id \in 1..MaxTurns
    BY <2>1, <2>2, AdvanceType DEF TInv
  <2>4. PICK k \in 1..Len(history) : IsLatest(history, k)
    BY <2>1 DEF Written
  <2>5. history[k].n \in 1..items
    BY DEF Made, Old
  <2> HIDE DEF t
  <2>6. stamped' \subseteq (1..items) \X (1..MaxTurns) \X (0..bodies)
    BY <1>0, <2>1, <2>2, <2>3, <2>4, <2>5, StampType
  <2> QED BY <1>8, <2>2, <2>3, <2>6 DEF FallsBack, TInv, Turn
<1>9. CASE HttpRequest
  <2> DEFINE t == advanceTurn(turn, ToSet(history), history)
  <2>1. history \in Seq(Items) /\ history # <<>> /\ turn \in Turn
    BY <1>9 DEF TInv, HttpRequest, Turn
  <2>2. t.id <= MaxTurns /\ turn' = t /\ Stamp(t, history)
    BY <1>9 DEF HttpRequest
  <2>3. t \in Turn /\ t.id \in 1..MaxTurns
    BY <2>1, <2>2, AdvanceType DEF TInv
  <2>4. PICK k \in 1..Len(history) : IsLatest(history, k)
    BY <2>1 DEF Written
  <2>5. history[k].n \in 1..items
    BY DEF Made, Old
  <2> HIDE DEF t
  <2>6. stamped' \subseteq (1..items) \X (1..MaxTurns) \X (0..bodies)
    BY <1>0, <2>1, <2>2, <2>3, <2>4, <2>5, StampType
  <2> QED BY <1>9, <2>2, <2>3, <2>6 DEF HttpRequest, TInv, Turn
<1>10. CASE BusyRequest
  <2> DEFINE another == <<Item("user", items + 1)>>
  <2> DEFINE t == advanceTurn(turn, ToSet(another), another)
  <2>1. Item("user", items + 1) \in Items /\ Item("user", items + 1).kind = "user"
        /\ Item("user", items + 1).n = items + 1
    BY <1>0, ItemType DEF ItemKinds
  <2>2. another \in Seq(Items) /\ turn \in Turn
    BY <2>1 DEF TInv, Turn
  <2>3. t.id <= MaxTurns /\ turn' = t /\ Stamp(t, another)
    BY <1>10 DEF BusyRequest
  <2>4. t \in Turn /\ t.id \in 1..MaxTurns
    <3> HIDE DEF another
    <3> QED BY <2>2, <2>3, AdvanceType DEF TInv
  <2>5. /\ 1 \in 1..Len(another) /\ IsLatest(another, 1) /\ another[1].n \in 1..items + 1
    BY <1>0, <2>1 DEF IsLatest, isUserTurnMessage
  <2> HIDE DEF t, another
  <2>6. stamped' \subseteq (1..items + 1) \X (1..MaxTurns) \X (0..bodies)
    BY <1>0, <2>2, <2>3, <2>4, <2>5, StampType
  <2>7. /\ items' = items + 1 /\ items' \in 0..MaxItems /\ crossed' \in 0..MaxCrossed
        /\ UNCHANGED <<history, signature, bodies, chainedTo, ranCalls, elsewhere, overHttp, flight>>
    BY <1>0, <1>10 DEF BusyRequest, TInv
  <2>8. ranCalls \subseteq 1..items' /\ elsewhere \subseteq 1..items'
    BY <1>0, <2>7 DEF TInv
  <2> QED BY <2>3, <2>4, <2>6, <2>7, <2>8 DEF TInv, Turn
<1>11. CASE Disconnects
  BY <1>11 DEF Disconnects, TInv
<1>12. CASE BodyChanges
  <2>1. /\ signature' \in Signatures /\ bodies' = bodies + 1 /\ bodies' \in 0..MaxItems
        /\ UNCHANGED <<history, items, ranCalls, elsewhere, chainedTo, turn, overHttp, flight, stamped,
                       crossed>>
    BY <1>0, <1>12 DEF BodyChanges
  <2>2. stamped \subseteq (1..items) \X (1..MaxTurns) \X (0..bodies')
    <3>1. 0..bodies \subseteq 0..bodies'
      BY <1>0, <2>1
    <3> QED BY <3>1 DEF TInv
  <2> QED BY <2>1, <2>2 DEF TInv
<1>13. CASE UNCHANGED chainVars
  BY <1>13 DEF chainVars, TInv
<1> QED BY <1>1, <1>2, <1>3, <1>4, <1>5, <1>6, <1>7, <1>8, <1>9, <1>10, <1>11, <1>12, <1>13
        DEF ChainNext

-----------------------------------------------------------------------------
(* What is sent *)

LEMMA GrowPoints ==
    ASSUME TInv, NEW t \in Seq(Items), history' = history \o t
    PROVE  /\ history' \in Seq(Items)
           /\ Len(history') = Len(history) + Len(t)
           /\ Len(history) \in Nat /\ Len(t) \in Nat
           /\ \A i \in 1..Len(history) : history'[i] = history[i]
           /\ \A i \in Len(history) + 1..Len(history') :
                 i - Len(history) \in 1..Len(t) /\ history'[i] = t[i - Len(history)]
<1>1. history \in Seq(Items)
  BY DEF TInv
<1>2. /\ history \o t \in Seq(Items) /\ Len(history \o t) = Len(history) + Len(t)
      /\ \A i \in 1..Len(history) + Len(t) :
            (history \o t)[i] = IF i <= Len(history) THEN history[i] ELSE t[i - Len(history)]
  BY <1>1, ConcatProperties
<1> QED BY <1>1, <1>2

(* A history that grows by items not in it yet keeps its shape.             *)
LEMMA WrittenGrows ==
    ASSUME TInv, Written, NEW t \in Seq(Items), history' = history \o t,
           \A i, j \in 1..Len(t) : t[i] = t[j] => i = j,
           \A i \in 1..Len(t) : \A j \in 1..Len(history) : t[i] # history[j],
           \/ history # <<>> /\ \A i \in 1..Len(t) : ~isUserTurnMessage(t[i])
           \/ Len(t) = 1 /\ isUserTurnMessage(t[1])
    PROVE  /\ \E k \in 1..Len(history') : IsLatest(history', k)
           /\ \A i, j \in 1..Len(history') : history'[i] = history'[j] => i = j
<1>1. /\ Len(history') = Len(history) + Len(t)
      /\ Len(history) \in Nat /\ Len(t) \in Nat
      /\ \A i \in 1..Len(history) : history'[i] = history[i]
      /\ \A i \in Len(history) + 1..Len(history') :
            i - Len(history) \in 1..Len(t) /\ history'[i] = t[i - Len(history)]
  BY GrowPoints
<1>2. \E k \in 1..Len(history') : IsLatest(history', k)
  <2>1. CASE history # <<>> /\ \A i \in 1..Len(t) : ~isUserTurnMessage(t[i])
    <3>1. PICK k \in 1..Len(history) : IsLatest(history, k)
      BY <2>1 DEF Written
    <3>2. IsLatest(history \o t, k)
      BY <2>1, <3>1, LatestStays DEF TInv
    <3> QED BY <1>1, <3>2
  <2>2. CASE Len(t) = 1 /\ isUserTurnMessage(t[1])
    <3>1. Len(history') \in Len(history) + 1..Len(history') /\ Len(history') - Len(history) = 1
      BY <1>1, <2>2
    <3>2. history'[Len(history')] = t[1]
      BY <1>1, <3>1
    <3>3. IsLatest(history', Len(history'))
      BY <1>1, <2>2, <3>1, <3>2 DEF IsLatest
    <3> QED BY <1>1, <3>1, <3>3
  <2> QED BY <2>1, <2>2
<1>3. ASSUME NEW i \in 1..Len(history'), NEW j \in 1..Len(history'), history'[i] = history'[j]
      PROVE  i = j
  <2>1. CASE i <= Len(history) /\ j <= Len(history)
    BY <1>1, <1>3, <2>1 DEF Written
  <2>2. CASE i <= Len(history) /\ ~(j <= Len(history))
    <3>1. /\ i \in 1..Len(history) /\ j \in Len(history) + 1..Len(history')
      BY <1>1, <1>3, <2>2
    <3>2. history[i] = t[j - Len(history)] /\ j - Len(history) \in 1..Len(t)
      BY <1>1, <1>3, <3>1
    <3> QED BY <3>1, <3>2
  <2>3. CASE ~(i <= Len(history)) /\ j <= Len(history)
    BY <1>1, <1>3, <2>3
  <2>4. CASE ~(i <= Len(history)) /\ ~(j <= Len(history))
    <3>1. t[i - Len(history)] = t[j - Len(history)]
      BY <1>1, <1>3, <2>4
    <3>2. i - Len(history) \in 1..Len(t) /\ j - Len(history) \in 1..Len(t)
      BY <1>1, <2>4
    <3>3. i - Len(history) = j - Len(history)
      BY <3>1, <3>2
    <3> QED BY <1>1, <3>3
  <2> QED BY <2>1, <2>2, <2>3, <2>4
<1> QED BY <1>2, <1>3

(* A chain stays right while the history grows by items that a trim would   *)
(* treat right.                                                             *)
LEMMA ChainGrows ==
    ASSUME TInv, Chained, Idle, chainedTo # Nothing, chainedTo' = chainedTo,
           NEW t \in Seq(Items), history' = history \o t, elsewhere \subseteq elsewhere',
           history # <<>>,
           \A i \in 1..Len(t) : Trims(t[i], chainedTo.held, chainedTo.finalized)'
    PROVE  /\ \A i \in 1..Len(chainedTo.input) :
                 Covered(chainedTo.input[i], chainedTo.held)'
           /\ \/ Parted(chainedTo.input, history)'
              \/ /\ IsPrefix(chainedTo.input, history)'
                 /\ \A i \in Len(chainedTo.input) + 1..Len(history') :
                       Trims(history[i], chainedTo.held, chainedTo.finalized)'
<1>1. /\ Len(history') = Len(history) + Len(t)
      /\ Len(history) \in Nat /\ Len(t) \in Nat
      /\ \A i \in 1..Len(history) : history'[i] = history[i]
      /\ \A i \in Len(history) + 1..Len(history') :
            i - Len(history) \in 1..Len(t) /\ history'[i] = t[i - Len(history)]
  BY GrowPoints
<1>2. history \in Seq(Items) /\ chainedTo.input \in Seq(Items)
  BY DEF TInv, Continuations
<1>3. \A i \in 1..Len(chainedTo.input) : Covered(chainedTo.input[i], chainedTo.held)'
  BY DEF Chained, Covered
<1>4. CASE Parted(chainedTo.input, history)
  <2>1. 1 \in 1..Len(history)
    BY <1>2, <1>4 DEF Parted
  <2>2. history' # <<>> /\ history'[1] = history[1]
    BY <1>1, <1>2, <2>1, GrowPoints
  <2> QED BY <1>3, <1>4, <2>2 DEF Parted
<1>5. CASE /\ IsPrefix(chainedTo.input, history)
           /\ \A i \in Len(chainedTo.input) + 1..Len(history) :
                 Trims(history[i], chainedTo.held, chainedTo.finalized)
  <2>1. IsPrefix(chainedTo.input, history \o t)
    BY <1>2, <1>5, PrefixGrows
  <2>2. Len(chainedTo.input) \in Nat /\ Len(chainedTo.input) <= Len(history)
    BY <1>2, <1>5, PrefixDef
  <2>3. ASSUME NEW i \in Len(chainedTo.input) + 1..Len(history')
        PROVE  Trims(history[i], chainedTo.held, chainedTo.finalized)'
    <3>1. CASE i <= Len(history)
      <4>1. Trims(history[i], chainedTo.held, chainedTo.finalized)
        BY <1>5, <2>2, <3>1
      <4>2. history'[i] = history[i]
        BY <1>1, <2>2, <3>1
      <4> QED BY <4>1, <4>2 DEF Trims, Covered
    <3>2. CASE ~(i <= Len(history))
      <4>1. i - Len(history) \in 1..Len(t) /\ history'[i] = t[i - Len(history)]
        BY <1>1, <2>2, <3>2
      <4> QED BY <4>1 DEF Trims, Covered
    <3> QED BY <3>1, <3>2
  <2> QED BY <1>3, <2>1, <2>3
<1> QED BY <1>4, <1>5 DEF Chained

LEMMA MadeGrows ==
    ASSUME TInv, Made, NEW t \in Seq(Items), history' = history \o t,
           items' \in Nat, items <= items', \A i \in 1..Len(t) : t[i].n \in 1..items',
           chainedTo' \in {chainedTo, Nothing}, flight' \in {flight, Nothing}
    PROVE  Made'
<1>1. 1..items \subseteq 1..items'
  BY ChainAssumption DEF TInv
<1>2. \A i \in 1..Len(history') : history'[i].n \in 1..items'
  <2>1. ASSUME NEW i \in 1..Len(history') PROVE history'[i].n \in 1..items'
    <3>1. CASE i <= Len(history)
      <4>1. i \in 1..Len(history) /\ history'[i] = history[i]
        BY <3>1, GrowPoints
      <4> QED BY <1>1, <4>1 DEF Made, Old
    <3>2. CASE ~(i <= Len(history))
      <4>1. i - Len(history) \in 1..Len(t) /\ history'[i] = t[i - Len(history)]
        BY <3>2, GrowPoints
      <4> QED BY <4>1
    <3> QED BY <3>1, <3>2
  <2> QED BY <2>1
<1>3. chainedTo' # Nothing => chainedTo' = chainedTo /\ chainedTo # Nothing
  OBVIOUS
<1>4. flight' # Nothing => flight' = flight /\ flight # Nothing
  OBVIOUS
<1> QED BY <1>1, <1>2, <1>3, <1>4 DEF Made, Old

(* An item made now is nowhere yet.                                         *)
LEMMA NewItems ==
    ASSUME TInv, Made, NEW kind \in ItemKinds
    PROVE  /\ Item(kind, items + 1) \in Items /\ items + 1 \in Nat
           /\ \A i \in 1..Len(history) : Item(kind, items + 1) # history[i]
           /\ \A n \in ranCalls : n # items + 1
           /\ chainedTo # Nothing =>
                 /\ Item(kind, items + 1) \notin chainedTo.held
                 /\ items + 1 \notin chainedTo.finalized
           /\ flight # Nothing => Item(kind, items + 1) \notin flight.held
<1>1. items \in Nat /\ items + 1 \notin 1..items /\ items + 1 \in Nat
  BY ChainAssumption DEF TInv
<1>2. Item(kind, items + 1) \in Items /\ Item(kind, items + 1).n = items + 1
  BY <1>1, ItemType
<1> QED BY <1>1, <1>2 DEF Made, Old, TInv

LEMMA ChainBegun ==
    ASSUME TInv, Chained, Idle, chainedTo # Nothing
    PROVE  history # <<>> /\ chainedTo \in Continuations
<1>1. chainedTo \in Continuations /\ history \in Seq(Items)
  BY DEF TInv
<1>2. CASE IsPrefix(chainedTo.input, history)
  <2>1. Len(chainedTo.input) <= Len(history) /\ chainedTo.input \in Seq(Items)
    BY <1>1, <1>2, PrefixDef DEF Continuations
  <2>2. chainedTo.input # <<>>
    BY DEF Chained
  <2> QED BY <1>1, <2>1, <2>2
<1> QED BY <1>1, <1>2 DEF Chained, Parted

LEMMA GrowsWritten ==
    ASSUME TInv, Written, NEW t \in Seq(Items), history' = history \o t,
           \A i, j \in 1..Len(t) : t[i] = t[j] => i = j,
           \A i \in 1..Len(t) : \A j \in 1..Len(history) : t[i] # history[j],
           \/ history # <<>> /\ \A i \in 1..Len(t) : ~isUserTurnMessage(t[i])
           \/ Len(t) = 1 /\ isUserTurnMessage(t[1]),
           \A n \in ranCalls' :
              /\ \A i \in 1..Len(history) :
                    history[i].kind \in {"call", "output"} => history[i].n # n
              /\ \A i \in 1..Len(t) : t[i].kind \in {"call", "output"} => t[i].n # n
    PROVE  Written'
<1>1. /\ \E k \in 1..Len(history') : IsLatest(history', k)
      /\ \A i, j \in 1..Len(history') : history'[i] = history'[j] => i = j
  BY WrittenGrows
<1>2. ASSUME NEW n \in ranCalls', NEW i \in 1..Len(history'),
             history'[i].kind \in {"call", "output"}
      PROVE  history'[i].n # n
  <2>1. CASE i <= Len(history)
    <3>1. i \in 1..Len(history) /\ history'[i] = history[i]
      BY <2>1, GrowPoints
    <3> QED BY <1>2, <3>1
  <2>2. CASE ~(i <= Len(history))
    <3>1. i - Len(history) \in 1..Len(t) /\ history'[i] = t[i - Len(history)]
      BY <2>2, GrowPoints
    <3> QED BY <1>2, <3>1
  <2> QED BY <2>1, <2>2
<1>3. history' # <<>>
  BY <1>1
<1> QED BY <1>1, <1>2, <1>3 DEF Written

(* A step that makes the history grow keeps what is sent right, if what is  *)
(* added is new, and is what a trim of it would take it to be.              *)
LEMMA Grows ==
    ASSUME SInv, NEW t \in Seq(Items), history' = history \o t,
           items' \in Nat, items <= items', \A i \in 1..Len(t) : t[i].n \in 1..items',
           flight' = Nothing, overHttp' = overHttp, elsewhere \subseteq elsewhere',
           \A i, j \in 1..Len(t) : t[i] = t[j] => i = j,
           \A i \in 1..Len(t) : \A j \in 1..Len(history) : t[i] # history[j],
           \/ history # <<>> /\ \A i \in 1..Len(t) : ~isUserTurnMessage(t[i])
           \/ Len(t) = 1 /\ isUserTurnMessage(t[1]),
           \A n \in ranCalls' :
              /\ \A i \in 1..Len(history) :
                    history[i].kind \in {"call", "output"} => history[i].n # n
              /\ \A i \in 1..Len(t) : t[i].kind \in {"call", "output"} => t[i].n # n,
           chainedTo' # Nothing =>
              /\ flight = Nothing /\ chainedTo' = chainedTo
              /\ \A i \in 1..Len(t) : Trims(t[i], chainedTo.held, chainedTo.finalized)'
              /\ Pends(chainedTo.held, chainedTo.finalized)'
    PROVE  Made' /\ Written' /\ Chained' /\ Flying'
<1> USE DEF SInv
<1>1. Made'
  <2>1. chainedTo' \in {chainedTo, Nothing} /\ flight' \in {flight, Nothing}
    OBVIOUS
  <2> QED BY <2>1, MadeGrows
<1>2. Written'
  BY GrowsWritten
<1>3. Chained'
  <2>1. ASSUME chainedTo' # Nothing PROVE Chained'
    <3>1. Idle /\ chainedTo # Nothing /\ history # <<>>
      BY <2>1, ChainBegun DEF Idle
    <3>2. /\ \A i \in 1..Len(chainedTo.input) :
                 Covered(chainedTo.input[i], chainedTo.held)'
          /\ \/ Parted(chainedTo.input, history)'
             \/ /\ IsPrefix(chainedTo.input, history)'
                /\ \A i \in Len(chainedTo.input) + 1..Len(history') :
                      Trims(history[i], chainedTo.held, chainedTo.finalized)'
      BY <2>1, <3>1, ChainGrows
    <3>3. chainedTo'.input # <<>> /\ ~overHttp'
      BY <2>1, <3>1 DEF Chained
    <3> QED BY <2>1, <3>2, <3>3 DEF Chained
  <2> QED BY <2>1 DEF Chained
<1>4. Flying'
  BY DEF Flying
<1> QED BY <1>1, <1>2, <1>3, <1>4

LEMMA UserSpeaksSent ==
    ASSUME SInv, UserSpeaks
    PROVE  Made' /\ Written' /\ Chained' /\ Flying'
<1> USE DEF SInv
<1>1. PICK new : new = Item("user", items + 1)
  OBVIOUS
<1>2. PICK t : t = <<new>>
  OBVIOUS
<1>3. /\ new \in Items /\ new.kind = "user" /\ new.n = items + 1 /\ items + 1 \in Nat
      /\ \A i \in 1..Len(history) : new # history[i]
      /\ chainedTo # Nothing => new \notin chainedTo.held
  BY <1>1, NewItems, ItemType DEF ItemKinds
<1>4. /\ t \in Seq(Items) /\ Len(t) = 1 /\ t[1] = new /\ \A i \in 1..Len(t) : i = 1
      /\ history' = history \o t
      /\ flight = Nothing /\ flight' = Nothing /\ chainedTo' = chainedTo /\ ranCalls' = ranCalls
      /\ elsewhere' = elsewhere /\ items' = items + 1 /\ overHttp' = overHttp
  BY <1>1, <1>2, <1>3 DEF UserSpeaks, TInv, Idle
<1>5. items <= items' /\ items' \in Nat /\ \A i \in 1..Len(t) : t[i].n \in 1..items'
  BY <1>3, <1>4, ChainAssumption DEF TInv
<1>6. isUserTurnMessage(t[1])
  BY <1>3, <1>4 DEF isUserTurnMessage
<1>7. /\ \A i \in 1..Len(t) : \A j \in 1..Len(history) : t[i] # history[j]
      /\ \A i, j \in 1..Len(t) : t[i] = t[j] => i = j
  BY <1>3, <1>4
<1>8. \A n \in ranCalls' :
          /\ \A i \in 1..Len(history) :
                history[i].kind \in {"call", "output"} => history[i].n # n
          /\ \A i \in 1..Len(t) : t[i].kind \in {"call", "output"} => t[i].n # n
  BY <1>3, <1>4 DEF Written
<1>9. chainedTo' # Nothing =>
          /\ \A i \in 1..Len(t) : Trims(t[i], chainedTo.held, chainedTo.finalized)'
          /\ Pends(chainedTo.held, chainedTo.finalized)'
  BY <1>3, <1>4 DEF Trims, Covered, Chained, Pends, Idle
<1> QED BY <1>4, <1>5, <1>6, <1>7, <1>8, <1>9, Grows

LEMMA ReportsSent ==
    ASSUME SInv, NEW n \in ranCalls, Reports(n)
    PROVE  Made' /\ Written' /\ Chained' /\ Flying'
<1> USE DEF SInv
<1>1. n \in 1..items /\ n \in Nat /\ items \in Nat
  BY ChainAssumption DEF TInv
<1>2. PICK call : call = Item("call", n)
  OBVIOUS
<1>3. PICK output : output = Item("output", n)
  OBVIOUS
<1>4. PICK t : t = <<call, output>>
  OBVIOUS
<1>5. /\ call \in Items /\ call.kind = "call" /\ call.n = n
      /\ output \in Items /\ output.kind = "output" /\ output.n = n
  BY <1>1, <1>2, <1>3, ItemType DEF ItemKinds
<1>6. /\ t \in Seq(Items) /\ Len(t) = 2 /\ t[1] = call /\ t[2] = output
      /\ \A i \in 1..Len(t) : i \in {1, 2}
      /\ history' = history \o t
      /\ flight = Nothing /\ flight' = Nothing /\ chainedTo' = chainedTo /\ ranCalls' = ranCalls \ {n}
      /\ elsewhere' = elsewhere /\ items' = items /\ overHttp' = overHttp
  BY <1>2, <1>3, <1>4, <1>5 DEF Reports, TInv, Idle
<1>7. items <= items' /\ items' \in Nat /\ \A i \in 1..Len(t) : t[i].n \in 1..items'
  BY <1>1, <1>5, <1>6
<1>8. history # <<>> /\ \A i \in 1..Len(t) : ~isUserTurnMessage(t[i])
  BY <1>5, <1>6 DEF Written, isUserTurnMessage
<1>9. /\ \A i \in 1..Len(t) : \A j \in 1..Len(history) : t[i] # history[j]
      /\ \A i, j \in 1..Len(t) : t[i] = t[j] => i = j
  BY <1>5, <1>6 DEF Written
<1>10. \A m \in ranCalls' :
          /\ \A i \in 1..Len(history) :
                history[i].kind \in {"call", "output"} => history[i].n # m
          /\ \A i \in 1..Len(t) : t[i].kind \in {"call", "output"} => t[i].n # m
  BY <1>5, <1>6 DEF Written
<1>11. chainedTo' # Nothing =>
          /\ \A i \in 1..Len(t) : Trims(t[i], chainedTo.held, chainedTo.finalized)'
          /\ Pends(chainedTo.held, chainedTo.finalized)'
  <2>1. SUFFICES ASSUME chainedTo' # Nothing
        PROVE  /\ \A i \in 1..Len(t) : Trims(t[i], chainedTo.held, chainedTo.finalized)'
               /\ Pends(chainedTo.held, chainedTo.finalized)'
    OBVIOUS
  <2>2. Pends(chainedTo.held, chainedTo.finalized)
    BY <1>6, <2>1 DEF Chained, Idle
  <2>3. output \notin chainedTo.held /\ (call \in chainedTo.held <=> n \in chainedTo.finalized)
    BY <1>2, <1>3, <2>2 DEF Pends
  <2>4. \A i \in 1..Len(t) : Trims(t[i], chainedTo.held, chainedTo.finalized)'
    BY <1>5, <1>6, <2>3 DEF Trims, Covered
  <2> QED BY <1>6, <2>2, <2>4 DEF Pends
<1> QED BY <1>6, <1>7, <1>8, <1>9, <1>10, <1>11, Grows

LEMMA OtherLaneSent ==
    ASSUME SInv, NEW text \in BOOLEAN, NEW calls \in BOOLEAN, OtherLane(text, calls)
    PROVE  Made' /\ Written' /\ Chained' /\ Flying'
<1> USE DEF SInv
<1>1. items \in Nat /\ items + 1 \in Nat /\ items <= items + 1
  BY ChainAssumption DEF TInv
<1>2. PICK t : t = Says(items + 1, text)
  OBVIOUS
<1>3. /\ t \in Seq(Items)
      /\ \A i \in 1..Len(t) : i = 1 /\ t[i] = Item("assistant", items + 1)
  BY <1>1, <1>2, SaysType
<1>4. /\ history' = history \o t /\ history # <<>>
      /\ flight = Nothing /\ flight' = Nothing /\ chainedTo' = chainedTo
      /\ ranCalls' \subseteq ranCalls \cup {items + 1}
      /\ elsewhere' = elsewhere \cup {items + 1} /\ items' = items + 1 /\ overHttp' = overHttp
  BY <1>2 DEF OtherLane, Idle
<1>5. \A i \in 1..Len(t) : t[i].kind = "assistant" /\ t[i].n = items + 1
  BY <1>1, <1>3, ItemType DEF ItemKinds
<1>6. items <= items' /\ items' \in Nat /\ \A i \in 1..Len(t) : t[i].n \in 1..items'
  BY <1>1, <1>4, <1>5
<1>7. \A i \in 1..Len(t) : ~isUserTurnMessage(t[i])
  BY <1>5 DEF isUserTurnMessage
<1>8. /\ \A i \in 1..Len(t) : \A j \in 1..Len(history) : t[i] # history[j]
      /\ \A i, j \in 1..Len(t) : t[i] = t[j] => i = j
  BY <1>3, NewItems DEF ItemKinds
<1>9. \A n \in ranCalls' :
          /\ \A i \in 1..Len(history) :
                history[i].kind \in {"call", "output"} => history[i].n # n
          /\ \A i \in 1..Len(t) : t[i].kind \in {"call", "output"} => t[i].n # n
  <2>1. \A i \in 1..Len(history) : history[i].n # items + 1
    BY <1>1 DEF Made, Old
  <2> QED BY <1>4, <1>5, <2>1 DEF Written
<1>10. chainedTo' # Nothing =>
          /\ \A i \in 1..Len(t) : Trims(t[i], chainedTo.held, chainedTo.finalized)'
          /\ Pends(chainedTo.held, chainedTo.finalized)'
  <2>1. SUFFICES ASSUME chainedTo' # Nothing
        PROVE  /\ \A i \in 1..Len(t) : Trims(t[i], chainedTo.held, chainedTo.finalized)'
               /\ Pends(chainedTo.held, chainedTo.finalized)'
    OBVIOUS
  <2>2. Pends(chainedTo.held, chainedTo.finalized)
    BY <1>4, <2>1 DEF Chained, Idle
  <2>3. /\ Item("output", items + 1) \notin chainedTo.held
        /\ Item("call", items + 1) \notin chainedTo.held
        /\ items + 1 \notin chainedTo.finalized
    BY <1>4, <2>1, NewItems DEF ItemKinds
  <2>4. Pends(chainedTo.held, chainedTo.finalized)'
    BY <1>4, <2>2, <2>3 DEF Pends
  <2>5. \A i \in 1..Len(t) : Trims(t[i], chainedTo.held, chainedTo.finalized)'
    BY <1>4, <1>5 DEF Trims, Covered
  <2> QED BY <2>4, <2>5
<1> QED BY <1>3, <1>4, <1>6, <1>7, <1>8, <1>9, <1>10, Grows

LEMMA CompactSent ==
    ASSUME SInv, Compact
    PROVE  Made' /\ Written' /\ Chained' /\ Flying'
<1> USE DEF SInv
<1>1. PICK new : new = Item("user", items + 1)
  OBVIOUS
<1>2. /\ new \in Items /\ new.kind = "user" /\ new.n = items + 1 /\ items + 1 \in Nat
      /\ items \in Nat /\ 1..items \subseteq 1..items + 1 /\ items + 1 \notin 1..items
  BY <1>1, NewItems, ItemType, ChainAssumption DEF ItemKinds, TInv
<1>3. /\ history' = <<new>> /\ Len(history') = 1 /\ history'[1] = new
      /\ \A i \in 1..Len(history') : i = 1
      /\ flight = Nothing /\ flight' = Nothing /\ chainedTo' = chainedTo /\ ranCalls' = {}
      /\ elsewhere' = elsewhere /\ items' = items + 1 /\ overHttp' = overHttp
  BY <1>1 DEF Compact, Idle
<1>4. Made'
  BY <1>2, <1>3 DEF Made, Old
<1>5. Written'
  BY <1>2, <1>3 DEF Written, IsLatest, isUserTurnMessage
<1>6. Chained'
  <2>1. SUFFICES ASSUME chainedTo # Nothing PROVE Chained'
    BY <1>3 DEF Chained
  <2>2. /\ chainedTo.input # <<>> /\ ~overHttp
        /\ \A i \in 1..Len(chainedTo.input) :
              Covered(chainedTo.input[i], chainedTo.held)
    BY <1>3, <2>1 DEF Chained, Idle
  <2>3. chainedTo.input \in Seq(Items)
    BY <2>1 DEF TInv, Continuations
  <2>4. 1 \in 1..Len(chainedTo.input)
    BY <2>2, <2>3
  <2>5. chainedTo.input[1] # new
    BY <1>2, <2>1, <2>4 DEF Made, Old
  <2>6. Parted(chainedTo.input, history)'
    BY <1>3, <2>2, <2>5 DEF Parted
  <2> QED BY <1>3, <2>2, <2>6 DEF Chained, Covered, Pends
<1>7. Flying'
  BY <1>3 DEF Flying
<1> QED BY <1>4, <1>5, <1>6, <1>7

(* A step that leaves the history, and either what is sent or none of it.   *)
LEMMA Stays ==
    ASSUME SInv, history' = history, ranCalls' = ranCalls, elsewhere' = elsewhere,
           items' \in Nat, items <= items',
           \/ flight' = flight /\ chainedTo' = chainedTo /\ overHttp' = overHttp
           \/ flight' = Nothing /\ chainedTo' = Nothing
    PROVE  Made' /\ Written' /\ Chained' /\ Flying'
<1> USE DEF SInv
<1>1. 1..items \subseteq 1..items'
  BY ChainAssumption DEF TInv
<1>2. Written'
  BY DEF Written
<1>3. CASE flight' = flight /\ chainedTo' = chainedTo /\ overHttp' = overHttp
  <2>1. Made'
    BY <1>1, <1>3 DEF Made, Old
  <2>2. Chained'
    BY <1>3 DEF Chained, Idle, Covered, Pends, Trims, Parted
  <2>3. Flying'
    BY <1>3 DEF Flying, Covered, Pends, Base
  <2> QED BY <1>2, <2>1, <2>2, <2>3
<1>4. CASE flight' = Nothing /\ chainedTo' = Nothing
  <2>1. Made'
    BY <1>1, <1>4 DEF Made, Old
  <2> QED BY <1>2, <1>4, <2>1 DEF Chained, Flying
<1> QED BY <1>3, <1>4

LEMMA StillSent ==
    ASSUME SInv, BodyChanges \/ FallsBack \/ HttpRequest \/ BusyRequest \/ Disconnects
                     \/ UNCHANGED chainVars
    PROVE  Made' /\ Written' /\ Chained' /\ Flying'
<1>1. items \in Nat /\ items <= items + 1 /\ items + 1 \in Nat /\ items <= items
  BY ChainAssumption DEF SInv, TInv
<1>2. /\ history' = history /\ ranCalls' = ranCalls /\ elsewhere' = elsewhere
      /\ items' \in {items, items + 1}
      /\ \/ flight' = flight /\ chainedTo' = chainedTo /\ overHttp' = overHttp
         \/ flight' = Nothing /\ chainedTo' = Nothing
  <2>1. CASE FallsBack BY <2>1 DEF FallsBack
  <2>2. CASE HttpRequest BY <2>2 DEF HttpRequest
  <2>3. CASE BusyRequest BY <2>3 DEF BusyRequest
  <2>4. CASE Disconnects BY <2>4 DEF Disconnects, Idle
  <2>5. CASE BodyChanges BY <2>5 DEF BodyChanges
  <2>6. CASE UNCHANGED chainVars BY <2>6 DEF chainVars
  <2> QED BY <2>1, <2>2, <2>3, <2>4, <2>5, <2>6
<1>3. items' \in Nat /\ items <= items'
  BY <1>1, <1>2
<1> QED BY <1>2, <1>3, Stays

LEMMA CutSent ==
    ASSUME SInv, NEW keep \in BOOLEAN, Cut(keep)
    PROVE  Made' /\ Written' /\ Chained' /\ Flying'
<1>1. items \in Nat /\ items + 1 \in Nat /\ items <= items + 1 /\ items <= items
  BY ChainAssumption DEF SInv, TInv
<1>2. /\ flight # Nothing /\ flight' = Nothing /\ chainedTo' = Nothing /\ ranCalls' = ranCalls
      /\ elsewhere' = elsewhere /\ overHttp' = overHttp
  BY DEF Cut, Idle
<1>3. CASE keep
  <2>1. PICK said : said = Item("assistant", items + 1)
    OBVIOUS
  <2>2. PICK call : call = Item("call", items + 1)
    OBVIOUS
  <2>3. PICK output : output = Item("output", items + 1)
    OBVIOUS
  <2>4. PICK t : t = <<said, call, output>>
    OBVIOUS
  <2>5. /\ said \in Items /\ said.kind = "assistant" /\ said.n = items + 1
        /\ call \in Items /\ call.kind = "call" /\ call.n = items + 1
        /\ output \in Items /\ output.kind = "output" /\ output.n = items + 1
    BY <1>1, <2>1, <2>2, <2>3, ItemType DEF ItemKinds
  <2>6. /\ t \in Seq(Items) /\ Len(t) = 3 /\ t[1] = said /\ t[2] = call /\ t[3] = output
        /\ \A i \in 1..Len(t) : i \in {1, 2, 3}
    BY <2>4, <2>5
  <2>7. history' = history \o t /\ items' = items + 1
    BY <1>3, <2>1, <2>2, <2>3, <2>4 DEF Cut
  <2>8. \A i \in 1..Len(t) : t[i].n = items + 1 /\ t[i].kind \in {"assistant", "call", "output"}
    BY <2>5, <2>6
  <2>9. \A i, j \in 1..Len(t) : t[i] = t[j] => i = j
    BY <2>5, <2>6
  <2>10. items <= items' /\ items' \in Nat /\ \A i \in 1..Len(t) : t[i].n \in 1..items'
    BY <1>1, <2>7, <2>8
  <2>11. history # <<>> /\ \A i \in 1..Len(t) : ~isUserTurnMessage(t[i])
    BY <1>2, <2>8 DEF SInv, Flying, isUserTurnMessage
  <2>12. \A i \in 1..Len(history) : history[i].n # items + 1
    BY <1>1 DEF SInv, Made, Old
  <2>13. \A i \in 1..Len(t) : \A j \in 1..Len(history) : t[i] # history[j]
    BY <2>8, <2>12
  <2>14. \A n \in ranCalls : n # items + 1
    BY <1>1 DEF SInv, TInv
  <2>15. \A n \in ranCalls' :
          /\ \A i \in 1..Len(history) :
                history[i].kind \in {"call", "output"} => history[i].n # n
          /\ \A i \in 1..Len(t) : t[i].kind \in {"call", "output"} => t[i].n # n
    BY <1>2, <2>8, <2>14 DEF SInv, Written
  <2> QED BY <1>2, <2>6, <2>7, <2>9, <2>10, <2>11, <2>13, <2>15, Grows
<1>4. CASE ~keep
  <2>1. history' = history /\ items' = items
    BY <1>4 DEF Cut
  <2> QED BY <1>1, <1>2, <2>1, Stays
<1> QED BY <1>3, <1>4

LEMMA CompletesSent ==
    ASSUME SInv, NEW text \in BOOLEAN, NEW calls \in BOOLEAN, Completes(text, calls)
    PROVE  Made' /\ Written' /\ Chained' /\ Flying'
<1> USE DEF SInv
<1>1. /\ items \in Nat /\ items + 1 \in Nat /\ 1..items \subseteq 1..items + 1
      /\ items + 1 \notin 1..items /\ items + 1 \in 1..items + 1
  BY ChainAssumption DEF TInv
<1>2. PICK n : n = items + 1
  OBVIOUS
<1>3. PICK t : t = Says(n, text)
  OBVIOUS
<1>4. PICK call : call = Item("call", n)
  OBVIOUS
<1>5. PICK more : more = IF calls THEN {n} ELSE {}
  OBVIOUS
<1>6. PICK fresh : fresh = IF calls THEN {call} ELSE {}
  OBVIOUS
<1>7. /\ t \in Seq(Items) /\ \A i \in 1..Len(t) : t[i] = Item("assistant", n) /\ i = 1
      /\ \A i \in 1..Len(t) : t[i].kind = "assistant" /\ t[i].n = n
  <2>1. t \in Seq(Items) /\ \A i \in 1..Len(t) : t[i] = Item("assistant", n) /\ i = 1
    BY <1>1, <1>2, <1>3, SaysType
  <2>2. Item("assistant", n).kind = "assistant" /\ Item("assistant", n).n = n
    BY <1>1, <1>2, ItemType DEF ItemKinds
  <2> QED BY <2>1, <2>2
<1>8. call \in Items /\ call.kind = "call" /\ call.n = n
  BY <1>1, <1>2, <1>4, ItemType DEF ItemKinds
<1>9. /\ flight # Nothing /\ flight \in Flights /\ flight.full = history /\ history # <<>> /\ ~overHttp
      /\ flight' = Nothing /\ history' = history \o t /\ items' = n
      /\ ranCalls' = ranCalls \cup more /\ elsewhere' = elsewhere /\ overHttp' = overHttp
  BY <1>2, <1>3, <1>5 DEF Completes, Idle, Flying, TInv
<1>10. /\ chainedTo' \in Continuations /\ chainedTo' # Nothing
       /\ chainedTo'.input = history
       /\ chainedTo'.finalized = Base \cup more
       /\ chainedTo'.held = flight.held \cup flight.sent \cup ToSet(t) \cup fresh
  <2>1. chainedTo' = updateContinuation(n, text, calls)
    BY <1>2 DEF Completes
  <2>2. chainedTo' \in Continuations
    BY <1>1, <1>2, <1>9, <2>1, UpdateType DEF Idle
  <2>3. chainedTo' # Nothing
    BY <2>2 DEF Continuations, Nothing
  <2> QED BY <1>3, <1>4, <1>5, <1>6, <1>9, <2>1, <2>2, <2>3 DEF updateContinuation, Base
<1>11. \A x : x \in ToSet(t) <=> \E i \in 1..Len(t) : x = t[i]
  BY <1>7, ToSetDef
<1>12. /\ history \in Seq(Items) /\ history' \in Seq(Items) /\ Len(history) \in Nat
       /\ Len(history') = Len(history) + Len(t)
       /\ \A i \in 1..Len(history) : history'[i] = history[i]
       /\ \A i \in Len(history) + 1..Len(history') :
             i - Len(history) \in 1..Len(t) /\ history'[i] = t[i - Len(history)]
  BY <1>7, <1>9, GrowPoints DEF TInv
<1>13. \A i \in 1..Len(history) : Old(history[i])
  BY DEF Made
<1>14. \A item \in flight.sent : \E i \in 1..Len(history) : item = history[i]
  BY <1>9, <1>12, ToSetDef DEF Flying
<1>15. Base \subseteq 1..items
  BY <1>9 DEF Base, Made, Flying
<1>16. Made'
  <2>1. \A i \in 1..Len(history') : history'[i].n \in 1..n
    <3>1. ASSUME NEW i \in 1..Len(history') PROVE history'[i].n \in 1..n
      <4>1. CASE i <= Len(history)
        BY <1>1, <1>2, <1>12, <1>13, <4>1 DEF Old
      <4>2. CASE ~(i <= Len(history))
        BY <1>1, <1>2, <1>7, <1>12, <4>2
      <4> QED BY <4>1, <4>2
    <3> QED BY <3>1
  <2>2. \A i \in 1..Len(chainedTo'.input) : chainedTo'.input[i].n \in 1..n
    BY <1>1, <1>2, <1>10, <1>13 DEF Old
  <2>3. \A item \in chainedTo'.held : item.n \in 1..n
    <3>1. \A item \in flight.held : item.n \in 1..n
      BY <1>1, <1>2, <1>9 DEF Made, Old
    <3>2. \A item \in flight.sent : item.n \in 1..n
      BY <1>1, <1>2, <1>13, <1>14 DEF Old
    <3>3. \A item \in ToSet(t) : item.n \in 1..n
      BY <1>1, <1>2, <1>7, <1>11
    <3>4. \A item \in fresh : item.n \in 1..n
      BY <1>1, <1>2, <1>6, <1>8
    <3> QED BY <1>10, <3>1, <3>2, <3>3, <3>4
  <2>4. chainedTo'.finalized \subseteq 1..n
    BY <1>1, <1>2, <1>5, <1>10, <1>15
  <2> QED BY <1>9, <2>1, <2>2, <2>3, <2>4 DEF Made, Old
<1>17. Written'
  <2>1. \A i, j \in 1..Len(t) : t[i] = t[j] => i = j
    BY <1>7
  <2>2. \A i \in 1..Len(t) : \A j \in 1..Len(history) : t[i] # history[j]
    BY <1>1, <1>2, <1>7, <1>13 DEF Old
  <2>3. \A i \in 1..Len(t) : ~isUserTurnMessage(t[i])
    BY <1>7 DEF isUserTurnMessage
  <2>4. \A m \in ranCalls' :
           /\ \A i \in 1..Len(history) :
                 history[i].kind \in {"call", "output"} => history[i].n # m
           /\ \A i \in 1..Len(t) : t[i].kind \in {"call", "output"} => t[i].n # m
    <3>1. \A i \in 1..Len(history) : history[i].n # n
      BY <1>1, <1>2, <1>13 DEF Old
    <3> QED BY <1>5, <1>7, <1>9, <3>1 DEF Written
  <2> QED BY <1>7, <1>9, <2>1, <2>2, <2>3, <2>4, GrowsWritten
<1>18. Chained'
  <2>1. \A i \in 1..Len(history) : Covered(history[i], chainedTo'.held)
    BY <1>9, <1>10 DEF Flying, Covered
  <2>2. \A i \in 1..Len(chainedTo'.input) :
            Covered(chainedTo.input[i], chainedTo.held)'
    BY <1>9, <1>10, <2>1 DEF Covered
  <2>3. Pends(chainedTo.held, chainedTo.finalized)'
    <3>1. ASSUME NEW m \in ranCalls'
          PROVE  /\ Item("output", m) \notin chainedTo'.held
                 /\ Item("call", m) \in chainedTo'.held <=> m \in chainedTo'.finalized
      <4>1. m \in Nat
        BY <1>1, <1>2, <1>5, <1>9 DEF TInv
      <4>2. /\ Item("output", m).kind = "output" /\ Item("output", m).n = m
            /\ Item("call", m).kind = "call" /\ Item("call", m).n = m
        BY <4>1, ItemType DEF ItemKinds
      <4>3. Item("output", m) \notin ToSet(t) /\ Item("call", m) \notin ToSet(t)
        BY <1>7, <1>11, <4>2
      <4>4. Item("output", m) \notin fresh
        BY <1>6, <1>8, <4>2
      <4>5. CASE m \in ranCalls
        <5>1. m # n
          BY <1>1, <1>2, <4>5 DEF TInv
        <5>2. Item("output", m) \notin flight.sent /\ Item("call", m) \notin flight.sent
          BY <1>14, <4>2, <4>5 DEF Written
        <5>3. /\ Item("output", m) \notin flight.held
              /\ Item("call", m) \in flight.held <=> m \in Base
          BY <1>9, <4>5 DEF Flying, Pends
        <5>4. Item("call", m) \notin fresh /\ m \notin more
          BY <1>5, <1>6, <1>8, <4>2, <5>1
        <5> QED BY <1>10, <4>3, <4>4, <5>2, <5>3, <5>4
      <4>6. CASE m \notin ranCalls
        <5>1. m = n /\ calls
          BY <1>5, <1>9, <4>6
        <5>2. Item("output", m) \notin flight.held
          BY <1>1, <1>2, <1>9, <4>2, <5>1 DEF Made, Old
        <5>3. Item("output", m) \notin flight.sent
          BY <1>1, <1>2, <1>13, <1>14, <4>2, <5>1 DEF Old
        <5>4. Item("call", m) \in fresh /\ m \in more
          BY <1>4, <1>5, <1>6, <5>1
        <5> QED BY <1>10, <4>3, <4>4, <5>2, <5>3, <5>4
      <4> QED BY <4>5, <4>6
    <3> QED BY <3>1 DEF Pends
  <2>4. IsPrefix(history, history')
    BY <1>12, PrefixDef
  <2>5. ASSUME NEW i \in Len(history) + 1..Len(history')
        PROVE  Trims(history[i], chainedTo.held, chainedTo.finalized)'
    <3>1. i - Len(history) \in 1..Len(t) /\ history'[i] = t[i - Len(history)]
      BY <1>12
    <3>2. history'[i] \in ToSet(t) /\ history'[i].kind = "assistant"
      BY <1>7, <1>11, <3>1
    <3> QED BY <1>10, <3>2 DEF Trims, Covered
  <2> QED BY <1>9, <1>10, <2>2, <2>3, <2>4, <2>5 DEF Chained
<1>19. Flying'
  BY <1>9 DEF Flying
<1> QED BY <1>16, <1>17, <1>18, <1>19

(* A continuation from which a request of the history can be trimmed.       *)
Trimmable(c) ==
    c # Nothing =>
        /\ \A i \in 1..Len(c.input) : Old(c.input[i])
        /\ \A item \in c.held : Old(item)
        /\ c.finalized \subseteq 1..items
        /\ Pends(c.held, c.finalized)
        /\ c.input = <<>> => c.held = {}
        /\ c.input # <<>> /\ IsPrefix(c.input, history) =>
              /\ \A i \in 1..Len(c.input) : Covered(c.input[i], c.held)
              /\ \A i \in Len(c.input) + 1..Len(history) : Trims(history[i], c.held, c.finalized)

LEMMA FreshTrims ==
    ASSUME SInv
    PROVE  FreshChain \in Continuations /\ Trimmable(FreshChain)
<1>1. <<>> \in Seq(Items) /\ Len(<<>>) = 0
  OBVIOUS
<1>2. FreshChain \in Continuations
  BY <1>1 DEF FreshChain, Continuations, SInv, TInv
<1> QED BY <1>1, <1>2 DEF FreshChain, Trimmable, Pends

LEMMA ContinuationTrims ==
    ASSUME SInv, Idle
    PROVE  Trimmable(chainedTo)
<1>1. SUFFICES ASSUME chainedTo # Nothing PROVE Trimmable(chainedTo)
  BY DEF Trimmable
<1>2. chainedTo \in Continuations /\ history \in Seq(Items)
  BY <1>1 DEF SInv, TInv
<1>3. ASSUME IsPrefix(chainedTo.input, history)
      PROVE  ~Parted(chainedTo.input, history)
  <2>1. /\ Len(chainedTo.input) <= Len(history)
        /\ \A i \in 1..Len(chainedTo.input) : chainedTo.input[i] = history[i]
    BY <1>2, <1>3, PrefixDef DEF Continuations
  <2>2. chainedTo.input # <<>> => 1 \in 1..Len(chainedTo.input)
    BY <1>2 DEF Continuations
  <2> QED BY <2>1, <2>2 DEF Parted
<1> QED BY <1>1, <1>3 DEF SInv, Made, Chained, Trimmable

LEMMA SendsSent ==
    ASSUME SInv, Idle, history # <<>>, ~overHttp, NEW c \in {Nothing} \cup Continuations,
           Trimmable(c), Sends(c),
           history' = history, ranCalls' = ranCalls, elsewhere' = elsewhere, items' = items,
           overHttp' = overHttp
    PROVE  Made' /\ Written' /\ Chained' /\ Flying'
<1> USE DEF SInv
<1> DEFINE parts == withContinuation(c, history)
<1>1. history \in Seq(Items) /\ Len(history) \in Nat
  BY DEF TInv
<1>2. /\ chainedTo' = parts.left /\ flight' # Nothing /\ flight' \in Flights
      /\ flight'.full = history /\ flight'.sent = parts.sent
      /\ flight'.chained = parts.chained
      /\ flight'.held = IF parts.chained THEN c.held ELSE {}
  <2>1. flight' \in Flights
    BY SendsType
  <2>2. flight' # Nothing
    BY <2>1 DEF Flights, Nothing
  <2> QED BY <2>1, <2>2 DEF Sends
<1>3. /\ Written' /\ Chained'
  BY <1>2 DEF Written, Chained, Idle
<1>4. parts.sent \subseteq ToSet(history)
  BY <1>1, SentIsOfHistory
<1>5. \/ parts = Body(FALSE, ToSet(history), Nothing)
      \/ c # Nothing /\ c.input = <<>> /\ parts = Body(TRUE, ToSet(history), c)
      \/ c # Nothing /\ parts = Body(FALSE, ToSet(history), c)
      \/ /\ c # Nothing /\ c.input # <<>> /\ c.signature = signature
         /\ Len(c.input) < Len(history) /\ IsPrefix(c.input, history)
         /\ parts = Body(TRUE, continuationInput(Rest(history, Len(c.input)), c.finalized), c)
  BY <1>1, Bodies
<1>6. ASSUME NEW linked, NEW sent, NEW left, parts = Body(linked, sent, left)
      PROVE  parts.chained = linked /\ parts.sent = sent /\ parts.left = left
  BY <1>6 DEF Body
<1> HIDE DEF parts
<1>7. \A i \in 1..Len(history) : history[i] \in ToSet(history)
  BY <1>1, ToSetDef
(* Nothing is chained to, or only an empty response, and all is sent.       *)
<1>8. ASSUME parts.chained \in BOOLEAN, parts.sent = ToSet(history), parts.left \in {Nothing, c},
             parts.chained => c # Nothing /\ c.input = <<>> /\ parts.left = c
      PROVE  Made' /\ Flying'
  <2>1. flight'.held = {}
    BY <1>2, <1>8 DEF Trimmable
  <2>2. Made'
    BY <1>2, <1>8, <2>1 DEF Made, Old, Trimmable
  <2>3. \A i \in 1..Len(history) : Covered(history[i], flight.held \cup flight.sent)'
    BY <1>2, <1>7, <1>8 DEF Covered
  <2>4. Pends(flight.held, Base)'
    <3>1. CASE parts.chained
      <4>1. Pends(c.held, c.finalized) /\ c.held = {}
        BY <1>8, <3>1 DEF Trimmable
      <4>2. Base' = c.finalized
        BY <1>2, <1>8, <3>1 DEF Base
      <4> QED BY <2>1, <4>1, <4>2 DEF Pends
    <3>2. CASE ~parts.chained
      <4>1. Base' = {}
        BY <1>2, <3>2 DEF Base
      <4> QED BY <2>1, <4>1 DEF Pends
    <3> QED BY <1>8, <3>1, <3>2
  <2>5. flight'.chained => chainedTo' # Nothing
    BY <1>2, <1>8
  <2> QED BY <1>2, <1>4, <2>1, <2>2, <2>3, <2>4, <2>5 DEF Flying
<1>9. CASE parts = Body(FALSE, ToSet(history), Nothing)
  BY <1>3, <1>6, <1>8, <1>9
<1>10. CASE c # Nothing /\ c.input = <<>> /\ parts = Body(TRUE, ToSet(history), c)
  BY <1>3, <1>6, <1>8, <1>10
<1>11. CASE c # Nothing /\ parts = Body(FALSE, ToSet(history), c)
  BY <1>3, <1>6, <1>8, <1>11
<1>12. CASE /\ c # Nothing /\ c.input # <<>> /\ c.signature = signature
            /\ Len(c.input) < Len(history) /\ IsPrefix(c.input, history)
            /\ parts = Body(TRUE, continuationInput(Rest(history, Len(c.input)), c.finalized), c)
  <2>1. /\ chainedTo' = c /\ flight'.chained /\ flight'.held = c.held
        /\ flight'.sent = continuationInput(Rest(history, Len(c.input)), c.finalized)
    BY <1>2, <1>6, <1>12
  <2>2. /\ c.input \in Seq(Items) /\ Len(c.input) \in 0..Len(history)
        /\ \A i \in 1..Len(c.input) : c.input[i] = history[i]
    BY <1>1, <1>12, PrefixDef DEF Continuations
  <2>3. \A item : item \in flight'.sent <=>
           \E i \in Len(c.input) + 1..Len(history) :
               /\ item = history[i]
               /\ \/ item.kind \in {"user", "output"}
                  \/ item.kind = "call" /\ item.n \notin c.finalized
    BY <1>1, <2>1, <2>2, TrimmedSent
  <2>4. /\ \A i \in 1..Len(c.input) : Covered(c.input[i], c.held)
        /\ \A i \in Len(c.input) + 1..Len(history) : Trims(history[i], c.held, c.finalized)
        /\ Pends(c.held, c.finalized)
    BY <1>12 DEF Trimmable
  <2>5. Made'
    BY <1>2, <1>12, <2>1 DEF Made, Old, Trimmable
  <2>6. \A i \in 1..Len(history) : Covered(history[i], flight.held \cup flight.sent)'
    <3>1. ASSUME NEW i \in 1..Len(history) PROVE Covered(history[i], flight'.held \cup flight'.sent)
      <4>1. CASE i \in 1..Len(c.input)
        BY <2>1, <2>2, <2>4, <4>1 DEF Covered
      <4>2. CASE i \in Len(c.input) + 1..Len(history)
        <5>1. history[i].kind \in ItemKinds
          <6>1. history[i] \in Items
            BY <1>1, ElementOfSeq
          <6> QED BY <6>1 DEF Items
        <5>2. Trims(history[i], c.held, c.finalized)
          BY <2>4, <4>2
        <5>3. history[i] \in flight'.sent <=>
                 \/ history[i].kind \in {"user", "output"}
                 \/ history[i].kind = "call" /\ history[i].n \notin c.finalized
          BY <2>3, <4>2
        <5> QED BY <2>1, <5>1, <5>2, <5>3 DEF ItemKinds, Trims, Covered
      <4> QED BY <1>1, <2>2, <4>1, <4>2
    <3> QED BY <3>1 DEF Covered
  <2>7. flight'.held \cap flight'.sent = {}
    <3>1. ASSUME NEW item \in flight'.sent PROVE item \notin flight'.held
      BY <2>1, <2>3, <2>4 DEF Trims
    <3> QED BY <3>1
  <2>8. Pends(flight.held, Base)'
    <3>1. Base' = c.finalized
      BY <2>1 DEF Base
    <3> QED BY <2>1, <2>4, <3>1 DEF Pends
  <2>9. Flying'
    BY <1>2, <1>4, <1>12, <2>1, <2>6, <2>7, <2>8 DEF Flying
  <2> QED BY <1>3, <2>5, <2>9
<1> QED BY <1>5, <1>9, <1>10, <1>11, <1>12

LEMMA RequestSent ==
    ASSUME SInv, Request
    PROVE  Made' /\ Written' /\ Chained' /\ Flying'
<1>1. \E c \in {Nothing} \cup Continuations : Trimmable(c) /\ Sends(c)
  <2>1. Trimmable(Nothing)
    BY DEF Trimmable
  <2>2. chainedTo \in {Nothing} \cup Continuations
    BY DEF SInv, TInv
  <2> QED BY <2>1, <2>2, FreshTrims, ContinuationTrims DEF Request
<1> QED BY <1>1, SendsSent DEF Request

LEMMA SentInit == ChainInit => SInv
<1> SUFFICES ASSUME ChainInit PROVE SInv
  OBVIOUS
<1>1. <<>> \in Seq(Items) /\ Len(<<>>) = 0 /\ 1..Len(<<>>) = {}
  OBVIOUS
<1>2. TInv
  <2>1. turn \in [id : 0..MaxTurns, input : Seq(Items), signature : Signatures]
    BY <1>1, ChainAssumption DEF ChainInit
  <2>2. chainedTo \in {Nothing} \cup Continuations /\ flight \in {Nothing} \cup Flights
    BY DEF ChainInit
  <2>3. history \in Seq(Items)
    BY <1>1 DEF ChainInit
  <2>4. /\ signature \in Signatures /\ ranCalls \subseteq 1..items /\ elsewhere \subseteq 1..items
        /\ stamped \subseteq (1..items) \X (1..MaxTurns) \X (0..bodies) /\ overHttp \in BOOLEAN
    BY DEF ChainInit
  <2>5. items \in 0..MaxItems /\ crossed \in 0..MaxCrossed /\ bodies \in 0..MaxItems
    BY ChainAssumption DEF ChainInit
  <2> HIDE DEF ChainInit
  <2> QED BY <2>1, <2>2, <2>3, <2>4, <2>5 DEF TInv
<1>3. /\ history = <<>> /\ Len(history) = 0 /\ chainedTo = Nothing /\ flight = Nothing /\ ranCalls = {}
      /\ 1..Len(history) = {}
  BY <1>1 DEF ChainInit
<1> QED BY <1>2, <1>3 DEF SInv, Made, Written, Chained, Flying

LEMMA SentStep == SInv /\ [ChainNext]_chainVars => SInv'
<1> SUFFICES ASSUME SInv, [ChainNext]_chainVars PROVE SInv'
  OBVIOUS
<1>1. TInv'
  BY TypeStep DEF SInv
<1>2. Made' /\ Written' /\ Chained' /\ Flying'
  BY UserSpeaksSent, CompactSent, ReportsSent, OtherLaneSent, CompletesSent, RequestSent,
     CutSent, StillSent DEF ChainNext
<1> QED BY <1>1, <1>2 DEF SInv

(* Every variable keeps its type, whatever the bounds.                      *)
THEOREM ChainTypeCorrect == ChainSpec => []ChainTypes
<1>1. SInv => ChainTypes
  <2> SUFFICES ASSUME SInv PROVE ChainTypes
    OBVIOUS
  <2>1. \A i \in 1..Len(history) :
            history[i].kind \in {"user", "assistant", "call", "output"} /\ history[i].n \in 1..items
    <3>1. ASSUME NEW i \in 1..Len(history) PROVE history[i] \in Items
      BY ElementOfSeq DEF SInv, TInv
    <3> QED BY <3>1 DEF SInv, Made, Old, Items, ItemKinds
  <2>2. chainedTo # Nothing => chainedTo.finalized \subseteq 1..items
    BY DEF SInv, Made
  <2>3. turn.id \in 0..MaxTurns
    BY DEF SInv, TInv
  <2> QED BY <2>1, <2>2, <2>3 DEF SInv, TInv, ChainTypes
<1> QED BY <1>1, SentInit, SentStep, PTL DEF ChainSpec

(* What the server holds and what it is sent make up the history, but for   *)
(* text that another lane's response said, and share no item: whatever the  *)
(* conversation does between two requests (withContinuation,                *)
(* updateContinuation).                                                     *)
THEOREM ContextIsExact == ChainSpec => []ContextExact
<1>1. SInv => ContextExact
  <2> SUFFICES ASSUME SInv, flight # Nothing
               PROVE  /\ \A item \in ToSet(flight.full) :
                            item \in Context \/ (item.kind = "assistant" /\ item.n \in elsewhere)
                      /\ flight.held \cap flight.sent = {}
    BY DEF ContextExact
  <2>1. history \in Seq(Items) /\ flight.full = history
    BY DEF SInv, TInv, Flying
  <2>2. \A item \in ToSet(history) : Covered(item, flight.held \cup flight.sent)
    <3>1. ASSUME NEW item \in ToSet(history) PROVE Covered(item, flight.held \cup flight.sent)
      <4>1. PICK i \in 1..Len(history) : item = history[i]
        BY <2>1, <3>1, ToSetDef
      <4> QED BY <4>1 DEF SInv, Flying
    <3> QED BY <3>1
  <2> QED BY <2>1, <2>2 DEF SInv, Flying, Covered, Context
<1> QED BY <1>1, SentInit, SentStep, PTL DEF ChainSpec

-----------------------------------------------------------------------------
(* Turns *)

(* A stamp that agrees with the earlier ones and is the latest of them.     *)
LEMMA StampAdds ==
    ASSUME Stamps, history \in Seq(Items), bodies \in Nat, turn.id \in Nat,
           \A s \in stamped : s[1] \in Nat /\ s[2] \in Nat /\ s[3] \in Nat,
           NEW k \in 1..Len(history), IsLatest(history, k), history[k].n \in Nat,
           turn'.id \in Nat, turn'.id # 0, turn.id <= turn'.id,
           turn'.input = history, turn'.signature = signature, signature' = signature,
           bodies' = bodies,
           stamped' = stamped \cup {<<history[k].n, turn'.id, bodies>>},
           \A s \in stamped : s[1] <= history[k].n,
           \A s \in stamped : s[2] = turn'.id => s[1] = history[k].n,
           \A s \in stamped : s[1] = history[k].n /\ s[3] = bodies => s[2] = turn'.id
    PROVE  Stamps' /\ LastStamped'
<1>1. PICK new : new = <<history[k].n, turn'.id, bodies>>
  OBVIOUS
<1>2. new[1] = history[k].n /\ new[2] = turn'.id /\ new[3] = bodies
  BY <1>1
<1>3. \A s \in stamped' : s \in stamped \/ s = new
  BY <1>1
<1>4. \A s \in stamped : s[2] <= turn'.id /\ s[3] <= bodies
  BY DEF Stamps
<1>5. \A s \in stamped' : s[1] <= history[k].n /\ s[2] <= turn'.id /\ s[3] <= bodies
  BY <1>2, <1>3, <1>4
<1>6. \A s, u \in stamped' : Agree(s, u)
  <2>1. ASSUME NEW s \in stamped', NEW u \in stamped' PROVE Agree(s, u)
    <3>1. CASE s \in stamped /\ u \in stamped
      BY <3>1 DEF Stamps
    <3>2. CASE s \in stamped /\ u = new
      BY <1>2, <3>2 DEF Agree
    <3>3. CASE s = new /\ u \in stamped
      BY <1>2, <3>3 DEF Agree
    <3>4. CASE s = new /\ u = new
      BY <3>4 DEF Agree
    <3> QED BY <1>3, <3>1, <3>2, <3>3, <3>4
  <2> QED BY <2>1
<1>7. Stamps'
  BY <1>5, <1>6 DEF Stamps, Agree
<1>8. LastStamped'
  <2>1. new \in stamped' /\ bodies \in 0..bodies'
    BY <1>1
  <2> QED BY <1>1, <1>5, <2>1 DEF LastStamped
<1> QED BY <1>7, <1>8

(* A request stamps the turn of the history's latest user message.          *)
LEMMA StampsTurn ==
    ASSUME SInv, Turns, crossed = 0, history # <<>>, NEW sent, NEW t,
           \/ sent = ToSet(history)
           \/ turn.signature = signature /\ IsPrefix(turn.input, history),
           t = advanceTurn(turn, sent, history), t.id <= MaxTurns,
           turn' = t, Stamp(t, history), history' = history, signature' = signature, bodies' = bodies
    PROVE  Stamps' /\ LastStamped' /\ SameTurn' /\ turn'.id # 0
<1>1. /\ history \in Seq(Items) /\ turn \in Turn /\ signature \in Signatures /\ turn.input \in Seq(Items)
      /\ turn.id \in Nat /\ bodies \in Nat
      /\ \A s \in stamped : s[1] \in Nat /\ s[2] \in Nat /\ s[3] \in Nat
  BY ChainAssumption DEF SInv, TInv, Turn
<1>2. t \in Turn /\ t.id \in 1..MaxTurns /\ t.input = history /\ t.signature = signature
  BY <1>1, AdvanceType
<1>3. /\ Stamps /\ LastStamped /\ (Spoken \/ (turn.id # 0 /\ SameTurn))
  BY DEF Turns
<1>4. IsPrefix(turn.input, history) =>
         /\ Len(turn.input) \in 0..Len(history)
         /\ \A i \in 1..Len(turn.input) : turn.input[i] = history[i]
  BY <1>1, PrefixDef
<1>5. PICK new : new = IF turn.id # 0 /\ turn.signature = signature /\ IsPrefix(turn.input, history)
                       THEN ToSet(Rest(history, Len(turn.input))) ELSE sent
  OBVIOUS
<1>6. t.id = IF turn.id = 0 \/ Speaks(new) THEN turn.id + 1 ELSE turn.id
  BY <1>5 DEF advanceTurn
<1>7. IsPrefix(turn.input, history) =>
        \A x : x \in ToSet(Rest(history, Len(turn.input)))
                  <=> \E i \in Len(turn.input) + 1..Len(history) : x = history[i]
  BY <1>1, <1>4, RestSet
<1>8. SameTurn'
  <2>1. IsPrefix(history, history)
    BY <1>1, PrefixDef
  <2>2. Len(history) + 1..Len(history) = {}
    BY <1>1
  <2> QED BY <1>2, <2>1, <2>2 DEF SameTurn
<1>9. CASE Spoken
  <2>1. PICK k \in 1..Len(history) : IsLatest(history, k) /\ \A s \in stamped : s[1] < history[k].n
    BY <1>9 DEF Spoken
  <2>2. LatestUser(history) = history[k].n
    BY <1>1, <2>1, LatestIs
  <2>3. stamped' = stamped \cup {<<history[k].n, t.id, bodies>>}
    BY <2>2 DEF Stamp
  <2>4. t.id = turn.id + 1
    <3>1. CASE turn.id = 0
      BY <1>6, <3>1
    <3>2. CASE turn.id # 0 /\ turn.signature = signature /\ IsPrefix(turn.input, history)
      <4>1. PICK k0 \in 1..Len(turn.input) :
               /\ IsLatest(turn.input, k0)
               /\ \E b \in 0..bodies : <<turn.input[k0].n, turn.id, b>> \in stamped
        BY <1>3, <3>2 DEF LastStamped
      <4>2. turn.input[k0].n < history[k].n
        BY <2>1, <4>1
      <4>3. k \notin 1..Len(turn.input)
        <5> SUFFICES ASSUME k \in 1..Len(turn.input) PROVE FALSE
          OBVIOUS
        <5>1. turn.input[k] = history[k] /\ turn.input[k0] = history[k0] /\ k0 \in 1..Len(history)
          BY <1>4, <3>2, <4>1
        <5>2. CASE k < k0
          <6>1. k0 \in k + 1..Len(history)
            BY <5>1, <5>2
          <6> QED BY <2>1, <4>1, <5>1, <6>1 DEF IsLatest
        <5>3. CASE k0 < k
          <6>1. k \in k0 + 1..Len(turn.input)
            BY <5>3
          <6> QED BY <2>1, <4>1, <5>1, <6>1 DEF IsLatest
        <5>4. CASE k = k0
          <6>1. turn.input[k0].n \in Nat
            <7>1. turn.input[k0] \in Items
              BY <1>1, ElementOfSeq
            <7> QED BY <7>1 DEF Items
          <6> QED BY <4>2, <5>1, <5>4, <6>1
        <5> QED BY <5>2, <5>3, <5>4
      <4>4. k \in Len(turn.input) + 1..Len(history)
        BY <1>1, <4>3
      <4>5. history[k] \in new
        BY <1>5, <1>7, <3>2, <4>4
      <4> QED BY <1>6, <2>1, <4>5 DEF Speaks, IsLatest
    <3>3. CASE ~(turn.signature = signature /\ IsPrefix(turn.input, history))
      <4>1. sent = ToSet(history) /\ new = sent
        BY <1>5, <3>3
      <4>2. history[k] \in new
        BY <1>1, <4>1, ToSetDef
      <4> QED BY <1>6, <2>1, <4>2 DEF Speaks, IsLatest
    <3> QED BY <3>1, <3>2, <3>3
  <2>5. history[k].n \in Nat
    <3>1. history[k] \in Items
      BY <1>1, ElementOfSeq
    <3> QED BY <3>1 DEF Items
  <2>6. \A s \in stamped : s[1] # history[k].n /\ s[2] # t.id /\ s[2] <= t.id /\ s[1] <= history[k].n
    BY <1>1, <1>3, <2>1, <2>4, <2>5 DEF Stamps
  <2>7. /\ turn'.id \in Nat /\ turn'.id # 0 /\ turn.id <= turn'.id
        /\ turn'.input = history /\ turn'.signature = signature
        /\ stamped' = stamped \cup {<<history[k].n, turn'.id, bodies>>}
        /\ \A s \in stamped : s[1] <= history[k].n
        /\ \A s \in stamped : s[2] = turn'.id => s[1] = history[k].n
        /\ \A s \in stamped : s[1] = history[k].n /\ s[3] = bodies => s[2] = turn'.id
    BY <1>1, <1>2, <2>3, <2>4, <2>6
  <2>8. LastStamped' /\ Stamps'
    BY <1>1, <1>3, <2>1, <2>5, <2>6, <2>7, StampAdds
  <2> QED BY <1>2, <1>8, <2>8
<1>10. CASE turn.id # 0 /\ SameTurn
  <2>1. /\ IsPrefix(turn.input, history)
        /\ \A i \in Len(turn.input) + 1..Len(history) : ~isUserTurnMessage(history[i])
    BY <1>10 DEF SameTurn
  <2>2. PICK k \in 1..Len(turn.input), b \in 0..bodies :
           /\ IsLatest(turn.input, k) /\ <<turn.input[k].n, turn.id, b>> \in stamped
           /\ \A s \in stamped : s[1] <= turn.input[k].n /\ s[3] <= b
    BY <1>3, <1>10 DEF LastStamped
  <2>3. k \in 1..Len(history) /\ history[k] = turn.input[k]
    BY <1>4, <2>1
  <2>4. IsLatest(history, k)
    <3>1. ASSUME NEW j \in k + 1..Len(history) PROVE ~isUserTurnMessage(history[j])
      <4>1. CASE j <= Len(turn.input)
        BY <1>4, <2>1, <2>2, <4>1 DEF IsLatest
      <4>2. CASE ~(j <= Len(turn.input))
        BY <1>4, <2>1, <4>2
      <4> QED BY <4>1, <4>2
    <3> QED BY <2>2, <2>3, <3>1 DEF IsLatest
  <2>5. LatestUser(history) = history[k].n
    BY <1>1, <2>3, <2>4, LatestIs
  <2>6. stamped' = stamped \cup {<<history[k].n, t.id, bodies>>}
    BY <2>5 DEF Stamp
  <2>7. history[k].n \in Nat
    <3>1. history[k] \in Items
      BY <1>1, <2>3, ElementOfSeq
    <3> QED BY <3>1 DEF Items
  <2>8. \A s \in stamped : s[1] <= history[k].n
    BY <2>2, <2>3
  <2>9. CASE turn.signature = signature
    <3>1. ~Speaks(new)
      BY <1>5, <1>7, <1>10, <2>1, <2>9 DEF Speaks
    <3>2. t.id = turn.id
      BY <1>6, <1>10, <3>1
    <3>3. \A s \in stamped : s[2] = t.id => s[1] = history[k].n
      BY <1>3, <2>2, <2>3, <3>2 DEF Stamps, Agree
    <3>4. \A s \in stamped : s[1] = history[k].n /\ s[3] = bodies => s[2] = t.id
      <4>1. ASSUME NEW s \in stamped, s[1] = history[k].n, s[3] = bodies PROVE s[2] = t.id
        <5>1. b = bodies
          BY <1>1, <2>2, <4>1
        <5> QED BY <1>3, <2>2, <2>3, <3>2, <4>1, <5>1 DEF Stamps, Agree
      <4> QED BY <4>1
    <3>5. /\ turn'.id \in Nat /\ turn'.id # 0 /\ turn.id <= turn'.id
          /\ turn'.input = history /\ turn'.signature = signature
          /\ stamped' = stamped \cup {<<history[k].n, turn'.id, bodies>>}
          /\ \A s \in stamped : s[2] = turn'.id => s[1] = history[k].n
          /\ \A s \in stamped : s[1] = history[k].n /\ s[3] = bodies => s[2] = turn'.id
      BY <1>1, <1>2, <2>6, <3>2, <3>3, <3>4
    <3>6. Stamps' /\ LastStamped'
      BY <1>1, <1>3, <2>3, <2>4, <2>7, <2>8, <3>5, StampAdds
    <3> QED BY <1>2, <1>8, <3>6
  <2>10. CASE turn.signature # signature
    <3>1. history[k] \in new
      BY <1>1, <1>5, <2>3, <2>10, ToSetDef
    <3>2. t.id = turn.id + 1
      BY <1>6, <2>4, <3>1 DEF Speaks, IsLatest
    <3>3. \A s \in stamped : s[2] # t.id /\ s[2] <= t.id /\ s[3] # bodies
      BY <1>1, <1>3, <2>10, <3>2 DEF Stamps
    <3>4. /\ turn'.id \in Nat /\ turn'.id # 0 /\ turn.id <= turn'.id
          /\ turn'.input = history /\ turn'.signature = signature
          /\ stamped' = stamped \cup {<<history[k].n, turn'.id, bodies>>}
          /\ \A s \in stamped : s[2] = turn'.id => s[1] = history[k].n
          /\ \A s \in stamped : s[1] = history[k].n /\ s[3] = bodies => s[2] = turn'.id
      BY <1>1, <1>2, <2>6, <3>2, <3>3
    <3>5. Stamps' /\ LastStamped'
      BY <1>1, <1>3, <2>3, <2>4, <2>7, <2>8, <3>4, StampAdds
    <3> QED BY <1>2, <1>8, <3>5
  <2> QED BY <2>9, <2>10
<1> QED BY <1>3, <1>9, <1>10

(* A history that grows, but not by user messages, stays in its turn.       *)
LEMMA TurnGrows ==
    ASSUME SInv, Turns, crossed = 0, history # <<>>, NEW t \in Seq(Items),
           history' = history \o t, \A i \in 1..Len(t) : ~isUserTurnMessage(t[i]),
           turn' = turn, stamped' = stamped
    PROVE  (Spoken \/ (turn.id # 0 /\ SameTurn))' /\ history' # <<>>
<1>1. /\ Len(history') = Len(history) + Len(t)
      /\ Len(history) \in Nat /\ Len(t) \in Nat /\ history' \in Seq(Items)
      /\ \A i \in 1..Len(history) : history'[i] = history[i]
      /\ \A i \in Len(history) + 1..Len(history') :
            i - Len(history) \in 1..Len(t) /\ history'[i] = t[i - Len(history)]
  BY GrowPoints DEF SInv
<1>2. history \in Seq(Items) /\ turn.input \in Seq(Items)
  BY DEF SInv, TInv
<1>3. history' # <<>>
  BY <1>1, <1>2
<1>4. CASE Spoken
  <2>1. PICK k \in 1..Len(history) : IsLatest(history, k) /\ \A s \in stamped : s[1] < history[k].n
    BY <1>4 DEF Spoken
  <2>2. IsLatest(history \o t, k) /\ (history \o t)[k] = history[k]
    BY <1>2, <2>1, LatestStays
  <2>3. k \in 1..Len(history')
    BY <1>1
  <2>4. Spoken'
    BY <2>1, <2>2, <2>3 DEF Spoken
  <2> QED BY <1>3, <2>4
<1>5. CASE turn.id # 0 /\ SameTurn
  <2>1. IsPrefix(turn.input, history \o t)
    BY <1>2, <1>5, PrefixGrows DEF SameTurn
  <2>2. Len(turn.input) \in Nat
    BY <1>2
  <2>3. ASSUME NEW i \in Len(turn.input) + 1..Len(history') PROVE ~isUserTurnMessage(history'[i])
    <3>1. CASE i <= Len(history)
      BY <1>1, <1>5, <2>2, <3>1 DEF SameTurn
    <3>2. CASE ~(i <= Len(history))
      BY <1>1, <2>2, <3>2
    <3> QED BY <3>1, <3>2
  <2>4. SameTurn'
    BY <1>5, <2>1, <2>3 DEF SameTurn
  <2> QED BY <1>3, <1>5, <2>4
<1> QED BY <1>4, <1>5 DEF Turns

(* A user message ends the turn.                                            *)
LEMMA UserEndsTurn ==
    ASSUME SInv, history' # <<>>, history' \in Seq(Items), stamped' = stamped,
           history'[Len(history')] = Item("user", items + 1)
    PROVE  Spoken'
<1>1. items \in Nat /\ items + 1 \in Nat
  BY ChainAssumption DEF SInv, TInv
<1>2. Item("user", items + 1).kind = "user" /\ Item("user", items + 1).n = items + 1
  BY <1>1, ItemType DEF ItemKinds
<1>3. Len(history') \in 1..Len(history') /\ Len(history') + 1..Len(history') = {}
  OBVIOUS
<1>4. IsLatest(history', Len(history'))
  BY <1>2, <1>3 DEF IsLatest, isUserTurnMessage
<1>5. \A s \in stamped : s[1] < items + 1
  BY <1>1 DEF SInv, TInv
<1> QED BY <1>2, <1>3, <1>4, <1>5 DEF Spoken

LEMMA TurnStep ==
    ASSUME SInv, SInv', Turns, [ChainNext]_chainVars
    PROVE  Turns'
<1>0. /\ items \in Nat /\ items + 1 \in Nat /\ crossed \in Nat
      /\ history \in Seq(Items) /\ history' \in Seq(Items)
  BY ChainAssumption DEF SInv, TInv
<1> SUFFICES ASSUME crossed' = 0 PROVE Turns'
  BY DEF Turns
<1>1. CASE UserSpeaks
  <2>1. crossed = 0 /\ turn' = turn /\ stamped' = stamped /\ chainedTo' = chainedTo
        /\ flight = Nothing /\ flight' = Nothing /\ signature' = signature /\ bodies' = bodies
    BY <1>1 DEF UserSpeaks, Idle
  <2>2. history' # <<>> /\ history'[Len(history')] = Item("user", items + 1)
    BY <1>0, <1>1 DEF UserSpeaks
  <2>3. Spoken'
    BY <1>0, <2>1, <2>2, UserEndsTurn
  <2> QED BY <2>1, <2>2, <2>3 DEF Turns, Stamps, Agree, LastStamped, Idle
<1>2. CASE Compact
  <2>1. crossed = 0 /\ turn' = turn /\ stamped' = stamped /\ chainedTo' = chainedTo
        /\ flight = Nothing /\ flight' = Nothing /\ signature' = signature /\ bodies' = bodies
    BY <1>2 DEF Compact, Idle
  <2>2. history' # <<>> /\ history'[Len(history')] = Item("user", items + 1)
    BY <1>0, <1>2 DEF Compact
  <2>3. Spoken'
    BY <1>0, <2>1, <2>2, UserEndsTurn
  <2> QED BY <2>1, <2>2, <2>3 DEF Turns, Stamps, Agree, LastStamped, Idle
<1>3. ASSUME NEW n \in ranCalls, Reports(n) PROVE Turns'
  <2>1. /\ crossed = 0 /\ turn' = turn /\ stamped' = stamped /\ chainedTo' = chainedTo
        /\ flight = Nothing /\ flight' = Nothing /\ signature' = signature /\ bodies' = bodies
    BY <1>3 DEF Reports, Idle
  <2>2. PICK t : t = <<Item("call", n), Item("output", n)>>
    OBVIOUS
  <2>3. n \in Nat
    BY <1>0 DEF SInv, TInv
  <2>4. /\ t \in Seq(Items) /\ history' = history \o t
        /\ \A i \in 1..Len(t) : t[i].kind \in {"call", "output"}
    <3>1. /\ Item("call", n) \in Items /\ Item("call", n).kind = "call"
          /\ Item("output", n) \in Items /\ Item("output", n).kind = "output"
      BY <2>3, ItemType DEF ItemKinds
    <3>2. t \in Seq(Items) /\ \A i \in 1..Len(t) : t[i].kind \in {"call", "output"}
      BY <2>2, <3>1
    <3> QED BY <1>3, <2>2, <3>2 DEF Reports
  <2>5. history # <<>> /\ \A i \in 1..Len(t) : ~isUserTurnMessage(t[i])
    BY <2>4 DEF isUserTurnMessage, SInv, Written
  <2>6. (Spoken \/ (turn.id # 0 /\ SameTurn))' /\ history' # <<>>
    BY <2>1, <2>4, <2>5, TurnGrows
  <2> QED BY <2>1, <2>6 DEF Turns, Stamps, Agree, LastStamped, Idle
<1>4. ASSUME NEW text \in BOOLEAN, NEW calls \in BOOLEAN, OtherLane(text, calls) PROVE Turns'
  <2>1. /\ crossed = 0 /\ turn' = turn /\ stamped' = stamped /\ chainedTo' = chainedTo
        /\ flight = Nothing /\ flight' = Nothing /\ signature' = signature /\ bodies' = bodies
        /\ history # <<>>
    BY <1>4 DEF OtherLane, Idle
  <2>2. PICK t : t = Says(items + 1, text)
    OBVIOUS
  <2>3. t \in Seq(Items) /\ \A i \in 1..Len(t) : t[i] = Item("assistant", items + 1)
    BY <1>0, <2>2, SaysType
  <2>4. \A i \in 1..Len(t) : ~isUserTurnMessage(t[i])
    BY <1>0, <2>3, ItemType DEF ItemKinds, isUserTurnMessage
  <2>5. history' = history \o t
    BY <1>4, <2>2 DEF OtherLane
  <2>6. (Spoken \/ (turn.id # 0 /\ SameTurn))' /\ history' # <<>>
    BY <2>1, <2>3, <2>4, <2>5, TurnGrows
  <2> QED BY <2>1, <2>6 DEF Turns, Stamps, Agree, LastStamped, Idle
<1>5. ASSUME NEW text \in BOOLEAN, NEW calls \in BOOLEAN, Completes(text, calls) PROVE Turns'
  <2>1. /\ crossed = 0 /\ turn' = turn /\ stamped' = stamped /\ signature' = signature /\ bodies' = bodies
        /\ flight # Nothing /\ flight' = Nothing /\ flight.full = history /\ history # <<>>
    BY <1>5 DEF Completes, Idle, SInv, Flying
  <2>2. PICK t : t = Says(items + 1, text)
    OBVIOUS
  <2>3. t \in Seq(Items) /\ \A i \in 1..Len(t) : t[i] = Item("assistant", items + 1)
    BY <1>0, <2>2, SaysType
  <2>4. \A i \in 1..Len(t) : ~isUserTurnMessage(t[i])
    BY <1>0, <2>3, ItemType DEF ItemKinds, isUserTurnMessage
  <2>5. history' = history \o t
    BY <1>5, <2>2 DEF Completes
  <2>6. (Spoken \/ (turn.id # 0 /\ SameTurn))' /\ history' # <<>>
    BY <2>1, <2>3, <2>4, <2>5, TurnGrows
  <2>7. chainedTo'.input = history /\ chainedTo'.signature = signature
    BY <1>5, <2>1 DEF Completes, updateContinuation
  <2> QED BY <2>1, <2>6, <2>7 DEF Turns, Stamps, Agree, LastStamped, Idle
<1>6. CASE Request
  <2>1. /\ crossed = 0 /\ flight = Nothing /\ history # <<>> /\ history' = history
        /\ signature' = signature /\ bodies' = bodies
    BY <1>6 DEF Request, Idle
  <2>2. PICK c \in {FreshChain, Nothing, chainedTo} : Sends(c)
    BY <1>6 DEF Request
  <2>3. c \in {Nothing} \cup Continuations
    BY <2>2, FreshTrims DEF SInv, TInv
  <2> DEFINE parts == withContinuation(c, history)
  <2>4. \/ parts.sent = ToSet(history)
        \/ turn.signature = signature /\ IsPrefix(turn.input, history)
    <3>1. \/ parts.sent = ToSet(history)
          \/ /\ c # Nothing /\ c.input # <<>> /\ c.signature = signature
             /\ IsPrefix(c.input, history)
      <4>1. ASSUME NEW linked, NEW left, parts = Body(linked, ToSet(history), left)
            PROVE  parts.sent = ToSet(history)
        BY <4>1 DEF Body
      <4> HIDE DEF parts
      <4> QED BY <1>0, <2>3, <4>1, Bodies DEF parts
    <3>2. c # Nothing /\ c.input # <<>> => c = chainedTo
      BY <2>2 DEF FreshChain
    <3> QED BY <2>1, <3>1, <3>2 DEF Turns, Idle
  <2>5. PICK t : t = advanceTurn(turn, parts.sent, history)
    OBVIOUS
  <2>6. /\ t.id <= MaxTurns /\ turn' = t /\ Stamp(t, history)
    BY <2>2, <2>5 DEF Sends
  <2>7. flight' # Nothing
    BY <2>2 DEF Sends, Nothing
  <2>8. Stamps' /\ LastStamped' /\ SameTurn' /\ turn'.id # 0
    <3> HIDE DEF parts
    <3> QED BY <2>1, <2>4, <2>5, <2>6, StampsTurn
  <2>9. turn'.input = history' /\ turn'.signature = signature'
    BY <2>1, <2>5, <2>6 DEF advanceTurn
  <2> QED BY <2>1, <2>7, <2>8, <2>9 DEF Turns, Idle
<1>7. ASSUME NEW keep \in BOOLEAN, Cut(keep) PROVE Turns'
  <2>1. /\ crossed = 0 /\ turn' = turn /\ stamped' = stamped /\ signature' = signature /\ bodies' = bodies
        /\ flight # Nothing /\ flight' = Nothing /\ chainedTo' = Nothing /\ history # <<>>
    BY <1>7 DEF Cut, Idle, SInv, Flying
  <2>2. (Spoken \/ (turn.id # 0 /\ SameTurn))' /\ history' # <<>>
    <3>1. CASE keep
      <4>1. PICK t : t = <<Item("assistant", items + 1), Item("call", items + 1),
                           Item("output", items + 1)>>
        OBVIOUS
      <4>2. /\ Item("assistant", items + 1) \in Items
            /\ Item("assistant", items + 1).kind = "assistant"
            /\ Item("call", items + 1) \in Items /\ Item("call", items + 1).kind = "call"
            /\ Item("output", items + 1) \in Items /\ Item("output", items + 1).kind = "output"
        BY <1>0, ItemType DEF ItemKinds
      <4>3. /\ t \in Seq(Items)
            /\ \A i \in 1..Len(t) : t[i].kind \in {"assistant", "call", "output"}
        BY <4>1, <4>2
      <4>4. history' = history \o t
        BY <1>7, <3>1, <4>1 DEF Cut
      <4> QED BY <2>1, <4>3, <4>4, TurnGrows DEF isUserTurnMessage
    <3>2. CASE ~keep
      <4>1. history' = history
        BY <1>7, <3>2 DEF Cut
      <4> QED BY <2>1, <4>1 DEF Turns, Spoken, SameTurn
    <3> QED BY <3>1, <3>2
  <2> QED BY <2>1, <2>2 DEF Turns, Stamps, Agree, LastStamped, Idle
<1>8. CASE FallsBack
  <2>1. /\ crossed = 0 /\ history' = history /\ signature' = signature /\ bodies' = bodies
        /\ flight' = Nothing /\ chainedTo' = Nothing /\ history # <<>> /\ flight.full = history
    BY <1>8 DEF FallsBack, Idle, SInv, Flying
  <2>2. PICK t : t = advanceTurn(turn, ToSet(history), history)
    OBVIOUS
  <2>3. t.id <= MaxTurns /\ turn' = t /\ Stamp(t, history)
    BY <1>8, <2>1, <2>2 DEF FallsBack
  <2>4. Stamps' /\ LastStamped' /\ SameTurn' /\ turn'.id # 0
    BY <2>1, <2>2, <2>3, StampsTurn
  <2> QED BY <2>1, <2>4 DEF Turns
<1>9. CASE HttpRequest
  <2>1. /\ crossed = 0 /\ history' = history /\ signature' = signature /\ bodies' = bodies
        /\ flight = Nothing /\ flight' = Nothing /\ chainedTo' = Nothing /\ history # <<>>
    BY <1>9 DEF HttpRequest, Idle, SInv, Chained
  <2>2. PICK t : t = advanceTurn(turn, ToSet(history), history)
    OBVIOUS
  <2>3. t.id <= MaxTurns /\ turn' = t /\ Stamp(t, history)
    BY <1>9, <2>2 DEF HttpRequest
  <2>4. Stamps' /\ LastStamped' /\ SameTurn' /\ turn'.id # 0
    BY <2>1, <2>2, <2>3, StampsTurn
  <2> QED BY <2>1, <2>4 DEF Turns
<1>10. CASE BusyRequest
  BY <1>0, <1>10 DEF BusyRequest
<1>11. CASE Disconnects
  BY <1>11 DEF Disconnects, Turns, Stamps, Agree, LastStamped, Spoken, SameTurn, Idle
<1>12. CASE BodyChanges
  <2>1. /\ crossed = 0 /\ turn' = turn /\ stamped' = stamped /\ chainedTo' = chainedTo
        /\ flight = Nothing /\ flight' = Nothing /\ history' = history /\ bodies' = bodies + 1
    BY <1>12 DEF BodyChanges, Idle
  <2>2. /\ bodies \in Nat /\ 0..bodies \subseteq 0..bodies'
        /\ \A s \in stamped : s[3] \in Nat
    BY <1>0, <2>1, ChainAssumption DEF SInv, TInv
  <2>3. Stamps'
    BY <2>1, <2>2 DEF Turns, Stamps, Agree
  <2>4. LastStamped'
    BY <2>1, <2>2 DEF Turns, LastStamped
  <2>5. history' # <<>> => (Spoken \/ (turn.id # 0 /\ SameTurn))'
    BY <2>1 DEF Turns, Spoken, SameTurn
  <2> QED BY <2>1, <2>3, <2>4, <2>5 DEF Turns, Idle
<1>13. CASE UNCHANGED chainVars
  BY <1>13 DEF chainVars, Turns, Stamps, Agree, LastStamped, Spoken, SameTurn, Idle
<1> QED BY <1>1, <1>2, <1>3, <1>4, <1>5, <1>6, <1>7, <1>8, <1>9, <1>10, <1>11, <1>12, <1>13
        DEF ChainNext

LEMMA TurnInit == ChainInit => Turns
  BY DEF ChainInit, Turns, Stamps, LastStamped

(* The requests of a user turn carry one turn id as long as the body keeps  *)
(* its signature, and share it with no other turn, over tool loops,         *)
(* retries, cuts, compactions, other lanes and the fallback to HTTP, until  *)
(* a request of the session crosses another (advanceTurn, runHttpFallback). *)
THEOREM TurnsKeepTheirId == ChainSpec => []OneTurnIdPerTurn
<1>1. IInv => OneTurnIdPerTurn
  BY DEF IInv, Turns, Stamps, Agree, OneTurnIdPerTurn
<1>2. ChainInit => IInv
  BY SentInit, TurnInit DEF IInv
<1>3. IInv /\ [ChainNext]_chainVars => IInv'
  BY SentStep, TurnStep DEF IInv
<1> QED BY <1>1, <1>2, <1>3, PTL DEF ChainSpec

=============================================================================
