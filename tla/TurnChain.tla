------------------------------- MODULE TurnChain ------------------------------
(***************************************************************************)
(* What a pool entry sends of a conversation (ws-pool.ts): a request that  *)
(* continues the last response names it as previous_response_id and sends  *)
(* only what the server does not hold; a prewarm starts a fresh chain; one *)
(* turn_id is stamped on all requests of a user turn.  The host's history  *)
(* grows by user messages, by what responses said and by the calls it ran, *)
(* in this lane or in another (HTTP, another account), and may be          *)
(* compacted.                                                              *)
(***************************************************************************)
EXTENDS Naturals, Sequences, FiniteSets, SequencesExt

CONSTANTS
    Signatures,   \* of request bodies: all of a body but its input
    MaxItems,     \* bound: items made, and changes of the body besides its input
    MaxTurns,     \* bound: turn ids minted
    MaxCrossed    \* bound: requests of the session that come while one is in flight

ASSUME ChainAssumption == MaxItems \in Nat /\ MaxTurns \in Nat /\ MaxCrossed \in Nat

Nothing == [id |-> 0]

VARIABLES
    history,        \* the input the host would send now
    signature,      \* everything of the body but its input
    bodies,         \* times it changed
    items,          \* items made so far
    ranCalls,            \* calls the host has run and not yet reported
    elsewhere,      \* items other lanes produced
    chainedTo,   \* entry.continuation, with the items the server holds for it
    turn,           \* entry.turnID, turnInput, turnSignature
    overHttp,
    flight,         \* the request in flight
    stamped,        \* <<user message, turn id, bodies>> of every request this entry sent
    crossed         \* requests that came while one was in flight

chainVars == <<history, signature, bodies, items, ranCalls, elsewhere, chainedTo, turn, overHttp, flight, stamped, crossed>>

Item(kind, n) == [kind |-> kind, n |-> n]
isUserTurnMessage(item) == item.kind = "user"
Speaks(new) == \E item \in new : isUserTurnMessage(item)
LatestUser(s) == s[CHOOSE i \in 1..Len(s) : /\ isUserTurnMessage(s[i])
                                           /\ \A j \in i + 1..Len(s) : ~isUserTurnMessage(s[j])].n
Rest(s, k) == SubSeq(s, k + 1, Len(s))

-----------------------------------------------------------------------------
(* continuationInput, hasContinuationPrefix, shouldPrewarm, withContinuation *)

(* What the chained response does not hold: user messages, outputs, and     *)
(* calls it did not finalize.  Assistant text is taken to be in it.         *)
continuationInput(suffix, finalized) ==
    {item \in ToSet(suffix) :
        item.kind \in {"user", "output"} \/ (item.kind = "call" /\ item.n \notin finalized)}

hasContinuationPrefix(c, full) ==
    c # Nothing /\ Len(c.input) < Len(full) /\ IsPrefix(c.input, full)

shouldPrewarm(c, full) ==
    \/ ~hasContinuationPrefix(c, full)
    \/ \E i \in Len(c.input) + 1..Len(full) : isUserTurnMessage(full[i])

(* The request's body: the items sent, whether it is chained, and the       *)
(* continuation the entry is left with.                                     *)
Body(chained, sent, c) == [chained |-> chained, sent |-> sent, left |-> c]

(* Mutant: the suffix skips an item.                                        *)
withContinuationShort(c, full) ==
    IF ~hasContinuationPrefix(c, full) \/ c.signature # signature THEN Body(FALSE, ToSet(full), Nothing)
    ELSE IF c.input = <<>> THEN Body(TRUE, ToSet(full), c)
    ELSE LET next == continuationInput(Rest(full, Len(c.input) + 1), c.finalized)
         IN  IF next = {} THEN Body(FALSE, ToSet(full), c) ELSE Body(TRUE, next, c)

withContinuation(c, full) ==
    IF ~hasContinuationPrefix(c, full) \/ c.signature # signature THEN Body(FALSE, ToSet(full), Nothing)
    ELSE IF c.input = <<>> THEN Body(TRUE, ToSet(full), c)
    ELSE LET next == continuationInput(Rest(full, Len(c.input)), c.finalized)
         IN  IF next = {} THEN Body(FALSE, ToSet(full), c) ELSE Body(TRUE, next, c)

-----------------------------------------------------------------------------
(* advanceTurn *)

(* Mutant: only what is sent decides whether a user turn starts.            *)
advanceTurnBySent(t, sent, full) ==
    [id |-> IF t.id = 0 \/ Speaks(sent) THEN t.id + 1 ELSE t.id,
     input |-> full, signature |-> signature]

(* The part of the input that is new since the last request: of the full    *)
(* input when that request's is a prefix of it, else what is sent.          *)
advanceTurn(t, sent, full) ==
    LET new == IF t.id # 0 /\ t.signature = signature /\ IsPrefix(t.input, full)
               THEN ToSet(Rest(full, Len(t.input))) ELSE sent
    IN  [id |-> IF t.id = 0 \/ Speaks(new) THEN t.id + 1 ELSE t.id,
         input |-> full, signature |-> signature]

-----------------------------------------------------------------------------
(* The host *)

Idle == flight = Nothing
HasRoom == items + bodies < MaxItems

UserSpeaks ==
    /\ Idle /\ HasRoom
    /\ items' = items + 1
    /\ history' = Append(history, Item("user", items'))
    /\ UNCHANGED <<signature, bodies, ranCalls, elsewhere, chainedTo, turn, overHttp, flight, stamped,
                   crossed>>

(* Tools, instructions or options change between two requests, of one user  *)
(* turn or of two.                                                          *)
BodyChanges ==
    /\ Idle /\ HasRoom
    /\ bodies' = bodies + 1
    /\ signature' \in Signatures \ {signature}
    /\ UNCHANGED <<history, items, ranCalls, elsewhere, chainedTo, turn, overHttp, flight, stamped,
                   crossed>>

(* The history is replaced by a summary of it.                              *)
Compact ==
    /\ Idle /\ HasRoom /\ history # <<>>
    /\ items' = items + 1
    /\ history' = <<Item("user", items')>>
    /\ ranCalls' = {}
    /\ UNCHANGED <<signature, bodies, elsewhere, chainedTo, turn, overHttp, flight, stamped, crossed>>

(* A call and its output enter the history, together and perhaps late.      *)
Reports(n) ==
    /\ Idle
    /\ ranCalls' = ranCalls \ {n}
    /\ history' = history \o <<Item("call", n), Item("output", n)>>
    /\ UNCHANGED <<signature, bodies, items, elsewhere, chainedTo, turn, overHttp, flight, stamped,
                   crossed>>

(* What a response said, and the calls it made, as the host keeps them.     *)
Says(n, text) == IF text THEN <<Item("assistant", n)>> ELSE <<>>

(* The same conversation over another lane: another account's entry, whose  *)
(* responses this entry does not chain to.                                  *)
OtherLane(text, calls) ==
    /\ Idle /\ history # <<>> /\ HasRoom
    /\ items' = items + 1
    /\ history' = history \o Says(items', text)
    /\ ranCalls' = IF calls THEN ranCalls \cup {items'} ELSE ranCalls
    /\ elsewhere' = elsewhere \cup {items'}
    /\ UNCHANGED <<signature, bodies, chainedTo, turn, overHttp, flight, stamped, crossed>>

-----------------------------------------------------------------------------
(* Requests *)

Stamp(t, full) == stamped' = stamped \cup {<<LatestUser(full), t.id, bodies>>}

Sends(c) ==
    LET body == withContinuation(c, history)
        held == IF body.chained THEN c.held ELSE {}
        t == advanceTurn(turn, body.sent, history)
    IN  /\ t.id <= MaxTurns
        /\ chainedTo' = body.left
        /\ turn' = t
        /\ Stamp(t, history)
        /\ flight' = [id |-> 1, full |-> history, sent |-> body.sent, held |-> held,
                      chained |-> body.chained, turn |-> t.id]

(* A prewarm that completes starts an empty chain; one that does not leaves *)
(* none.                                                                    *)
FreshChain == [id |-> 1, input |-> <<>>, signature |-> signature, finalized |-> {}, held |-> {}]

Request ==
    /\ Idle /\ ~overHttp /\ history # <<>>
    /\ IF shouldPrewarm(chainedTo, history)
       THEN Sends(FreshChain) \/ Sends(Nothing)
       ELSE Sends(chainedTo)
    /\ UNCHANGED <<history, signature, bodies, items, ranCalls, elsewhere, overHttp, crossed>>

(* The response becomes the one to chain to; `held` is what the server then *)
(* has of the conversation.                                                 *)
updateContinuation(n, text, calls) ==
    [id |-> 1, input |-> flight.full, signature |-> signature,
     finalized |-> (IF flight.chained THEN chainedTo.finalized ELSE {})
                       \cup (IF calls THEN {n} ELSE {}),
     held |-> flight.held \cup flight.sent \cup ToSet(Says(n, text))
                  \cup (IF calls THEN {Item("call", n)} ELSE {})]

Completes(text, calls) ==
    /\ ~Idle /\ HasRoom
    /\ items' = items + 1
    /\ history' = history \o Says(items', text)
    /\ ranCalls' = IF calls THEN ranCalls \cup {items'} ELSE ranCalls
    /\ chainedTo' = updateContinuation(items', text, calls)
    /\ flight' = Nothing
    /\ UNCHANGED <<signature, bodies, elsewhere, turn, overHttp, stamped, crossed>>

(* The stream is cut; the host keeps its partial text and its partial call, *)
(* with the output it makes up for it, or nothing.                          *)
Cut(keep) ==
    /\ ~Idle
    /\ IF keep THEN /\ HasRoom
                    /\ items' = items + 1
                    /\ history' = history \o <<Item("assistant", items'), Item("call", items'),
                                              Item("output", items')>>
       ELSE UNCHANGED <<items, history>>
    /\ chainedTo' = Nothing
    /\ flight' = Nothing
    /\ UNCHANGED <<signature, bodies, ranCalls, elsewhere, turn, overHttp, stamped, crossed>>

(* The attempt fails for good before anything was shown: the session falls  *)
(* back, and the same request is stamped again and sent over HTTP.          *)
FallsBack ==
    LET t == advanceTurn(turn, ToSet(flight.full), flight.full)
    IN  /\ ~Idle
        /\ t.id <= MaxTurns
        /\ turn' = t
        /\ Stamp(t, flight.full)
        /\ overHttp' = TRUE
        /\ chainedTo' = Nothing
        /\ flight' = Nothing
        /\ UNCHANGED <<history, signature, bodies, items, ranCalls, elsewhere, crossed>>

(* httpFallbackInit: a request of a session that uses HTTP.                 *)
HttpRequest ==
    LET t == advanceTurn(turn, ToSet(history), history)
    IN  /\ Idle /\ overHttp /\ history # <<>>
        /\ t.id <= MaxTurns
        /\ turn' = t
        /\ Stamp(t, history)
        /\ UNCHANGED <<history, signature, bodies, items, ranCalls, elsewhere, chainedTo, overHttp, flight,
                       crossed>>

(* A second request of the session while the entry is busy, with an input   *)
(* of its own: it goes over HTTP, and advances the same turn state.         *)
BusyRequest ==
    /\ ~Idle /\ HasRoom /\ crossed < MaxCrossed
    /\ items' = items + 1
    /\ crossed' = crossed + 1
    /\ LET other == <<Item("user", items')>>
           t == advanceTurn(turn, ToSet(other), other)
       IN  t.id <= MaxTurns /\ turn' = t /\ Stamp(t, other)
    /\ UNCHANGED <<history, signature, bodies, ranCalls, elsewhere, chainedTo, overHttp, flight>>

(* The socket is pruned, aged or dropped between two requests.              *)
Disconnects ==
    /\ Idle /\ chainedTo # Nothing
    /\ chainedTo' = Nothing
    /\ UNCHANGED <<history, signature, bodies, items, ranCalls, elsewhere, turn, overHttp, flight, stamped,
                   crossed>>

-----------------------------------------------------------------------------
ChainInit ==
    /\ history = <<>> /\ signature \in Signatures /\ bodies = 0 /\ items = 0 /\ ranCalls = {} /\ elsewhere = {}
    /\ chainedTo = Nothing
    /\ turn = [id |-> 0, input |-> <<>>, signature |-> signature]
    /\ overHttp = FALSE
    /\ flight = Nothing
    /\ stamped = {}
    /\ crossed = 0

ChainNext ==
    \/ UserSpeaks \/ BodyChanges \/ Compact \/ (\E n \in ranCalls : Reports(n))
    \/ \E text, calls \in BOOLEAN : OtherLane(text, calls) \/ Completes(text, calls)
    \/ Request \/ (\E keep \in BOOLEAN : Cut(keep)) \/ FallsBack \/ HttpRequest
    \/ BusyRequest \/ Disconnects

ChainSpec == ChainInit /\ [][ChainNext]_chainVars

-----------------------------------------------------------------------------
(* Properties *)

Context == flight.held \cup flight.sent

(* The continuation, the turn and the request in flight are well formed.    *)
ChainTypes ==
    /\ items \in 0..MaxItems /\ ranCalls \subseteq 1..items /\ elsewhere \subseteq 1..items
    /\ \A i \in 1..Len(history) :
        history[i].kind \in {"user", "assistant", "call", "output"} /\ history[i].n \in 1..items
    /\ chainedTo # Nothing => chainedTo.finalized \subseteq 1..items
    /\ turn.id \in 0..MaxTurns /\ overHttp \in BOOLEAN /\ crossed \in 0..MaxCrossed /\ bodies \in 0..MaxItems
    /\ stamped \subseteq (1..items) \X (1..MaxTurns) \X (0..bodies)

(* Trimming loses nothing and repeats nothing: the server has all of the    *)
(* history, but for text that another lane's response said, and is sent no  *)
(* item that the chained response holds.                                    *)
ContextExact ==
    flight # Nothing =>
        /\ \A item \in ToSet(flight.full) :
              item \in Context \/ (item.kind = "assistant" /\ item.n \in elsewhere)
        /\ flight.held \cap flight.sent = {}

(* No two user turns share a turn id, and the requests of one carry one,    *)
(* over its tool loop, retries, reconnects and the fallback to HTTP, but    *)
(* where the body changed between two of them: what is sent in full then    *)
(* counts as new, and a second id is minted.  As long as no other request   *)
(* of the session came while one was in flight.                             *)
OneTurnIdPerTurn ==
    crossed = 0 =>
        \A s, t \in stamped :
            /\ s[2] = t[2] => s[1] = t[1]
            /\ s[1] = t[1] /\ s[3] = t[3] => s[2] = t[2]

=============================================================================
