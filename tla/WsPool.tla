-------------------------------- MODULE WsPool --------------------------------
(***************************************************************************)
(* createWebSocketFetch (ws-pool.ts): the requests of one session and      *)
(* account share a pool entry, one request at a time over its WebSocket,   *)
(* the others over HTTP.  A request dials or reuses the socket, prewarms   *)
(* it, chains to the response the entry remembers and streams; between     *)
(* each of these it awaits, and other requests, the pruning timer, the end *)
(* of the session and the server's close fall in between.                  *)
(***************************************************************************)
EXTENDS Naturals, FiniteSets

CONSTANTS
    Requests,
    MaxEntries,      \* bound: entries made for the session
    MaxSockets,      \* bound: sockets opened
    MaxRemovals,     \* bound: times the session is removed from the pool
    streamRetries,
    rawWebSocket,    \* the raw client, which reports a refused upgrade's status
    Reissue          \* a request may start before an aborted one reaches its catch

ASSUME PoolAssumption ==
    /\ MaxEntries \in Nat /\ MaxSockets \in Nat /\ MaxRemovals \in Nat
    /\ streamRetries \in Nat
    /\ rawWebSocket \in BOOLEAN /\ Reissue \in BOOLEAN

None == 0
Entries == 1..MaxEntries
Sockets == 1..MaxSockets

VARIABLES
    pc,             \* where each request stands
    mine,           \* the entry it took from the pool
    sock,           \* the socket it was promised, or streams on
    chain,          \* the socket whose response it names as previous_response_id
    failure,        \* what the request is about to catch
    delivered,      \* the caller has read a frame of the WebSocket response
    served,         \* how the request was answered
    pooled,         \* the entry the pool holds for the key
    made,           \* entries made
    busy, fallback, streamFailures,
    socket,         \* each entry's socket
    continuation,   \* the socket of the response each entry would chain to
    state,          \* each socket: "unused", "open", "old" (past its age), "closed"
    removals

request == <<pc, mine, sock, chain, failure, delivered, served>>
pool    == <<pooled, made, removals>>
entry   == <<busy, fallback, streamFailures, socket, continuation>>
vars    == <<request, pool, entry, state>>

-----------------------------------------------------------------------------
(* Entries *)

(* Mutant: the continuation outlives its socket.                            *)
invalidateKeepingChain(e) ==
    /\ socket' = [socket EXCEPT ![e] = None]
    /\ UNCHANGED continuation
    /\ state' = [s \in Sockets |-> IF s = socket[e] THEN "closed" ELSE state[s]]

(* The entry's socket is closed and forgotten, its continuation with it.    *)
invalidate(e) ==
    /\ socket' = [socket EXCEPT ![e] = None]
    /\ continuation' = [continuation EXCEPT ![e] = None]
    /\ state' = [s \in Sockets |-> IF s = socket[e] THEN "closed" ELSE state[s]]

Free(e) == busy' = [busy EXCEPT ![e] = FALSE]

(* The failure that exceeds streamRetries, or one that the transport itself *)
(* caused (`sticky`), sends the rest of the session over HTTP.              *)
recordStreamFailure(e, sticky) ==
    /\ streamFailures' = [streamFailures EXCEPT ![e] = @ + 1]
    /\ fallback' = [fallback EXCEPT ![e] = @ \/ sticky \/ streamFailures[e] + 1 > streamRetries]

(* The request's locals are gone once it is answered.                       *)
Answer(r, how) ==
    /\ pc' = [pc EXCEPT ![r] = "done"]
    /\ served' = [served EXCEPT ![r] = how]
    /\ sock' = [sock EXCEPT ![r] = None]
    /\ chain' = [chain EXCEPT ![r] = None]
    /\ failure' = [failure EXCEPT ![r] = "none"]

-----------------------------------------------------------------------------
(* websocketFetch *)

Reusable(e) == socket[e] # None /\ state[socket[e]] = "open"

Take(r, e) ==
    /\ pooled' = e
    /\ mine' = [mine EXCEPT ![r] = e]
    /\ UNCHANGED <<removals, delivered>>

(* Over HTTP at once: the entry is busy, or has given up on WebSockets.     *)
BeginHttp(r, e) ==
    /\ fallback[e] \/ busy[e]
    /\ Answer(r, "http")
    /\ UNCHANGED <<entry, state>>

(* The open socket is reused; otherwise the entry is invalidated and a new  *)
(* one is dialled.                                                          *)
BeginSocket(r, e) ==
    /\ ~fallback[e] /\ ~busy[e]
    /\ busy' = [busy EXCEPT ![e] = TRUE]
    /\ pc' = [pc EXCEPT ![r] = "socket"]
    /\ IF Reusable(e)
       THEN sock' = [sock EXCEPT ![r] = socket[e]] /\ UNCHANGED <<socket, continuation, state>>
       ELSE UNCHANGED sock /\ invalidate(e)
    /\ UNCHANGED <<chain, failure, fallback, streamFailures, served>>

Begin(r) ==
    /\ pc[r] = "idle"
    /\ Reissue \/ \A q \in Requests : pc[q] # "caught"
    /\ \E e \in Entries :
        /\ \/ pooled = e /\ UNCHANGED made
           \/ pooled = None /\ e = made + 1 /\ made' = e
        /\ Take(r, e)
        /\ BeginHttp(r, e) \/ BeginSocket(r, e)

Fresh(s) == state[s] = "unused" /\ \A t \in Sockets : t < s => state[t] # "unused"

(* The awaited socket becomes the entry's.                                  *)
Connects(r) ==
    /\ pc[r] = "socket"
    /\ \/ /\ sock[r] # None
          /\ socket' = [socket EXCEPT ![mine[r]] = sock[r]]
          /\ UNCHANGED state
       \/ /\ sock[r] = None
          /\ \E s \in Sockets :
                /\ Fresh(s)
                /\ state' = [state EXCEPT ![s] = "open"]
                /\ socket' = [socket EXCEPT ![mine[r]] = s]
    /\ UNCHANGED <<pool, busy, fallback, streamFailures>>

(* No continuation, or one this input starts a new user turn after or does  *)
(* not extend.  A request without input has nothing to prewarm.             *)
ConnectsPrewarm(r) ==
    /\ Connects(r)
    /\ \E next \in {"prewarmDump", "ready"} : pc' = [pc EXCEPT ![r] = next]
    /\ UNCHANGED <<mine, sock, chain, failure, delivered, served, continuation>>

(* withContinuation: the request chains; or its signature or its input does *)
(* not continue the response's, which is forgotten; or nothing is left to   *)
(* send after trimming, and it goes in full.                                *)
ContinuesChain(r) ==
    /\ pc' = [pc EXCEPT ![r] = "mainDump"]
    /\ \/ chain' = [chain EXCEPT ![r] = continuation[mine[r]]] /\ UNCHANGED continuation
       \/ continuation' = [continuation EXCEPT ![mine[r]] = None] /\ UNCHANGED chain
       \/ UNCHANGED <<chain, continuation>>
    /\ UNCHANGED <<mine, sock, failure, delivered, served>>

ConnectsChained(r) ==
    /\ Connects(r)
    /\ continuation[mine[r]] # None
    /\ ContinuesChain(r)

Throw(r, what) ==
    /\ pc' = [pc EXCEPT ![r] = "catching"]
    /\ failure' = [failure EXCEPT ![r] = what]

ConnectFails(r) ==
    /\ pc[r] = "socket" /\ sock[r] = None
    /\ \E what \in {"abort", "upgrade", "timeout"} : Throw(r, what)
    /\ UNCHANGED <<mine, sock, chain, delivered, served, pool, entry, state>>

-----------------------------------------------------------------------------
(* prewarm *)

(* The dump is awaited, then the entry's socket is read again: it is gone   *)
(* when the session was removed meanwhile.                                  *)
AfterDump(r, from, to) ==
    /\ pc[r] = from
    /\ \/ /\ socket[mine[r]] # None
          /\ pc' = [pc EXCEPT ![r] = to]
          /\ sock' = [sock EXCEPT ![r] = socket[mine[r]]]
          /\ UNCHANGED failure
       \/ socket[mine[r]] = None /\ Throw(r, "error") /\ UNCHANGED sock
    /\ UNCHANGED <<mine, chain, delivered, served, pool, entry, state>>

PrewarmStarts(r) == AfterDump(r, "prewarmDump", "prewarm")

PrewarmCompletes(r) ==
    /\ pc[r] = "prewarm"
    /\ pc' = [pc EXCEPT ![r] = "ready"]
    /\ continuation' = [continuation EXCEPT ![mine[r]] = sock[r]]
    /\ UNCHANGED <<mine, sock, chain, failure, delivered, served, pool, busy, fallback,
                   streamFailures, socket, state>>

(* It ends without completing: the stream closes, and the request goes on;  *)
(* or it errors (aborted, refused, lost, at the connection limit).          *)
PrewarmEnds(r) ==
    /\ pc[r] = "prewarm"
    /\ continuation' = [continuation EXCEPT ![mine[r]] = None]
    /\ \/ /\ pc' = [pc EXCEPT ![r] = "ready"]
          /\ UNCHANGED <<failure, fallback>>
       \/ \E what \in {"abort", "error"}, limit \in BOOLEAN :
            /\ Throw(r, what)
            /\ fallback' = [fallback EXCEPT ![mine[r]] = @ \/ limit]
    /\ UNCHANGED <<mine, sock, chain, delivered, served, pool, busy, streamFailures, socket, state>>

Ready(r) ==
    /\ pc[r] = "ready"
    /\ ContinuesChain(r)
    /\ UNCHANGED <<pool, busy, fallback, streamFailures, socket, state>>

-----------------------------------------------------------------------------
(* The response's stream, and what the pool does at its verdict *)

StreamStarts(r) == AfterDump(r, "mainDump", "stream")

Streaming(r) == pc[r] \in {"stream", "relayed", "returned"}

(* The first frame within the grace returns the response as it is ...       *)
FirstEvent(r) ==
    /\ pc[r] = "stream"
    /\ pc' = [pc EXCEPT ![r] = "returned"]
    /\ UNCHANGED <<mine, sock, chain, failure, delivered, served, pool, entry, state>>

(* ... after it the response is relayed, so that HTTP can still replace it. *)
GraceEnds(r) ==
    /\ pc[r] = "stream"
    /\ IF fallback[mine[r]] THEN Answer(r, "http")
       ELSE pc' = [pc EXCEPT ![r] = "relayed"] /\ UNCHANGED <<sock, chain, failure, served>>
    /\ UNCHANGED <<mine, delivered, pool, entry, state>>

Delivers(r) ==
    /\ pc[r] \in {"relayed", "returned"}
    /\ delivered' = [delivered EXCEPT ![r] = TRUE]
    /\ UNCHANGED <<pc, mine, sock, chain, failure, served, pool, entry, state>>

(* onComplete, then onTerminal.                                             *)
StreamCompletes(r) ==
    /\ Streaming(r)
    /\ Answer(r, "ws")
    /\ continuation' = [continuation EXCEPT ![mine[r]] = sock[r]]
    /\ Free(mine[r])
    /\ streamFailures' = [streamFailures EXCEPT ![mine[r]] = 0]
    /\ UNCHANGED <<mine, delivered, pool, fallback, socket, state>>

(* onTerminal of a response that did not complete.                          *)
StreamRefused(r) ==
    /\ Streaming(r)
    /\ Answer(r, "ws")
    /\ Free(mine[r])
    /\ invalidate(mine[r])
    /\ streamFailures' = [streamFailures EXCEPT ![mine[r]] = 0]
    /\ UNCHANGED <<mine, delivered, pool, fallback>>

(* Mutant: HTTP replaces a response the caller has begun to read.           *)
AfterInvalidDuplicating(r, oversized) ==
    IF pc[r] = "stream" THEN (IF fallback'[mine[r]] THEN "http" ELSE "ws")
    ELSE IF oversized THEN "http" ELSE "ws"

(* Who answers once the connection is invalid: before the grace ended, HTTP *)
(* when the entry fell back; a relayed response only when it was refused    *)
(* for its size and nothing of it was delivered.                            *)
AfterInvalid(r, oversized) ==
    IF \/ pc[r] = "stream" /\ fallback'[mine[r]]
       \/ pc[r] = "relayed" /\ oversized /\ ~delivered[r]
    THEN "http" ELSE "ws"

(* onConnectionInvalid: the socket was lost, the request was too large for  *)
(* it, or the connection limit was reached (onRetryableTerminal).           *)
StreamInvalid(r, kind) ==
    LET e == mine[r]
    IN  /\ Streaming(r)
        /\ Free(e)
        /\ IF kind # "lost" \/ fallback[e]
           THEN fallback' = [fallback EXCEPT ![e] = TRUE] /\ UNCHANGED streamFailures
           ELSE recordStreamFailure(e, FALSE)
        /\ invalidate(e)
        /\ Answer(r, AfterInvalid(r, kind = "oversized"))
        /\ UNCHANGED <<mine, delivered, pool>>

(* onAbort.  Before the first event the rejection is still to be caught, as *)
(* an abort or, when the host's reason is one that it retries, as a failure *)
(* (abortError); it may overtake the handling of a connection limit.        *)
StreamAborted(r, limit) ==
    LET e == mine[r]
    IN  /\ Streaming(r)
        /\ Free(e)
        /\ invalidate(e)
        /\ streamFailures' = [streamFailures EXCEPT ![e] = 0]
        /\ fallback' = [fallback EXCEPT ![e] = @ \/ limit]
        /\ IF pc[r] = "stream"
           THEN /\ pc' = [pc EXCEPT ![r] = "caught"]
                /\ \E what \in {"abort", "error"} : failure' = [failure EXCEPT ![r] = what]
                /\ UNCHANGED <<sock, chain, served>>
           ELSE Answer(r, "aborted")
        /\ UNCHANGED <<mine, delivered, pool>>

-----------------------------------------------------------------------------
(* The catch *)

(* Mutant: the failure is swallowed, and the caller gets no response.       *)
CatchAbortSilent(r) ==
    /\ Free(mine[r])
    /\ invalidate(mine[r])
    /\ streamFailures' = [streamFailures EXCEPT ![mine[r]] = 0]
    /\ UNCHANGED <<pc, served, sock, chain, failure, fallback>>

CatchAbort(r) ==
    /\ Free(mine[r])
    /\ invalidate(mine[r])
    /\ streamFailures' = [streamFailures EXCEPT ![mine[r]] = 0]
    /\ Answer(r, "aborted")
    /\ UNCHANGED fallback

CatchFailure(r) ==
    /\ Free(mine[r])
    /\ invalidate(mine[r])
    /\ recordStreamFailure(mine[r], failure[r] = "upgrade" /\ ~rawWebSocket)
    /\ Answer(r, IF fallback'[mine[r]] THEN "http" ELSE "error")

Catch(r) ==
    /\ pc[r] \in {"catching", "caught"}
    /\ \/ failure[r] = "abort" /\ CatchAbort(r)
       \/ failure[r] # "abort" /\ CatchFailure(r)
    /\ UNCHANGED <<mine, delivered, pool>>

-----------------------------------------------------------------------------
(* The pool and the server *)

(* prune: the entry was idle for idleTimeout.                               *)
Prune ==
    /\ pooled # None
    /\ ~busy[pooled]
    /\ invalidate(pooled)
    /\ pooled' = None
    /\ UNCHANGED <<request, made, removals, busy, fallback, streamFailures>>

(* remove(sessionID) and close(): busy or not.                              *)
RemoveEntry ==
    /\ pooled # None /\ removals < MaxRemovals
    /\ removals' = removals + 1
    /\ invalidate(pooled)
    /\ pooled' = None
    /\ UNCHANGED <<request, made, busy, fallback, streamFailures>>

(* External: the server, or the network, closes a socket.                   *)
ServerCloses(s) ==
    /\ state[s] \in {"open", "old"}
    /\ state' = [state EXCEPT ![s] = "closed"]
    /\ UNCHANGED <<request, pool, entry>>

(* The socket passes maxConnectionAge.                                      *)
Ages(s) ==
    /\ state[s] = "open"
    /\ state' = [state EXCEPT ![s] = "old"]
    /\ UNCHANGED <<request, pool, entry>>

-----------------------------------------------------------------------------
Init ==
    /\ pc = [r \in Requests |-> "idle"]
    /\ mine = [r \in Requests |-> None]
    /\ sock = [r \in Requests |-> None]
    /\ chain = [r \in Requests |-> None]
    /\ failure = [r \in Requests |-> "none"]
    /\ delivered = [r \in Requests |-> FALSE]
    /\ served = [r \in Requests |-> "none"]
    /\ pooled = None /\ made = 0 /\ removals = 0
    /\ busy = [e \in Entries |-> FALSE]
    /\ fallback = [e \in Entries |-> FALSE]
    /\ streamFailures = [e \in Entries |-> 0]
    /\ socket = [e \in Entries |-> None]
    /\ continuation = [e \in Entries |-> None]
    /\ state = [s \in Sockets |-> "unused"]

(* What a started request does by itself; its timers see to it that it does.*)
Proceeds(r) ==
    \/ ConnectsPrewarm(r) \/ ConnectsChained(r) \/ ConnectFails(r)
    \/ PrewarmStarts(r) \/ PrewarmCompletes(r) \/ PrewarmEnds(r) \/ Ready(r)
    \/ StreamStarts(r) \/ FirstEvent(r) \/ GraceEnds(r) \/ Delivers(r)
    \/ StreamCompletes(r) \/ StreamRefused(r)
    \/ (\E kind \in {"lost", "oversized", "limit"} : StreamInvalid(r, kind))
    \/ (\E limit \in BOOLEAN : StreamAborted(r, limit))
    \/ Catch(r)

Next ==
    \/ \E r \in Requests : Begin(r) \/ Proceeds(r)
    \/ Prune \/ RemoveEntry
    \/ \E s \in Sockets : ServerCloses(s) \/ Ages(s)

Spec == Init /\ [][Next]_vars

(* Dials time out, an idle stream is ended and microtasks run.              *)
FairSpec == Spec /\ \A r \in Requests : WF_vars(Proceeds(r))

-----------------------------------------------------------------------------
(* Properties *)

Owns(r) == pc[r] \in {"socket", "prewarmDump", "prewarm", "ready", "mainDump", "stream",
                      "relayed", "returned", "catching"}

Places == {"idle", "socket", "prewarmDump", "prewarm", "ready", "mainDump", "stream",
           "relayed", "returned", "catching", "caught", "done"}

(* Every variable keeps its type.                                           *)
TypeOK ==
    /\ pc \in [Requests -> Places]
    /\ mine \in [Requests -> Entries \cup {None}]
    /\ sock \in [Requests -> Sockets \cup {None}]
    /\ chain \in [Requests -> Sockets \cup {None}]
    /\ failure \in [Requests -> {"none", "abort", "upgrade", "timeout", "error"}]
    /\ delivered \in [Requests -> BOOLEAN]
    /\ served \in [Requests -> {"none", "http", "ws", "error", "aborted"}]
    /\ pooled \in Entries \cup {None} /\ made \in 0..MaxEntries /\ removals \in 0..MaxRemovals
    /\ busy \in [Entries -> BOOLEAN]
    /\ fallback \in [Entries -> BOOLEAN]
    /\ streamFailures \in [Entries -> Nat]
    /\ socket \in [Entries -> Sockets \cup {None}]
    /\ continuation \in [Entries -> Sockets \cup {None}]
    /\ state \in [Sockets -> {"unused", "open", "old", "closed"}]

(* An entry is busy exactly while one request holds it: it never stays busy *)
(* for nobody, and two requests never share it.                             *)
BusyForOne ==
    \A e \in Entries :
        LET holders == {r \in Requests : Owns(r) /\ mine[r] = e}
        IN  IF busy[e] THEN Cardinality(holders) = 1 ELSE holders = {}

(* No two responses are streamed over one socket at the same time.          *)
OneStreamPerSocket ==
    \A q, r \in Requests :
        (Streaming(q) \/ pc[q] = "prewarm") /\ (Streaming(r) \/ pc[r] = "prewarm")
            /\ sock[q] = sock[r] => q = r

(* A request names a previous response only on the socket that produced it. *)
ChainOnItsSocket == \A r \in Requests : Streaming(r) => chain[r] \in {None, sock[r]}

(* A socket serves the one request that holds its entry, and only chains of *)
(* its own (acquire, release and invalidate of an entry).                   *)
SocketsAreOwned == BusyForOne /\ OneStreamPerSocket /\ ChainOnItsSocket

(* A caller that has read part of the WebSocket response is never given the *)
(* response over HTTP as well.                                              *)
NoSecondResponse == \A r \in Requests : served[r] = "http" => ~delivered[r]

(* Every request is answered.                                               *)
Answered == \A r \in Requests : pc[r] # "idle" ~> pc[r] = "done"
=============================================================================
