----------------------------- MODULE PoolRequest -----------------------------
(* The requests of one session over the account pool, as OpenCode            *)
(* (packages/opencode/src/core/pool-request.ts) and Pi                       *)
(* (packages/pi/src/pool-request.ts, the loop in runtime.ts) serve them:     *)
(* reading the accounts, the ordered and the sticky path, a send, its        *)
(* answer, the hold of a limited account whose prompt cache is warm, and     *)
(* the session's pin. Requests of the session overlap, and each account's    *)
(* condition changes while a request waits for an answer.                    *)
EXTENDS PoolRouting

CONSTANTS
    Requests,       \* the requests of the session
    Hosts,          \* of {"opencode", "pi"}
    Modes,          \* routing modes
    Starts,         \* the conditions an account may start in
    Turns,          \* the conditions an account may turn to by itself
    Resets,         \* how far ahead a provider's limit resets
    CacheTtl,       \* how long a session's prompt cache stays warm
    MaxWait,        \* the longest same-account wait (maxSameAccountWait)
    MaxNow,         \* the last clock value
    MaxChanges      \* how many times an account changes by itself

ASSUME BoundsAssumption ==
    /\ Resets \subseteq Nat \ {0} /\ Starts \cup Turns \subseteq Conditions
    /\ CacheTtl \in Nat /\ MaxWait \in Nat /\ MaxNow \in Nat /\ MaxChanges \in Nat

VARIABLES
    host, mode,     \* of this behaviour
    now,
    account,        \* account -> its condition and until when it holds
    pin,            \* the session's pin, None without one
    current,        \* the account the session last dispatched on
    warm,           \* the account whose prompt cache is warm, and until when
    pending,        \* OpenCode's pending hold of the session
    req,            \* request -> its progress
    changes         \* how often an account changed by itself
vars == <<host, mode, now, account, pin, current, warm, pending, req, changes>>

NoHold == [on |-> None, target |-> 0]
Idle == [pc |-> "idle", path |-> "ordered", on |-> None, rest |-> <<>>,
         last |-> None, replayable |-> TRUE, suppressHold |-> FALSE,
         waited |-> FALSE, target |-> 0, sent |-> <<>>, view |-> <<>>,
         failed |-> FALSE, answer |-> None]

(* What a request reads of an account: a limit or mark past its time no      *)
(* longer counts.                                                            *)
Timed == {"spent", "credits", "budget", "marked", "backoff"}
View == [r \in Accounts |->
           IF account[r].is \in Timed /\ account[r].until <= now THEN "free"
           ELSE account[r].is]

(* Finished: "served" with an account's answer, "refused" locally, "held" or  *)
(* with an "error".                                                          *)
Done(q, answer) == [Idle EXCEPT !.pc = "done", !.answer = answer, !.failed = q.failed]

(* Ready to send on account r of the path, with the accounts left to try.    *)
Ready(q, path, r, rest) ==
    [q EXCEPT !.pc = "ready", !.path = path, !.on = r, !.rest = rest]

-----------------------------------------------------------------------------
(* Routing: each reads the view and plans the first send at once.            *)

(* The accounts a terminal answer names: those a reset or a floor stops.     *)
terminalFacts(v, R) == {r \in R : v[r] \in {"spent", "credits", "killed"}}

(* Pi waits itself for account r until the target.                           *)
policyResult(q, r, target) == [q EXCEPT !.pc = "waiting", !.on = r, !.target = target]

(* Pi, once per request, may wait for one of the limited accounts of a       *)
(* request nothing can serve: until its reset, or as long as a wait may be.  *)
TerminalWaits(q, limited) ==
    {policyResult(q, r, t) :
        r \in IF host = "pi" /\ ~q.waited THEN limited ELSE {},
        t \in {n \in now + 1 .. now + MaxWait : n <= MaxNow}}

serveOrdered(q, v, R) ==
    LET plan == planOrdered(v, R, mode, q.replayable)
        viewed == [q EXCEPT !.view = v]
    IN IF plan # <<>> THEN {Ready(viewed, "ordered", Head(plan), Tail(plan))}
       ELSE {Done(viewed, "refused")} \cup TerminalWaits(viewed, terminalFacts(v, R))

(* The session, pinned to p, is placed again with account r left out.        *)
migrate(v, R, p, r) == placeStickyPin(v, R, p, {r})

(* The sticky path: [q |-> the request, pin |-> the session's pin after it]. *)
serveSticky(q, v, R) ==
    LET viewed == [q EXCEPT !.view = v]
        ordered(p) == {[q |-> x, pin |-> p] : x \in serveOrdered(q, v, R)}
        send(r, p) == {[q |-> Ready(viewed, "sticky", r, <<>>), pin |-> p]}
        moved(p) == migrate(v, R, p, p)
        routed(p) ==
          LET kind == routePinnedRow(v, R, p)
          IN CASE kind \in {"serve", "last-path"} -> send(p, p)
               [] kind = "none" -> ordered(p)
               [] kind = "move" ->
                    IF moved(p) # {} THEN UNION {send(r, r) : r \in moved(p)}
                    ELSE IF v[p] = "killed" THEN ordered(p) ELSE send(p, p)
               [] kind = "detour" ->
                    IF moved(p) = {} THEN ordered(p)
                    ELSE UNION {send(r, p) : r \in moved(p)}
        placed == placeStickyPin(v, R, pin, {})
    IN IF placed = {} THEN ordered(pin) ELSE UNION {routed(p) : p \in placed}

Routes(q, v, R) ==
    IF mode = "sticky-balanced" /\ q.replayable THEN serveSticky(q, v, R)
    ELSE {[q |-> x, pin |-> pin] : x \in serveOrdered(q, v, R)}

Route(i, q, R) ==
    \E s \in Routes(q, View, R) : req' = [req EXCEPT ![i] = s.q] /\ pin' = s.pin

-----------------------------------------------------------------------------
(* Holds.                                                                    *)

(* The accounts the limit policy may keep a session on (a spent one is).     *)
policyCandidates(v) ==
    {r \in Accounts : v[r] \notin {"killed", "budget", "unknown", "backoff", "marked"}}

(* In Pi an account without a reading is one of them: it is not ready.       *)
piCandidates(v) == {r \in Accounts : v[r] \notin {"killed", "budget", "backoff"}}

(* A limited account may be waited for when its cache outlives the wait.     *)
openAiHoldFacts(v, r, target) ==
    /\ r \in IF host = "pi" THEN piCandidates(v) ELSE policyCandidates(v)
    /\ warm.on = r /\ now <= warm.until
    /\ target <= warm.until /\ target <= now + MaxWait

(* A mutant: the discarded hold is not remembered.                           *)
HoldsAgain(q, r, until) ==
    /\ current = r
    /\ q.replayable
    /\ openAiHoldFacts([View EXCEPT ![r] = "spent"], r, until)

Holds(q, r, until) ==
    /\ ~q.suppressHold /\ current = r
    /\ q.replayable
    /\ openAiHoldFacts([View EXCEPT ![r] = "spent"], r, until)

(* Whether the pending hold still stands for this request.                   *)
Stands(q, sameModel) ==
    /\ q.replayable /\ sameModel /\ current = pending.on
    /\ openAiHoldFacts(View, pending.on, pending.target)

consumeHold(i, q, sameModel) ==
    LET v == View
        held == pending.on
    IN CASE pending = NoHold -> Route(i, q, Accounts) /\ UNCHANGED pending
         [] pending # NoHold /\ Stands(q, sameModel) /\ now < pending.target ->
              /\ req' = [req EXCEPT ![i] = Done([q EXCEPT !.view = v], "held")]
              /\ UNCHANGED <<pin, pending>>
         [] pending # NoHold /\ Stands(q, sameModel) /\ now >= pending.target
              /\ v[held] \notin {"spent", "credits"} ->
              /\ pending' = NoHold
              /\ req' = [req EXCEPT ![i] =
                           Ready([q EXCEPT !.view = v, !.suppressHold = TRUE], "held", held, <<>>)]
              /\ UNCHANGED pin
         [] OTHER -> /\ pending' = NoHold
                     /\ Route(i, [q EXCEPT !.suppressHold = TRUE], Accounts)

-----------------------------------------------------------------------------
(* A session without a request yet, or one an account has served.            *)
Init ==
    /\ host \in Hosts /\ mode \in Modes
    /\ now = 0
    /\ account \in [Accounts -> {[is |-> c, until |-> IF c \in Timed THEN MaxNow ELSE 0] :
                                   c \in IF host = "pi" THEN Starts \ {"marked"} ELSE Starts}]
    /\ \E r \in Accounts \cup {None} :
         /\ pin = (IF mode = "sticky-balanced" THEN r ELSE None) /\ current = r
         /\ warm = [on |-> r, until |-> IF r = None THEN 0 ELSE CacheTtl]
    /\ pending = NoHold
    /\ req = [i \in Requests |-> Idle]
    /\ changes = 0

(* A request of the session arrives in OpenCode and is routed; requests of a *)
(* session overlap (a title, a summary).                                     *)
Start(i) ==
    /\ host = "opencode" /\ req[i].pc = "idle"
    /\ \E replayable, sameModel \in BOOLEAN :
         consumeHold(i, [Idle EXCEPT !.replayable = replayable], sameModel)
    /\ UNCHANGED <<host, mode, now, account, current, warm, changes>>

(* Pi sends one request of a session at a time.                              *)
PiStart(i) ==
    /\ host = "pi" /\ req[i].pc = "idle"
    /\ \A j \in Requests : req[j].pc \in {"idle", "done"}
    /\ Route(i, Idle, Accounts)
    /\ UNCHANGED <<host, mode, now, account, current, warm, pending, changes>>

(* The account has a token, and the request goes out.                        *)
Send(i) ==
    /\ req[i].pc = "ready"
    /\ req' = [req EXCEPT ![i].pc = "sending", ![i].sent = Append(@, req[i].on)]
    /\ current' = req[i].on
    /\ UNCHANGED <<host, mode, now, account, pin, warm, pending, changes>>

(* The rest of a wake that cannot use the held account: an account that is   *)
(* ready (another one before the held one), or the end.                      *)
AfterWait(i, q) ==
    LET v == View
        ready == Free(v, Accounts)
    IN IF ready = {} /\ terminalFacts(v, Accounts) # {}
       THEN req' = [req EXCEPT ![i] = Done(q, "refused")] /\ UNCHANGED pin
       ELSE Route(i, q, IF ready \ {q.on} # {} THEN Accounts \ {q.on} ELSE Accounts)

(* The account has nothing to send with: no usable token, or the vault       *)
(* refused it. Nothing reached the provider.                                 *)
Unsent(i) ==
    LET q == req[i] IN
    /\ q.pc = "ready"
    /\ \/ /\ q.path = "ordered"
          /\ req' = [req EXCEPT ![i] =
                       IF q.rest # <<>> THEN Ready(q, "ordered", Head(q.rest), Tail(q.rest))
                       ELSE Done(q, IF q.last = None THEN "refused" ELSE "served")]
          /\ UNCHANGED pin
       \/ /\ q.path = "sticky"
          /\ req' \in {[req EXCEPT ![i] = x] : x \in serveOrdered(q, q.view, Accounts)}
          /\ UNCHANGED pin
       \/ /\ q.path = "moved"
          /\ req' = [req EXCEPT ![i] = Done(q, "served")]
          /\ UNCHANGED pin
       \/ /\ q.path = "held"
          /\ IF host = "pi" THEN AfterWait(i, q) ELSE Route(i, q, Accounts)
    /\ UNCHANGED <<host, mode, now, account, current, warm, pending, changes>>

(* Where the request goes after account r refused it: the next account of    *)
(* the order, or the session moves, once, judged on what is known now.       *)
nextAccount(q, v, r, outcome) ==
    CASE q.path = "ordered" /\ q.rest # <<>> ->
           {[q |-> Ready(q, "ordered", Head(q.rest), Tail(q.rest)), pin |-> pin]}
      [] q.path = "sticky" /\ stickyBreak(v, r, outcome) ->
           {[q |-> [Ready(q, "moved", x, <<>>) EXCEPT !.view = v], pin |-> x] :
              x \in migrate(v, Accounts, pin, r)}
      [] OTHER -> {}

Refused(r, outcome) == [View EXCEPT ![r] = IF outcome = "limit" THEN "spent" ELSE @]

(* After an answer with one of the fallback statuses, in OpenCode: the hold, *)
(* the next account, or the answer itself.                                   *)
afterLimit(i, q, r, outcome) ==
    LET answered == [q EXCEPT !.last = r]
        next == nextAccount(answered, Refused(r, outcome), r, outcome)
        until == account'[r].until
    IN IF outcome = "limit" /\ q.path \in {"ordered", "sticky"} /\ Holds(q, r, until)
       THEN /\ pending' = [on |-> r, target |-> until]
            /\ req' = [req EXCEPT ![i] = Done(answered, "held")]
            /\ UNCHANGED pin
       ELSE /\ \/ \E x \in next : req' = [req EXCEPT ![i] = x.q] /\ pin' = x.pin
               \/ /\ next = {}
                  /\ req' = [req EXCEPT ![i] = Done(answered, "served")]
                  /\ UNCHANGED pin
            /\ UNCHANGED pending

(* The same in Pi, which waits itself: on the held account, or, when nothing *)
(* is left to try, for a terminal wait.                                      *)
piAfterLimit(i, q, r, outcome) ==
    LET v == Refused(r, outcome)
        answered == [q EXCEPT !.last = r]
        next == nextAccount(answered, v, r, outcome)
        until == account'[r].until
        limit == outcome = "limit" /\ ~q.waited /\ q.path \in {"ordered", "sticky"}
    IN /\ IF limit /\ openAiHoldFacts(v, r, until)
          THEN /\ req' = [req EXCEPT ![i] = policyResult(answered, r, until)]
               /\ UNCHANGED pin
          ELSE \/ \E x \in next : req' = [req EXCEPT ![i] = x.q] /\ pin' = x.pin
               \/ /\ next = {}
                  /\ \E x \in {Done(answered, "served")}
                           \cup (IF limit THEN TerminalWaits(answered, {r}) ELSE {}) :
                        req' = [req EXCEPT ![i] = x]
                  /\ UNCHANGED pin
       /\ UNCHANGED pending

(* The provider answers, and what it says of the account's quota is recorded *)
(* with it: a confirmed limit, an unconfirmed 429, or a 401 or 403.          *)
Limited(i) ==
    LET q == req[i]
        r == q.on
        after(outcome) == IF host = "pi" THEN piAfterLimit(i, q, r, outcome)
                          ELSE afterLimit(i, q, r, outcome)
    IN
    /\ q.pc = "sending"
    /\ \/ \E ahead \in Resets :
            /\ account' = [account EXCEPT ![r] = [is |-> "spent", until |-> now + ahead]]
            /\ after("limit")
       \/ \E outcome \in {"throttled", "auth"} : UNCHANGED account /\ after(outcome)
    /\ UNCHANGED <<host, mode, now, current, warm, changes>>

(* Any other answer is the request's. A completed one leaves the prompt      *)
(* cache of its account warm while the session is still on that account.     *)
Answer(i) ==
    LET q == req[i] IN
    /\ q.pc = "sending"
    /\ req' = [req EXCEPT ![i] = Done(q, "served")]
    /\ \/ current = q.on /\ warm' = [on |-> q.on, until |-> now + CacheTtl]
       \/ UNCHANGED warm
    /\ UNCHANGED <<host, mode, now, account, pin, current, pending, changes>>

(* A mutant: a failed send is repeated on the next account.                  *)
FailOver(i) ==
    LET q == [req[i] EXCEPT !.failed = TRUE] IN
    /\ q.pc = "sending"
    /\ req' = [req EXCEPT ![i] = IF q.rest # <<>>
                                 THEN Ready(q, "ordered", Head(q.rest), Tail(q.rest))
                                 ELSE Done(q, "error")]
    /\ UNCHANGED <<host, mode, now, account, pin, current, warm, pending, changes>>

(* The send fails after it may have reached the provider: an earlier answer  *)
(* of the request stands, and no other account is tried.                     *)
Fail(i) ==
    LET q == req[i]
        stands == q.path = "ordered" /\ q.last # None /\ mode # "fallback-first"
    IN
    /\ q.pc = "sending"
    /\ req' = [req EXCEPT ![i] = Done([q EXCEPT !.failed = TRUE],
                                      IF stands THEN "served" ELSE "error")]
    /\ UNCHANGED <<host, mode, now, account, pin, current, warm, pending, changes>>

(* Pi's wait is over (at most one per request): the held account again if    *)
(* its limit is past and its cache warm, else whatever can serve now.        *)
Wake(i) ==
    LET q == [req[i] EXCEPT !.waited = TRUE]
        v == View
        retained == /\ openAiHoldFacts(v, q.on, q.target)
                    /\ v[q.on] \notin {"spent", "credits", "unknown"} /\ q.last = q.on
    IN
    /\ q.pc = "waiting" /\ now >= q.target
    /\ IF retained
       THEN /\ req' = [req EXCEPT ![i] = Ready([q EXCEPT !.view = v], "held", q.on, <<>>)]
            /\ UNCHANGED pin
       ELSE AfterWait(i, q)
    /\ UNCHANGED <<host, mode, now, account, current, warm, pending, changes>>

(* The user gives up while Pi waits.                                         *)
Escape(i) ==
    /\ req[i].pc = "waiting"
    /\ req' = [req EXCEPT ![i] = Done(@, "error")]
    /\ UNCHANGED <<host, mode, now, account, pin, current, warm, pending, changes>>

(* A reading, a mark, a refresh failure or the killswitch changes an         *)
(* account, or time passes.                                                  *)
Change(r) ==
    /\ changes < MaxChanges
    /\ changes' = changes + 1
    /\ \E c \in (IF host = "pi" THEN Turns \ {"marked"} ELSE Turns) \ {account[r].is} :
         account' = [account EXCEPT ![r] = [is |-> c, until |-> IF c \in Timed THEN now + 1 ELSE 0]]
    /\ UNCHANGED <<host, mode, now, pin, current, warm, pending, req>>

Tick ==
    /\ now < MaxNow
    /\ now' = now + 1
    /\ UNCHANGED <<host, mode, account, pin, current, warm, pending, req, changes>>

Next ==
    \/ \E i \in Requests : Start(i) \/ PiStart(i) \/ Send(i) \/ Unsent(i) \/ Limited(i) \/ Answer(i) \/ Fail(i)
                           \/ Wake(i) \/ Escape(i)
    \/ \E r \in Accounts : Change(r)
    \/ Tick

Spec == Init /\ [][Next]_vars

-----------------------------------------------------------------------------
(* A request is sent on an account once: only an account that was waited     *)
(* for is asked again, and a request that cannot be replayed is sent once    *)
(* (the unsent and tried accounts, the pin ledger's exclusions and the       *)
(* no-replay gate, over the order planned before the first await).           *)
OneTryPerAccount ==
    \A i \in Requests :
        LET q == req[i] IN
        /\ ~q.replayable => Len(q.sent) <= 1
        /\ \A j, k \in 1 .. Len(q.sent) :
             j < k /\ q.sent[j] = q.sent[k] => host = "pi" /\ q.waited

(* A failed send may already have been answered and billed: nothing of that  *)
(* request is sent afterwards, on any account and on any path.               *)
FailureIsFinal ==
    [][\A i \in Requests : req[i].failed => req'[i].sent = req[i].sent]_vars

(* Whatever an account's state becomes while the request is under way, it    *)
(* is sent only to accounts that its own view let serve: never one below     *)
(* its killswitch floor, marked, backed off or without a reading, and on     *)
(* prepaid credits or into a known limit only when that view had no free     *)
(* quota left. The account a session is moved to after an answer is left     *)
(* out: after a detour the ledger hands back the pinned account unjudged.    *)
SpendsAsViewed ==
    \A i \in Requests :
        LET q == req[i]
            tried == {q.sent[k] : k \in 1 .. Len(q.sent)}
        IN
        q.pc \in {"ready", "sending"} /\ q.path # "moved" =>
            /\ q.view[q.on] \notin {"killed", "unknown", "marked", "backoff"}
            /\ q.replayable /\ ~q.waited /\ q.view[q.on] # "free" =>
                 \A r \in Accounts : q.view[r] = "free" => r \in tried

(* A request spends no more than its own view allows, and nowhere twice      *)
(* (nextAccount, planOrdered, the exclusions of a migration).                *)
SpendsInBounds == OneTryPerAccount /\ SpendsAsViewed

(* A session leaves its account only on evidence against it: an answer that  *)
(* refused it, a condition that keeps it from serving now, or a wait that    *)
(* was spent on it. Waiting for a reading never moves it.                    *)
PinMovesOnEvidence ==
    [][pin # None /\ pin' # pin =>
          \/ View[pin] \notin {"free", "unknown"}
          \/ account'[pin].is = "spent"
          \/ \E i \in Requests :
               \/ req[i].pc = "sending" /\ req'[i].path = "moved"
               \/ req'[i].waited /\ req[i].on = pin]_vars

(* A hold is not followed by another: the retry of a held request is sent    *)
(* or refused, but creates no new hold, and Pi waits once per request.       *)
OneHoldPerRequest ==
    [][\A i \in Requests :
          (req[i].suppressHold \/ req[i].waited) /\ req'[i] # req[i] =>
             /\ pending' \in {pending, NoHold}
             /\ req'[i].pc # "waiting"]_vars
=============================================================================
