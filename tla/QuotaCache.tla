------------------------------ MODULE QuotaCache ------------------------------
(***************************************************************************)
(* The quota readings one OpenCode process routes by on an install that    *)
(* has not migrated to the account pool: the push-only QuotaManager, the   *)
(* shared sidebar file, the background poll, and the credentials the       *)
(* readings are about, which refreshes, new logins and the move of the     *)
(* main account into the pool replace underneath them.                     *)
(*                                                                         *)
(* A credential is the login it belongs to and a token number that grows   *)
(* with every rotation; a reading is a level, its place in time, the login *)
(* it is about and the token that brought it.                              *)
(***************************************************************************)
EXTENDS Integers, SequencesExt

CONSTANTS
    Fallbacks,   \* the ids of the fallback rows
    Configs,     \* the configurations: [mode, killswitch, refused]
    MaxEvents    \* bound: what happens around the request

ASSUME FallbacksAssumption == "main" \notin Fallbacks
ASSUME ConfigsAssumption ==
    \A c \in Configs : /\ c.mode \in {"main-first", "fallback-first", "sticky-balanced"}
                       /\ c.killswitch \in BOOLEAN
                       /\ c.refused \subseteq {"low", "out"}
ASSUME EventsAssumption == MaxEvents \in Nat

\* The rows of the store; row "main" exists once the main account was written there.
Rows == {"main"} \cup Fallbacks

VARIABLES
    config,    \* mode, killswitch, and the levels quota.minimumRemaining refuses
    slot,      \* the credential in OpenCode's slot, or Absent: the pool's placeholder
    cred,      \* the credential of each row, or Absent
    prev,      \* the credential before it: streams may still be carrying it
    expired,   \* tokens of the account up to this one need a refresh
    stored,    \* mainAccountId in the configuration
    current,   \* currentMainIdentity, 0 when unknown
    cache,     \* the QuotaManager's entry per account, or Absent
    mark,      \* accounts under a mid-stream rate-limit mark
    file,      \* the sidebar file's row per account, or Absent
    saved,     \* account.quota an older version persisted in the row, or Absent
    clock,     \* readings taken so far
    stale,     \* readings up to here are older than QUOTA_STALENESS_MS
    last,      \* history: the last reading recorded from a response, frame or poll
    poll,      \* the poll under way
    events     \* what has happened around the request, against MaxEvents

login == <<slot, cred, prev, expired, stored>>
quota == <<cache, mark, last, clock>>

Absent == <<>>
Levels == {"ok", "low", "out"}

(***************************************************************************)
(* The QuotaManager                                                        *)
(***************************************************************************)
\* quotaLooksHealthy: no window at 100 %
Healthy(level) == level # "out"

\* The reading is bound to its login, and a mark is cleared by positive evidence or by
\* another login's reading.
Stored(x, e) ==
    /\ cache' = [cache EXCEPT ![x] = e]
    /\ mark' = IF Healthy(e.level) \/ (cache[x] # Absent /\ cache[x].who # e.who)
               THEN mark \ {x} ELSE mark

\* peekMainForPolicy, peekFallbackForPolicy: a refresh of the token keeps the reading,
\* another login does not.
peekForPolicy(x, c) ==
    IF cache[x] # Absent /\ cache[x].who # c.who THEN Absent ELSE cache[x]

\* getFallback with a token drops an entry another token brought.
getFallback(x, tok) ==
    IF cache[x] # Absent /\ cache[x].tok # tok THEN Absent ELSE cache[x]

\* Mutant: the persisted reading is taken whatever is cached.
SeedsAlways(x, c) == saved[x] # Absent

\* An entry at least as new is kept.
Seeds(x, c) ==
    /\ saved[x] # Absent
    /\ \/ getFallback(x, c.tok) = Absent
       \/ getFallback(x, c.tok).at < saved[x].at

\* seedFallbackQuota, with what the invalidating read before it drops
seedFallbackQuota(x, c) ==
    IF Seeds(x, c)
    THEN Stored(x, [level |-> saved[x].level, at |-> saved[x].at, who |-> c.who, tok |-> c.tok])
    ELSE /\ cache' = [cache EXCEPT ![x] = getFallback(x, c.tok)]
         /\ UNCHANGED mark

\* quotaPolicyAccount: the cached reading, or the persisted one
PolicyLevel(x, c) ==
    CASE Seeds(x, c)                     -> saved[x].level
      [] getFallback(x, c.tok) # Absent    -> getFallback(x, c.tok).level
      [] saved[x] # Absent                 -> saved[x].level
      [] OTHER                           -> "ok"

quotaSnapshotPassesPolicy(level) == level \notin config.refused

\* An unknown quota passes: failClosedOnUnknownQuota is off.
killswitchPassesPolicy(reading) ==
    config.killswitch => reading = Absent \/ reading.level = "ok"

\* A push for the main account is dropped when its login is known not to be the
\* request path's current one.
StaleMainFrame(x, c) == x = "main" /\ current # 0 /\ c.who # current

Reading(level, c) == [level |-> level, at |-> clock + 1, who |-> c.who, tok |-> c.tok]

\* pushQuota: a reading of credential c for account x
pushQuota(x, c, level) ==
    /\ clock' = clock + 1
    /\ IF StaleMainFrame(x, c) THEN UNCHANGED <<cache, mark, last>>
       ELSE /\ Stored(x, Reading(level, c))
            /\ last' = [last EXCEPT ![x] = Reading(level, c)]

\* freshestQuotaSnapshot: the file's row, when it asserts the caller's login and is newer
Freshest(x, c, row) ==
    LET memory == peekForPolicy(x, c)
    IN  IF /\ row # Absent /\ row.who = c.who
           /\ memory = Absent \/ row.at > memory.at
        THEN row ELSE memory

\* admissionQuotaDecision
Exhausted(reading) == reading # Absent /\ reading.level = "out"

(***************************************************************************)
(* Credentials                                                             *)
(***************************************************************************)
\* The main account's credential, wherever it lives
MainCred == IF slot # Absent THEN slot ELSE cred["main"]

Cred(x) == IF x = "main" THEN MainCred ELSE cred[x]

Due(x, c) == c.tok <= expired[x]

Next1(c) == [c EXCEPT !.tok = @ + 1]

\* A refresh under the row's lock: a credential newer than the caller's is adopted,
\* otherwise the token is rotated.
RowRefreshed(x, c) == IF cred[x] # c THEN cred[x] ELSE Next1(c)

refreshAccountNow(x, c) ==
    /\ cred[x] # Absent
    /\ cred' = [cred EXCEPT ![x] = RowRefreshed(x, c)]
    /\ prev' = IF cred[x] = c THEN [prev EXCEPT ![x] = c] ELSE prev
    /\ UNCHANGED <<slot, expired, stored>>

SlotRefreshed(c) == IF slot # c THEN slot ELSE Next1(c)

refreshMainWithLease(c) ==
    /\ slot # Absent
    /\ slot' = SlotRefreshed(c)
    /\ prev' = IF slot = c THEN [prev EXCEPT !["main"] = c] ELSE prev
    /\ UNCHANGED <<cred, expired, stored>>

isShieldedMainRow(x, c, mainAccountId) == x = "main" /\ c.who = mainAccountId

(***************************************************************************)
(* The poll: refreshAllQuota, one account at a time                        *)
(***************************************************************************)
NotPolling == [at |-> "idle"]

\* The file, then the store, are read at the start of the pass.
StartPoll(x) ==
    /\ poll.at = "idle"
    /\ x = "main" \/ cred[x] # Absent
    /\ poll' = [at |-> "gate", acct |-> x, shared |-> file[x], main |-> stored, row |-> cred[x]]

\* Main is polled under the login the store names, which may lag behind the slot's.
PollId == IF poll.acct = "main" /\ slot # Absent THEN poll.main ELSE poll.row.who

Fresh(reading) == reading # Absent /\ reading.at > stale /\ reading.who = PollId

SkipsPoll == Fresh(cache[poll.acct]) \/ Fresh(poll.shared)

EndPoll == poll' = NotPolling

\* No row to poll, a fresh reading, a back-off, or a failure before the request
PollSkipped ==
    /\ poll.at = "gate"
    /\ EndPoll
    /\ UNCHANGED <<login, quota>>

\* The credential the poll asks with: the slot's or the row's
PollCred == IF poll.acct = "main" /\ slot # Absent THEN slot ELSE poll.row

PollAsks ==
    /\ poll.at = "gate" /\ PollCred # Absent /\ ~SkipsPoll
    /\ ~Due(poll.acct, PollCred)
    /\ poll' = [at |-> "wait", acct |-> poll.acct, id |-> PollId, cred |-> PollCred, forced |-> FALSE]
    /\ UNCHANGED <<login, quota>>

PollRefreshes ==
    /\ poll.at = "gate" /\ PollCred # Absent /\ ~SkipsPoll
    /\ Due(poll.acct, PollCred)
    /\ LET main == poll.acct = "main" /\ slot # Absent
           asked(c) == [at |-> "wait", acct |-> poll.acct,
                        id |-> IF main THEN PollId ELSE c.who, cred |-> c, forced |-> FALSE]
       IN  \/ main /\ refreshMainWithLease(slot) /\ poll' = asked(SlotRefreshed(slot))
           \/ ~main /\ refreshAccountNow(poll.acct, poll.row)
                    /\ poll' = asked(RowRefreshed(poll.acct, poll.row))
    /\ UNCHANGED quota

\* The provider answers for the account the request names, or not at all.
PollAnswered(level) ==
    /\ poll.at = "wait" /\ poll.id = poll.cred.who
    /\ clock' = clock + 1
    /\ Stored(poll.acct, Reading(level, poll.cred))
    /\ last' = [last EXCEPT ![poll.acct] = Reading(level, poll.cred)]
    /\ EndPoll
    /\ UNCHANGED login

\* A rejected token of a row is refreshed by force, once.
PollRejected ==
    /\ poll.at = "wait" /\ ~poll.forced
    /\ poll.acct # "main" \/ slot = Absent
    /\ refreshAccountNow(poll.acct, poll.cred)
    /\ poll' = [poll EXCEPT !.cred = RowRefreshed(poll.acct, poll.cred),
                            !.id = RowRefreshed(poll.acct, poll.cred).who, !.forced = TRUE]
    /\ UNCHANGED quota

PollFails ==
    /\ poll.at = "wait"
    /\ EndPoll
    /\ UNCHANGED <<login, quota>>

PollGoesOn ==
    \/ PollSkipped \/ PollAsks \/ PollRefreshes
    \/ \E l \in Levels : PollAnswered(l)
    \/ PollRejected \/ PollFails

(***************************************************************************)
(* Other requests, other processes, and time                               *)
(***************************************************************************)
\* A frame of a response still streaming, on this credential or the one before.
Frame(x, c, level) ==
    /\ c # Absent
    /\ pushQuota(x, c, level)
    /\ UNCHANGED login

\* response.failed with rate_limit_reached_type; a later mark only extends the earlier.
markRateLimited(x) ==
    /\ x \notin mark
    /\ mark' = mark \cup {x}

MarkExpires(x) == x \in mark /\ mark' = mark \ {x}

TokenExpires(x) ==
    /\ Cred(x) # Absent /\ expired[x] < Cred(x).tok
    /\ expired' = [expired EXCEPT ![x] = Cred(x).tok]

\* A new login in the slot or on a row, whose record then starts without a reading: not
\* in the middle of the move, which the transfer itself reconciles.
Relogin(x) ==
    /\ x = "main" => slot = Absent \/ cred["main"] = Absent
    /\ Cred(x).who = 1
    /\ LET new == [who |-> 2, tok |-> Cred(x).tok + 1]
       IN  IF x = "main" /\ slot # Absent THEN slot' = new /\ UNCHANGED cred
           ELSE cred' = [cred EXCEPT ![x] = new] /\ UNCHANGED slot
    /\ prev' = [prev EXCEPT ![x] = Cred(x)]
    /\ saved' = [saved EXCEPT ![x] = Absent]

\* The loader runs again here or elsewhere and names the live login.
LoaderRuns ==
    /\ slot # Absent /\ stored # slot.who
    /\ stored' = slot.who

\* The move into the pool: the row first, then the placeholder.
WriteMainRow ==
    /\ slot # Absent /\ cred["main"] = Absent
    /\ cred' = [cred EXCEPT !["main"] = slot] /\ stored' = slot.who
    /\ UNCHANGED <<slot, prev, expired>>

WritePlaceholder ==
    /\ slot # Absent /\ cred["main"] # Absent /\ cred["main"].who = slot.who
    /\ slot' = Absent /\ cred' = [cred EXCEPT !["main"] = slot]
    /\ UNCHANGED <<prev, expired, stored>>

\* writeMachineSidebarState: main's row names the login the push was of or, without
\* one, the store's; a fallback's follows the entry.
buildSidebarMachineState(x) ==
    /\ cache[x] # Absent
    /\ \E who \in IF x = "main" THEN {cache[x].who, stored} ELSE {cache[x].who} :
          file' = [file EXCEPT ![x] = [level |-> cache[x].level, at |-> cache[x].at, who |-> who]]

\* Another process records its own reading of the login.
OtherProcess(x, level) ==
    /\ Cred(x) # Absent
    /\ clock' = clock + 1
    /\ file' = [file EXCEPT ![x] = [level |-> level, at |-> clock + 1, who |-> Cred(x).who]]

ReadingsAge == stale < clock /\ stale' = clock
=============================================================================
