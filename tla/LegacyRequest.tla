---------------------------- MODULE LegacyRequest ----------------------------
(***************************************************************************)
(* One request of OpenCode 1 on an install that has not migrated: the main *)
(* account and the fallback rows, in the three routing modes, judged by    *)
(* the readings of QuotaCache while credentials, readings and marks change *)
(* underneath.  Other requests appear as the frames, marks and refreshes   *)
(* they cause, and as the newer generation of one that began later.        *)
(***************************************************************************)
EXTENDS QuotaCache, Filter

CONSTANTS
    Order,        \* the rows in the order of the store
    SavedLevels   \* the levels a persisted reading may have

\* Every save merges by id: a row is in the store once (mergeStorageForSave).
ASSUME OrderAssumption ==
    /\ Order \in Seq(Rows) /\ Range(Order) = Rows
    /\ \A i, j \in DOMAIN Order : Order[i] = Order[j] => i = j

ASSUME SavedLevelsAssumption == SavedLevels \subseteq Levels

VARIABLES
    rq,      \* the request
    pin,     \* the session's account and login in sticky-balanced mode, or Absent
    held     \* history: the accounts marked ever since the request began

legacyVars ==
    <<config, slot, cred, prev, expired, stored, current, cache, mark, file, saved,
      clock, stale, last, poll, events, rq, pin, held>>

NoSelection == [done |-> FALSE, current |-> <<>>, retained |-> <<>>]

NotBegun == [pc |-> "idle"]

(***************************************************************************)
(* The request's credentials                                               *)
(***************************************************************************)
\* The store as it was read for the request; the slot is read next.
Begin ==
    /\ rq = NotBegun
    /\ \E replayable \in BOOLEAN :
          rq' = [pc |-> "auth", replayable |-> replayable, overtaken |-> FALSE,
                 rows |-> cred, mainAccountId |-> stored,
                 main |-> Absent, id |-> 0, inPool |-> FALSE, shared |-> file,
                 out |-> FALSE, killed |-> FALSE, marked |-> FALSE,
                 todo |-> <<>>, usable |-> <<>>, next |-> "none", sel |-> NoSelection,
                 cands |-> <<>>, tried |-> FALSE, sticky |-> FALSE,
                 status |-> "none", read |-> Absent, sends |-> <<>>, open |-> {}, last |-> 0,
                 low |-> {}, roster |-> {}]
    /\ UNCHANGED pin

\* Row main of the store, refreshed when due; one that could not be refreshed may still
\* have time left.
UsePooledMain(c) == [rq EXCEPT !.inPool = TRUE, !.main = c,
                               !.id = IF c = Absent THEN 0 ELSE c.who, !.pc = "decide"]

\* The slot holds a credential of its own, in date or not.
GetAuth ==
    /\ rq.pc = "auth" /\ slot # Absent
    /\ rq' = [rq EXCEPT !.main = slot, !.id = slot.who,
                        !.pc = IF Due("main", slot) THEN "refresh" ELSE "decide"]
    /\ UNCHANGED <<login, pin>>

resolvePooledMain(c) ==
    \/ (c # Absent => ~Due("main", c)) /\ rq' = UsePooledMain(c) /\ UNCHANGED login
    \/ /\ c # Absent /\ Due("main", c)
       /\ \/ refreshAccountNow("main", c) /\ rq' = UsePooledMain(RowRefreshed("main", c))
          \/ rq' \in {UsePooledMain(Absent), UsePooledMain(c)} /\ UNCHANGED login

GetAuthInPool ==
    /\ rq.pc = "auth" /\ slot = Absent
    /\ resolvePooledMain(rq.rows["main"])
    /\ UNCHANGED pin

\* The slot's identity stays the one it was read with, whichever login is refreshed by now.
RefreshMain ==
    /\ rq.pc = "refresh"
    /\ refreshMainWithLease(rq.main)
    /\ rq' = [rq EXCEPT !.main = SlotRefreshed(rq.main), !.pc = "decide"]
    /\ UNCHANGED pin

\* MainAccountInPoolError: the store is read again.
MainMoved ==
    /\ rq.pc = "refresh" /\ slot = Absent
    /\ resolvePooledMain(cred["main"])
    /\ UNCHANGED pin

\* The stale token is used, unless the tokens could not be persisted.
RefreshFails ==
    /\ rq.pc = "refresh"
    /\ rq' \in {[rq EXCEPT !.pc = "decide"], [rq EXCEPT !.pc = "thrown"]}
    /\ UNCHANGED <<login, pin>>

Unavailable == rq.main = Absent

(***************************************************************************)
(* What is known before anything is sent                                   *)
(***************************************************************************)
\* Main in the request's eyes: the login is the one the slot was read with.
AsMain == [who |-> rq.id, tok |-> IF Unavailable THEN 0 ELSE rq.main.tok]

\* The last reading this process took of this login was below the floor: under the very
\* token or, for main, whose readings outlive theirs, under any.
BelowOwnFloor(x, c) ==
    /\ config.killswitch
    /\ last[x] # Absent /\ last[x].who = c.who /\ last[x].level # "ok"
    /\ x = "main" \/ last[x].tok = c.tok

\* Mutant: row main stays among the fallbacks.
FallbackRowsAll == Order

\* withoutPoolMainRow
FallbackRows == IF rq.inPool THEN Only(Order, Fallbacks) ELSE Order

AllRows == Only(FallbackRows, {x \in Rows : rq.rows[x] # Absent})

\* Admission, killswitch and mark of main, each judged once
Decide ==
    /\ rq.pc = "decide"
    /\ current' = IF rq.overtaken THEN current ELSE rq.id
    /\ rq' = [rq EXCEPT
         !.shared = file,
         !.out = Exhausted(Freshest("main", AsMain, file["main"])),
         !.killed = ~killswitchPassesPolicy(peekForPolicy("main", AsMain)),
         !.marked = "main" \in mark,
         !.low = IF BelowOwnFloor("main", AsMain) THEN {"main"} ELSE {},
         !.tried = config.mode = "fallback-first" /\ rq.replayable,
         !.sticky = config.mode = "sticky-balanced" /\ rq.replayable,
         !.pc = IF rq.replayable /\ config.mode # "main-first" THEN "select" ELSE "block",
         !.next = IF config.mode = "sticky-balanced" THEN "roster" ELSE "first",
         !.todo = AllRows]
    /\ UNCHANGED <<login, quota, pin>>

(***************************************************************************)
(* getUsableFallbackAccounts, row by row                                   *)
(***************************************************************************)
\* The first that asks makes the selection, which is kept.
Select(next) == [rq EXCEPT !.pc = "select", !.next = next, !.todo = AllRows, !.usable = <<>>]

Row == Head(rq.todo)
RowCred == rq.rows[Row]
Passed == [rq EXCEPT !.todo = Tail(@)]
Usable(c) == [Passed EXCEPT !.usable = Append(@, [acct |-> Row, cred |-> c])]

\* A row that holds main's credential while the slot may be live is passed over.
Selecting == rq.pc = "select" /\ rq.todo # <<>>
Shielded == isShieldedMainRow(Row, RowCred, rq.mainAccountId)

SkipRow ==
    /\ Selecting /\ Shielded
    /\ rq' = Passed
    /\ UNCHANGED <<login, quota, pin>>

\* The credential examined is the one the request's copy of the store has from then on.
Examine(c) ==
    /\ seedFallbackQuota(Row, c)
    /\ rq' = [(IF quotaSnapshotPassesPolicy(PolicyLevel(Row, c)) THEN Usable(c) ELSE Passed)
              EXCEPT !.rows[Row] = c]
    /\ UNCHANGED <<last, clock, pin>>

ExamineRow ==
    /\ Selecting /\ ~Shielded /\ ~Due(Row, RowCred)
    /\ Examine(RowCred)
    /\ UNCHANGED login

RefreshRow ==
    /\ Selecting /\ ~Shielded /\ Due(Row, RowCred)
    /\ refreshAccountNow(Row, RowCred)
    /\ Examine(RowRefreshed(Row, RowCred))

\* In back-off, or refused: a token not yet expired still serves.
RowRefreshFails ==
    /\ Selecting /\ ~Shielded /\ Due(Row, RowCred)
    /\ rq' \in {Usable(RowCred), Passed}
    /\ UNCHANGED <<login, quota, pin>>

(***************************************************************************)
(* The candidates                                                          *)
(***************************************************************************)
RowsExamined == rq.pc = "select" /\ rq.todo = <<>>

Unmarked(cands) == Only(cands, {c \in Range(cands) : c.acct \notin mark})

Spared(cands) ==
    Only(cands, {c \in Range(cands) : killswitchPassesPolicy(peekForPolicy(c.acct, c.cred))})

Retained(cands) ==
    Only(cands, {c \in Range(cands) : ~Exhausted(Freshest(c.acct, c.cred, rq.shared[c.acct]))})

\* History: the fallbacks below their floor when the choice is made
WithFloors(r, cands) ==
    LET below == {c.acct : c \in {d \in Range(cands) : BelowOwnFloor(d.acct, d.cred)}}
    IN  [r EXCEPT !.low = @ \cup below]

usableFallbackCandidates ==
    /\ RowsExamined /\ rq.next # "roster"
    /\ LET unkilled == Spared(Unmarked(rq.usable))
       IN  rq' = WithFloors([rq EXCEPT !.pc = rq.next,
                                       !.sel = [done |-> TRUE, current |-> unkilled,
                                                retained |-> Retained(unkilled)],
                                       !.usable = <<>>], rq.usable)
    /\ UNCHANGED <<login, quota, pin>>

\* The file is advisory: it never removes the last account that could be asked.
applyAdmissionQuotaSafety(mainRemains) ==
    IF rq.sel.retained = <<>> /\ ~mainRemains THEN rq.sel.current ELSE rq.sel.retained

(***************************************************************************)
(* Sending                                                                 *)
(***************************************************************************)
Sent(r, x, c) ==
    [r EXCEPT !.sends = Append(@, [acct |-> x, cred |-> c, low |-> x \in r.low,
                                   held |-> x \in held, sticky |-> r.sticky])]

\* fallback-first: the candidates in turn, before main
StartFirst ==
    /\ rq.pc = "first" /\ rq.sel.done
    /\ rq' = [rq EXCEPT !.pc = "tryFirst",
                        !.cands = applyAdmissionQuotaSafety(~rq.killed /\ ~rq.marked /\ ~rq.out)]
    /\ UNCHANGED <<login, quota, pin>>

tryFallbackFirst ==
    /\ rq.pc = "tryFirst"
    /\ rq' = IF rq.cands = <<>> THEN [rq EXCEPT !.pc = "block"]
             ELSE Sent([rq EXCEPT !.pc = "first?", !.cands = Tail(@)],
                       Head(rq.cands).acct, Head(rq.cands).cred)
    /\ UNCHANGED <<login, quota, pin>>

\* Mutant: an exhausted main is blocked whoever remains.
quotaBlocksAlone == rq.out /\ rq.replayable

\* Admission blocks main only while a fallback that is not exhausted remains.
quotaBlocksMain == rq.out /\ rq.replayable /\ rq.sel.retained # <<>>

Blocked == rq.killed \/ rq.marked \/ quotaBlocksMain

SelectForBlock ==
    /\ rq.pc = "block" /\ rq.out /\ rq.replayable /\ ~rq.sel.done
    /\ rq' = Select("block")
    /\ UNCHANGED <<login, quota, pin>>

Judged == rq.pc = "block" /\ (rq.out /\ rq.replayable => rq.sel.done)

\* killswitchBlockedResponse, or the 401 of a main without a credential: no bytes are sent.
BlockMain ==
    /\ Judged /\ (Blocked \/ Unavailable)
    /\ rq' = [rq EXCEPT !.pc = "after", !.status = IF Blocked THEN "limited" ELSE "denied"]
    /\ UNCHANGED <<login, quota, pin>>

SendMain ==
    /\ Judged /\ ~Blocked /\ ~Unavailable
    /\ rq' = Sent([rq EXCEPT !.pc = "main?"], "main", rq.main)
    /\ UNCHANGED <<login, quota, pin>>

shouldFallbackStatus(status) == status \in {"limited", "denied"}

\* The fallbacks are asked after main, unless they were before it.
Reacts == ~rq.tried /\ shouldFallbackStatus(rq.status)

SelectForReactive ==
    /\ rq.pc = "after" /\ Reacts /\ ~rq.sel.done
    /\ rq' = Select("after")
    /\ UNCHANGED <<login, quota, pin>>

React ==
    /\ rq.pc = "after" /\ (Reacts => rq.sel.done)
    /\ rq' = IF Reacts /\ rq.replayable
             THEN [rq EXCEPT !.pc = "react", !.cands = applyAdmissionQuotaSafety(FALSE)]
             ELSE [rq EXCEPT !.pc = "finish"]
    /\ UNCHANGED <<login, quota, pin>>

tryFallbackAccounts ==
    /\ rq.pc = "react"
    /\ rq' = IF rq.cands = <<>> THEN [rq EXCEPT !.pc = "finish"]
             ELSE Sent([rq EXCEPT !.pc = "react?", !.cands = Tail(@)],
                       Head(rq.cands).acct, Head(rq.cands).cred)
    /\ UNCHANGED <<login, quota, pin>>

(***************************************************************************)
(* sticky-balanced                                                         *)
(***************************************************************************)
Candidate(x, c) ==
    [acct |-> x, cred |-> c, reading |-> Freshest(x, c, rq.shared[x]),
     killed |-> ~killswitchPassesPolicy(peekForPolicy(x, c))]

buildStickyRouteRoster ==
    {Candidate(u.acct, u.cred) : u \in Range(rq.usable)}
        \cup IF Unavailable THEN {} ELSE {Candidate("main", AsMain)}

PinOf(c) == [acct |-> c.acct, who |-> c.cred.who]

eligible(roster) == {c \in roster : c.acct \notin mark}

\* A reading fresh and above the floor weighs; what it weighs is left open.
Weighted(c) == c.reading # Absent /\ c.reading.at > stale /\ c.reading.level = "ok"

Place(x) == CHOOSE i \in DOMAIN Order : Order[i] = x
Before(x, y) == x = "main" \/ (y # "main" /\ Place(x) < Place(y))

selectStickyCandidate(cands) ==
    LET unkilled == {c \in cands : ~c.killed}
        weighted == {c \in unkilled : Weighted(c)}
    IN  IF weighted # {} THEN weighted
        ELSE {c \in unkilled : \A d \in unkilled \ {c} : Before(c.acct, d.acct)}

\* The pin, while its account is eligible under the same login, or a new one
resolveStickyRouteCandidate(roster, pinned, excluded) ==
    LET open == {c \in eligible(roster) : c.acct \notin excluded}
        keeps == {c \in open : PinOf(c) = pinned}
    IN  IF keeps # {} THEN keeps ELSE selectStickyCandidate(open)

\* decideStickyBreak, with the killswitch as the roster judged it
Breaks(c, status) ==
    \/ status = "denied"
    \/ LET r == Freshest(c.acct, c.cred, rq.shared[c.acct])
       IN  /\ r # Absent /\ r.at > stale
           /\ c.killed \/ r.level = "out"

\* A pin that breaks moves when there is somewhere to go, and is sent with otherwise.
Moved(roster, c) ==
    LET there == resolveStickyRouteCandidate(roster, PinOf(c), {c.acct})
    IN  IF Breaks(c, "none") /\ there # {} THEN there ELSE {c}

StickySent(r, c, role) ==
    /\ rq' = Sent([r EXCEPT !.pc = role], c.acct,
                  IF c.acct = "main" THEN r.main ELSE c.cred)
    /\ pin' = PinOf(c)

\* All of this happens at once when the roster is complete.
StickySend ==
    /\ RowsExamined /\ rq.next = "roster"
    /\ LET roster == buildStickyRouteRoster
           first == resolveStickyRouteCandidate(roster, pin, {})
           r == [rq EXCEPT !.roster = roster, !.usable = <<>>]
       IN  IF first = {}
           THEN rq' = [r EXCEPT !.pc = "block", !.sticky = FALSE] /\ UNCHANGED pin
           ELSE \E c \in first : \E d \in Moved(roster, c) : StickySent(r, d, "sticky?")
    /\ UNCHANGED <<login, quota>>

(***************************************************************************)
(* Answers                                                                 *)
(***************************************************************************)
Waits == {"first?", "main?", "react?", "sticky?", "migrated?"}

n == Len(rq.sends)
Asked == rq.sends[n]

\* A token past its refresh, or sent under another login's account id, may be refused;
\* the second always is.  A refusal carries no reading.
Answerable(status, level) ==
    /\ status = "limited" => level \in {"none", "out"}
    /\ status = "denied" => level = "none"
    /\ Asked.acct = "main" /\ rq.main.who # rq.id => status = "denied"

pushed(level) ==
    IF level = "none" THEN UNCHANGED quota ELSE pushQuota(Asked.acct, Asked.cred, level)

AsRead(level) == IF level = "none" THEN Absent
                 ELSE [acct |-> Asked.acct, cred |-> Asked.cred, level |-> level]

\* A fallback that fails before main is discarded, its reading kept.
FirstAnswers(status, level) ==
    /\ rq.pc = "first?"
    /\ IF shouldFallbackStatus(status)
       THEN pushed(level) /\ rq' = [rq EXCEPT !.pc = "tryFirst"]
       ELSE /\ rq' = [rq EXCEPT !.pc = "finish", !.read = AsRead(level),
                                !.open = @ \cup {n}, !.last = n]
            /\ UNCHANGED quota
    /\ UNCHANGED pin

MainAnswers(status, level) ==
    /\ rq.pc = "main?"
    /\ rq' = [rq EXCEPT !.pc = "after", !.status = status, !.read = AsRead(level),
                        !.open = @ \cup {n}, !.last = n]
    /\ UNCHANGED <<quota, pin>>

\* Mutant: an answer that sends the request on is discarded at once.
releasesFailed(status) ==
    IF shouldFallbackStatus(status) THEN rq.open ELSE (rq.open \ {rq.last}) \cup {n}

\* The answer before is discarded once there is a newer one, whatever that one says.
releasesPrevious(status) == (rq.open \ {rq.last}) \cup {n}

FallbackAnswers(status, level) ==
    /\ rq.pc = "react?"
    /\ IF shouldFallbackStatus(status) THEN pushed(level) ELSE UNCHANGED quota
    /\ rq' = [rq EXCEPT !.pc = IF shouldFallbackStatus(status) THEN "react" ELSE "finish",
                        !.read = AsRead(level),
                        !.open = releasesPrevious(status), !.last = n]
    /\ UNCHANGED pin

\* The pin moves once more on a refusal, or an exhaustion its reading confirms.
StickyAnswers(status, level) ==
    /\ rq.pc = "sticky?"
    /\ pushed(level)
    /\ rq' = [rq EXCEPT !.pc = IF shouldFallbackStatus(status) THEN "migrate" ELSE "answered",
                        !.status = status, !.open = @ \cup {n}, !.last = n]
    /\ UNCHANGED pin

StickyMigrate ==
    /\ rq.pc = "migrate"
    /\ LET asked == CHOOSE c \in rq.roster : c.acct = Asked.acct
           there == resolveStickyRouteCandidate(rq.roster, PinOf(asked), {asked.acct})
       IN  IF Breaks(asked, rq.status) /\ there # {}
           THEN \E c \in there : StickySent(rq, c, "migrated?")
           ELSE rq' = [rq EXCEPT !.pc = "answered"] /\ UNCHANGED pin
    /\ UNCHANGED <<login, quota>>

ReplacementAnswers(status, level) ==
    /\ rq.pc = "migrated?"
    /\ pushed(level)
    /\ rq' = [rq EXCEPT !.pc = "answered", !.open = releasesPrevious(status), !.last = n]
    /\ UNCHANGED pin

Answers ==
    \E status \in {"ok", "limited", "denied"}, level \in Levels \cup {"none"} :
        /\ rq.pc \in Waits /\ Answerable(status, level)
        /\ \/ FirstAnswers(status, level) \/ MainAnswers(status, level)
           \/ FallbackAnswers(status, level)
           \/ StickyAnswers(status, level) \/ ReplacementAnswers(status, level)
        /\ UNCHANGED login

\* A send that throws ends the request: it may have been billed.  A reactive candidate's
\* leaves the answer before it, unless the caller aborted.
SendThrows ==
    /\ rq.pc \in Waits
    /\ rq' \in {[rq EXCEPT !.pc = "thrown"]}
                \cup IF rq.pc = "react?" THEN {[rq EXCEPT !.pc = "finish"]} ELSE {}
    /\ UNCHANGED <<login, quota, pin>>

\* The reading of the answer returned is recorded as of now, whenever it came.
Finish ==
    /\ rq.pc = "finish"
    /\ IF rq.read = Absent THEN UNCHANGED quota
       ELSE pushQuota(rq.read.acct, rq.read.cred, rq.read.level)
    /\ rq' = [rq EXCEPT !.pc = "answered"]
    /\ UNCHANGED <<login, pin>>

Over == rq.pc \in {"answered", "thrown"}

(***************************************************************************)
(* The specification                                                       *)
(***************************************************************************)
\* A session pinned by an earlier request, if any
Pinned == {Absent} \cup [acct : Rows, who : {1}]

First == [who |-> 1, tok |-> 1]

\* A process that has just started: the main account is in the slot, or on its way into
\* the pool.
LegacyInit ==
    /\ config \in Configs
    /\ slot = First
    /\ \E main \in {Absent, First} :
          cred = [x \in Rows |-> IF x = "main" THEN main ELSE First]
    /\ prev = [x \in Rows |-> Absent] /\ expired = [x \in Rows |-> 0]
    /\ stored = 1 /\ current = 0
    /\ \E s \in {Absent} \cup [level : SavedLevels, at : {0}] :
          saved = [x \in Rows |-> IF x = "main" THEN Absent ELSE s]
    /\ cache = [x \in Rows |-> Absent] /\ mark = {}
    /\ file = [x \in Rows |-> Absent]
    /\ last = [x \in Rows |-> Absent] /\ clock = 0 /\ stale = 0
    /\ poll = NotPolling /\ events = 0
    /\ pin \in IF config.mode = "sticky-balanced" THEN Pinned ELSE {Absent}
    /\ rq = NotBegun /\ held = {}

Auth ==
    \/ GetAuth \/ GetAuthInPool \/ RefreshMain \/ MainMoved \/ RefreshFails
    \/ Begin /\ UNCHANGED login

Choose ==
    \/ SkipRow \/ ExamineRow \/ RefreshRow \/ RowRefreshFails
    \/ usableFallbackCandidates \/ StickySend

Send ==
    \/ StartFirst \/ tryFallbackFirst
    \/ SelectForBlock \/ BlockMain \/ SendMain
    \/ SelectForReactive \/ React \/ tryFallbackAccounts
    \/ StickyMigrate \/ Answers \/ SendThrows \/ Finish

beside == <<config, file, saved, stale, poll>>

\* A request that begins later names the current login from then on.
OtherRequest ==
    /\ rq # NotBegun /\ MainCred # Absent /\ ~rq.overtaken
    /\ rq' = [rq EXCEPT !.overtaken = TRUE]
    /\ current' = MainCred.who

Credentials ==
    \/ \E x \in Rows :
        \/ TokenExpires(x) /\ UNCHANGED <<slot, cred, prev, stored, saved>>
        \/ Relogin(x) /\ UNCHANGED <<expired, stored>>
    \/ LoaderRuns /\ UNCHANGED <<slot, cred, prev, expired, saved>>
    \/ (WriteMainRow \/ WritePlaceholder) /\ UNCHANGED saved

Readings ==
    \/ \E x \in Rows, l \in Levels :
        \/ \E c \in {Cred(x), prev[x]} : Frame(x, c, l) /\ UNCHANGED <<file, stale>>
        \/ OtherProcess(x, l) /\ UNCHANGED <<login, cache, mark, last, stale>>
    \/ \E x \in Rows :
        \/ markRateLimited(x) /\ UNCHANGED <<login, cache, last, clock, file, stale>>
        \/ MarkExpires(x) /\ UNCHANGED <<login, cache, last, clock, file, stale>>
        \/ buildSidebarMachineState(x) /\ UNCHANGED <<login, quota, stale>>
    \/ ReadingsAge /\ UNCHANGED <<login, quota, file>>

\* What happens around the request, MaxEvents things at most
Around ==
    /\ events < MaxEvents /\ ~Over
    /\ events' = events + 1
    /\ UNCHANGED <<config, pin>>
    /\ \/ OtherRequest /\ UNCHANGED <<login, quota, file, stale, saved, poll>>
       \/ /\ UNCHANGED <<current, rq>>
          /\ \/ Credentials /\ UNCHANGED <<quota, file, stale, poll>>
             \/ Readings /\ UNCHANGED <<saved, poll>>
             \/ \E x \in Rows : StartPoll(x) /\ UNCHANGED <<login, quota, file, stale, saved>>

PollStep ==
    /\ PollGoesOn /\ ~Over
    /\ UNCHANGED <<config, file, saved, stale, current, rq, pin, events>>

Done == Over /\ UNCHANGED legacyVars

\* History: what was marked before the request and is still
Held == held' = IF rq = NotBegun THEN mark' ELSE held \cap mark'

LegacyNext ==
    \/ Auth /\ UNCHANGED <<quota, current, beside, events>> /\ Held
    \/ Decide /\ UNCHANGED <<beside, events>> /\ Held
    \/ Choose /\ UNCHANGED <<current, beside, events>> /\ Held
    \/ Send /\ UNCHANGED <<current, beside, events>> /\ Held
    \/ Around /\ Held
    \/ PollStep /\ Held
    \/ Done

LegacySpec == LegacyInit /\ [][LegacyNext]_legacyVars

(***************************************************************************)
(* Properties                                                              *)
(***************************************************************************)
Sends == IF rq = NotBegun THEN {} ELSE Range(rq.sends)

LegacyTypes ==
    /\ mark \subseteq Rows /\ held \subseteq mark
    /\ stale \in 0..clock /\ events \in 0..MaxEvents
    /\ \A x \in Rows : cache[x] # Absent => cache[x].at <= clock

\* A request is sent to an account once: main is not tried again as the pool's row, and
\* fallbacks tried before main are not tried after it (withoutPoolMainRow,
\* fallbacksAlreadyTried, excludeAccountIds).
OneTryPerAccount ==
    rq # NotBegun => \A i, j \in DOMAIN rq.sends :
        i # j => \/ rq.sends[i].acct # rq.sends[j].acct
                 \/ rq.sends[i].cred.who # rq.sends[j].cred.who

\* With the killswitch on, the ordered modes send to no account whose last reading,
\* taken under the very credential, is below its floor: nothing older displaces it
\* (killswitchPassesPolicy, seedFallbackQuota, setFallback).  When nothing in the roster
\* serves, sticky-balanced keeps main to it and examines the fallbacks a second time: the
\* first examination may have dropped the reading of a token adopted since (getFallback).
FloorKept ==
    \A s \in Sends :
        s.low => s.sticky \/ (config.mode = "sticky-balanced" /\ s.acct # "main")

\* An account marked from before the request began is not sent to while the mark lasts
\* (isRateLimited, in all three modes).
MarkedIsNotTried == \A s \in Sends : ~s.held

\* No account is asked that a mark from before the request rules out, nor, but for what
\* sticky-balanced sends to a session's account or to fallbacks, one whose floor does
\* (isRateLimited, killswitchPassesPolicy).
AsksNoneRuledOut == FloorKept /\ MarkedIsNotTried

\* The answer handed back still has its body, and every other answer's was released
\* (tryFallbackFirst, tryFallbackAccounts, the sticky replacement).
AnswerIsWhole ==
    rq.pc = "answered" => rq.open = (IF rq.last = 0 THEN {} ELSE {rq.last})

\* An advisory reading bricks nothing: a request no provider was asked for was refused by
\* the killswitch, a mark, or for want of a credential (applyAdmissionQuotaSafety,
\* quotaBlocksMain).
NeverBricked ==
    rq.pc = "answered" /\ rq.sends = <<>> => rq.killed \/ rq.marked \/ Unavailable
=============================================================================
