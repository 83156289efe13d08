------------------------------ MODULE VaultMode ------------------------------
(***************************************************************************)
(* Which accounts a process may use: the local ones, or those the vault    *)
(* serves this host.  The enrollment files decide, and every process of    *)
(* the host writes them.  The process caches what it read under the key    *)
(* the files had (vault.ts), lists the vault's accounts, and its requests  *)
(* (OpenCode 1 and 2), quota polls, logins and menu ask before they use a  *)
(* credential.                                                             *)
(*                                                                         *)
(* One piece of work runs at a time beside a refresh of the account list   *)
(* and the discovery in flight; the account is in the list or not yet, and *)
(* its death is a new version of the list.                                 *)
(***************************************************************************)
EXTENDS Integers, FiniteSets

CONSTANTS
    MaxWrites,     \* bound: writes of the enrollment files
    MaxLists       \* bound: versions of the vault's account list

ASSUME BoundsAssumption == {MaxWrites, MaxLists} \subseteq Nat

VARIABLES
    token, state,      \* the enrollment files
    authority,         \* #authority: the mode last read
    known,             \* #authorityKey is the key of the files as they are
    asked,             \* reads of the mode under way, of each actor
    work,              \* the request, poll, login or menu choice under way
    disc,              \* the discovery in flight, or None
    refresh,           \* the call of refresh under way
    listed, snapshot,  \* the vault's list, and the version the roster holds
    used,              \* the credential last put to use, or None
    seen,              \* history: how the files have read since, for each actor
    writes

files == <<token, state, writes>>
modeCache == <<authority, known>>
roster == <<disc, refresh, listed, snapshot>>
vars == <<files, modeCache, asked, work, roster, used, seen>>

None == "none"
Actors == {"work", "refresh", "disc"}

\* The discovery: asks whether to use the vault, lists, and has a list.
NoDisc == [at |-> "idle", list |-> 0]
Asks == [at |-> "custody", list |-> 0]
Lists == [at |-> "asking", list |-> 0]

NotAsked == [mode |-> None, fresh |-> FALSE]
Idle == [kind |-> None, at |-> "idle"]

(***************************************************************************)
(* The enrollment files                                                    *)
(***************************************************************************)
\* enrollmentAuthority: only a host that holds neither a token nor an approval is local.
Mode(t, s) ==
    CASE t /\ s = "approved"  -> "vault"
      [] ~t /\ s # "approved" -> "local"
      [] OTHER                -> "unreadable"

mode == Mode(token, state)

Seen(m) == IF m = "local" THEN "local" ELSE "held"

\* Whoever writes the files changes their key: no read under way is of them any more.
Write(t, s) ==
    /\ writes < MaxWrites /\ writes' = writes + 1
    /\ token' = t /\ state' = s
    /\ known' = FALSE
    /\ asked' = [a \in Actors |-> [asked[a] EXCEPT !.fresh = FALSE]]
    /\ seen' = [a \in Actors |-> seen[a] \union {Seen(Mode(t, s))}]
    /\ UNCHANGED <<authority, listed, snapshot, used>>

\* A step of a ceremony: a denied proposal is cleared, a new one is made, and the
\* operator's approval arrives, in two files.
Ceremony ==
    \/ state = "denied" /\ Write(token, "none")
    \/ state = "none" /\ ~token /\ Write(token, "pending")
    \/ state = "pending" /\ ~token /\ Write(token, "denied")
    \/ state = "pending" /\ ~token /\ Write(TRUE, state)
    \/ state = "pending" /\ token /\ Write(token, "approved")

\* disconnect deletes the token, then the ceremony state.
Forget ==
    \/ token /\ Write(FALSE, state)
    \/ ~token /\ state # "none" /\ Write(token, "none")

(***************************************************************************)
(* Reading the mode                                                        *)
(***************************************************************************)
enrolled == ~known \/ authority # "local"

Ask(a) == [asked EXCEPT ![a] = [mode |-> mode, fresh |-> TRUE]]

Answered(a) == [asked EXCEPT ![a] = NotAsked]

\* Mutant: what was read counts although the files changed meanwhile.
AnswerUnchecked(a) == asked[a].mode

\* authority(): a mode read while the files changed is not known.
Answer(a) == IF asked[a].fresh THEN asked[a].mode ELSE "unreadable"

\* Reads are answered in any order; a later key makes an earlier answer unknown.
Read(a) ==
    /\ asked[a].mode # None
    /\ asked' = Answered(a)
    /\ IF Answer(a) # "unreadable" \/ asked[a].fresh
       THEN authority' = Answer(a) /\ known' = TRUE
       ELSE UNCHANGED modeCache

At(kind, at) == work.kind = kind /\ work.at = at
To(at) == work' = [work EXCEPT !.at = at]

\* The work's next read begins; its answer goes to "at".
AskTo(at) == asked' = Ask("work") /\ To(at)

Since(a) == seen' = [seen EXCEPT ![a] = {Seen(mode)}]

(***************************************************************************)
(* Init                                                                    *)
(***************************************************************************)
Init ==
    /\ token \in BOOLEAN /\ state = (IF token THEN "approved" ELSE "none")
    /\ authority = "unknown" /\ known = FALSE
    /\ asked = [a \in Actors |-> NotAsked]
    /\ work = Idle
    /\ disc = NoDisc /\ refresh = [at |-> "idle", since |-> 0]
    /\ listed = 0 /\ snapshot \in {-1, 0}
    /\ used = None /\ seen = [a \in Actors |-> {}]
    /\ writes = 0

(***************************************************************************)
(* The discovery of the account list, and refresh                          *)
(***************************************************************************)
\* The consumer's discovery first asks whether the vault is to be used at all.
StartDiscovery ==
    /\ disc = NoDisc
    /\ disc' = Asks
    /\ asked' = Ask("disc")
    /\ UNCHANGED <<files, modeCache, work, refresh, listed, snapshot, used, seen>>

\* What refresh does when the discovery it waits for ends.
Waiter ==
    CASE refresh.at = "earlier" -> [refresh EXCEPT !.at = "discover"]
      [] refresh.at = "own"     -> [refresh EXCEPT !.at = "idle"]
      [] OTHER                  -> refresh

custodyActive ==
    /\ disc = Asks /\ Read("disc")
    /\ LET on == ~known' \/ authority' # "local"
       IN  /\ disc' = IF on THEN Lists ELSE NoDisc
           /\ refresh' = IF on THEN refresh ELSE Waiter
    /\ UNCHANGED <<files, work, listed, snapshot, used, seen>>

ListRead ==
    /\ disc = Lists /\ token
    /\ disc' = [at |-> "listed", list |-> listed]
    /\ UNCHANGED <<files, modeCache, asked, work, refresh, listed, snapshot, used, seen>>

Discovered ==
    /\ disc.at = "listed"
    /\ snapshot' = disc.list /\ disc' = NoDisc /\ refresh' = Waiter
    /\ UNCHANGED <<files, modeCache, asked, work, listed, used, seen>>

\* The vault cannot be reached, or not without a token: refresh resolves with the roster it had.
DiscoveryFails ==
    /\ disc = Lists /\ disc' = NoDisc
    /\ refresh' = IF refresh.at = "own" THEN [refresh EXCEPT !.at = "failed"] ELSE Waiter
    /\ UNCHANGED <<files, modeCache, asked, work, listed, snapshot, used, seen>>

\* refresh is called from a menu, after an approval or after a reported 401.
CallRefresh ==
    /\ refresh.at = "idle"
    /\ refresh' = [at |-> "authority", since |-> listed]
    /\ asked' = Ask("refresh")
    /\ Since("refresh")

RefreshFrom ==
    /\ CallRefresh
    /\ UNCHANGED <<files, modeCache, work, disc, listed, snapshot, used>>

\* One that was already running may have read the files and the vault before what
\* the caller changed: it is waited out.
waitsOut == IF disc = NoDisc THEN "discover" ELSE "earlier"

RefreshAuthority ==
    /\ refresh.at = "authority" /\ Read("refresh")
    /\ refresh' = [refresh EXCEPT !.at = waitsOut]
    /\ UNCHANGED <<files, work, disc, listed, snapshot, used, seen>>

RefreshDiscover ==
    /\ refresh.at = "discover"
    /\ refresh' = [refresh EXCEPT !.at = "own"]
    /\ IF disc = NoDisc THEN disc' = Asks /\ asked' = Ask("disc")
       ELSE UNCHANGED <<disc, asked>>
    /\ UNCHANGED <<files, modeCache, work, listed, snapshot, used, seen>>

RefreshFailed ==
    /\ refresh.at = "failed"
    /\ refresh' = [refresh EXCEPT !.at = "idle"]
    /\ UNCHANGED <<files, modeCache, asked, work, disc, listed, snapshot, used, seen>>

\* The vault's list changes: an account is added, replaced or marked dead.
ListChanges ==
    /\ listed < MaxLists /\ listed' = listed + 1
    /\ UNCHANGED <<files, modeCache, asked, work, disc, refresh, snapshot, used, seen>>

(***************************************************************************)
(* A request of OpenCode 1                                                 *)
(***************************************************************************)
rest == <<files, disc, refresh, listed, snapshot>>
End == work' = Idle

\* The fetch override asks before it reads anything local.
Fetch ==
    /\ work = Idle
    /\ work' = [kind |-> "v1", at |-> "fetch"]
    /\ asked' = Ask("work") /\ used' = None
    /\ Since("work")
    /\ UNCHANGED <<rest, modeCache>>

\* In vault mode OpenCode's slot is not read; otherwise the mode is asked again after.
FetchAuthority ==
    /\ At("v1", "fetch") /\ Read("work")
    /\ To(IF Answer("work") = "local" THEN "slot" ELSE "limits")
    /\ UNCHANGED <<rest, used, seen>>

getAuth ==
    /\ At("v1", "slot")
    /\ AskTo("slotRead")
    /\ UNCHANGED <<rest, modeCache, used, seen>>

\* An install that has not migrated serves its own accounts in the legacy loop.
SlotAuthority ==
    /\ At("v1", "slotRead") /\ Read("work")
    /\ \/ To("limits")
       \/ Answer("work") = "local" /\ To("prepare")
    /\ UNCHANGED <<rest, used, seen>>

\* servePooled first readies the limits, for which the mode is asked once more, and
\* only for so long while the vault is to be used.
forRequest ==
    /\ At("v1", "limits")
    /\ AskTo("limitsRead")
    /\ UNCHANGED <<rest, modeCache, used, seen>>

\* The mode of the request is then the cached one.
vaultMode == IF ~known' \/ authority' # "local" THEN "roster" ELSE "prepare"

servePooled ==
    /\ At("v1", "limitsRead")
    /\ \/ Read("work")
       \/ enrolled /\ asked' = Answered("work") /\ UNCHANGED modeCache
    /\ To(vaultMode)
    /\ UNCHANGED <<rest, used, seen>>

\* The bearer of the pool row or the slot, after its refresh
ResolveBearer ==
    /\ At("v1", "prepare")
    /\ AskTo("send")
    /\ Since("work")
    /\ UNCHANGED <<rest, modeCache, used>>

\* Mutant: sendWithAccessToken trusts the bearer it was handed.
mayLeaveAnyway == TRUE

\* Without a receipt of the vault the bearer is local, and leaves only in local mode.
mayLeave == Answer("work") = "local"

sendWithAccessToken ==
    /\ At("v1", "send") /\ Read("work")
    /\ used' = IF mayLeave THEN "local" ELSE None
    /\ End
    /\ UNCHANGED <<rest, seen>>

(***************************************************************************)
(* A request on the vault's accounts                                       *)
(***************************************************************************)
AtRoster == work.kind \in {"v1", "v2"} /\ work.at = "roster"

\* awaitRequestRoster: the first list is discovered, and waited for only so long.
awaitRequestRoster ==
    /\ AtRoster /\ snapshot = -1 /\ disc = NoDisc
    /\ mode = "vault"
    /\ disc' = Asks /\ asked' = Ask("disc")
    /\ UNCHANGED <<files, modeCache, work, refresh, listed, snapshot, used, seen>>

\* routes(): without a list, or when the files read local by now, nothing is served.
routes == enrolled /\ snapshot >= 0

Route ==
    /\ AtRoster
    /\ \/ routes /\ AskTo("serve")
       \/ ~routes /\ End /\ UNCHANGED asked
    /\ UNCHANGED <<rest, modeCache, used, seen>>

\* The consumer reads the files again when they changed since, and then the token.
serves == (~known' \/ authority' # "local") /\ token

\* The vault serves the account a token and a receipt, or refuses.
send ==
    /\ At("v1", "serve") /\ Read("work")
    /\ \/ serves /\ used' = "vault"
       \/ used' = None
    /\ End
    /\ UNCHANGED <<rest, seen>>

(***************************************************************************)
(* A request of OpenCode 2                                                 *)
(***************************************************************************)
chooseAccount ==
    /\ work = Idle
    /\ work' = [kind |-> "v2", at |-> "choose"]
    /\ asked' = Ask("work") /\ used' = None
    /\ Since("work")
    /\ UNCHANGED <<rest, modeCache>>

ChooseAuthority ==
    /\ At("v2", "choose") /\ Read("work")
    /\ To(IF Answer("work") = "local" THEN "row" ELSE "roster")
    /\ UNCHANGED <<rest, used, seen>>

\* A refused account is left out of the next choice: here, there is no other.
authorize ==
    /\ At("v2", "serve") /\ Read("work")
    /\ \/ serves /\ To("receipt")
       \/ End
    /\ UNCHANGED <<rest, used, seen>>

\* The host asks for the headers later, before it sends.
accountHeaders ==
    /\ work.kind = "v2" /\ work.at \in {"row", "receipt"}
    /\ AskTo(IF work.at = "row" THEN "rowHeaders" ELSE "receiptHeaders")
    /\ UNCHANGED <<rest, modeCache, used, seen>>

\* The row is looked up in local mode alone; a receipt authorized earlier is used.
Headers ==
    /\ work.kind = "v2" /\ work.at \in {"rowHeaders", "receiptHeaders"}
    /\ Read("work")
    /\ IF work.at = "rowHeaders"
       THEN /\ used' = IF Answer("work") = "local" THEN "local" ELSE None
            /\ Since("work")
       ELSE used' = "vault" /\ UNCHANGED seen
    /\ End
    /\ UNCHANGED rest

(***************************************************************************)
(* A poll of the account's quota                                           *)
(***************************************************************************)
\* The poll's own data: the account whose row it read or was served for, and
\* the account the reading it holds is of, each as the list's version.
Poll(at) == [kind |-> "poll", at |-> at, row |-> -1, of |-> -1]

\* A reading a request needs is asked of the provider at once; pollStale's first asks
\* the mode, whose answer it drops. A second poll of the account joins the first.
pollQuota ==
    /\ work = Idle /\ routes
    /\ work' = Poll("serve") \/ work' = Poll("background")
    /\ asked' = Ask("work") /\ used' = None
    /\ UNCHANGED <<rest, modeCache, seen>>

pollStale ==
    /\ At("poll", "background") /\ Read("work")
    /\ To("row")
    /\ UNCHANGED <<rest, used, seen>>

\* The account's row is read before insula is asked, which has a reading, skips
\* this poll, or has none, so that the provider is asked after all.
PollRow ==
    /\ At("poll", "row")
    /\ work' = [work EXCEPT !.row = snapshot, !.at = "insula"]
    /\ UNCHANGED <<rest, modeCache, asked, used, seen>>

PollInsula ==
    /\ At("poll", "insula")
    /\ \/ work' = [work EXCEPT !.of = snapshot, !.at = "reading"] /\ UNCHANGED asked
       \/ AskTo("serve")
       \/ End /\ UNCHANGED asked
    /\ UNCHANGED <<rest, modeCache, used, seen>>

\* Sent like a request: the receipt says whom the reading will be of.
PollProvider ==
    /\ At("poll", "serve") /\ Read("work")
    /\ \/ /\ serves /\ used' = "vault"
          /\ work' = [work EXCEPT !.row = listed, !.of = listed, !.at = "reading"]
       \/ used' = None /\ End
    /\ UNCHANGED <<rest, seen>>

\* Mutant: whoever holds the route when the reading arrives is taken for its account.
heldByThen == snapshot

\* The account the reading is filed for
polledFor == work.row

\* recordQuota, recordAccountQuota: a reading is kept while the route still holds
\* the account it is filed for; a request that failed files none.
recordSnapshot ==
    /\ At("poll", "reading")
    /\ \/ polledFor = snapshot /\ To("filed")
       \/ End
    /\ UNCHANGED <<rest, modeCache, asked, used, seen>>

PollEnds ==
    /\ At("poll", "filed")
    /\ End
    /\ UNCHANGED <<rest, modeCache, asked, used, seen>>

(***************************************************************************)
(* A local login                                                           *)
(***************************************************************************)
Login ==
    /\ work = Idle
    /\ work' = [kind |-> "login", at |-> "begin"]
    /\ asked' = Ask("work") /\ used' = None
    /\ UNCHANGED <<rest, modeCache, seen>>

assertLocalPoolLogin(from, to) ==
    /\ At("login", from) /\ Read("work")
    /\ IF Answer("work") = "local" THEN To(to) ELSE End
    /\ UNCHANGED <<rest, used, seen>>

BeginLogin == assertLocalPoolLogin("begin", "dialogue")

\* The user signs in, which takes as long as it takes.
Complete ==
    /\ At("login", "dialogue")
    /\ AskTo("completed")
    /\ Since("work")
    /\ UNCHANGED <<rest, modeCache, used>>

CompleteLogin == assertLocalPoolLogin("completed", "store")

\* The host writes the credential of its own dialogue into its slot.
HostSlot ==
    /\ At("login", "store")
    /\ used' = "login" /\ End
    /\ UNCHANGED <<rest, modeCache, asked, seen>>

\* Otherwise the slot's lock is taken, or the pool's rows are read, and the mode is
\* asked again.
PoolRead ==
    /\ At("login", "store")
    /\ \/ AskTo("locked")
       \/ AskTo("read")
    /\ UNCHANGED <<rest, modeCache, used, seen>>

setMainAuth ==
    /\ At("login", "locked") /\ Read("work")
    /\ used' = IF Answer("work") = "local" THEN "login" ELSE None
    /\ End
    /\ UNCHANGED <<rest, seen>>

writeLoginToPool ==
    /\ At("login", "read") /\ Read("work")
    /\ used' = IF Answer("work") = "local" THEN "login" ELSE None
    /\ End
    /\ UNCHANGED <<rest, seen>>

(***************************************************************************)
(* The menu                                                                *)
(***************************************************************************)
\* The choice is offered by the cached mode, and asked again when it is made.
connectVaultAction ==
    /\ work = Idle
    /\ work' = [kind |-> "menu", at |-> IF enrolled THEN "disconnect" ELSE "connect"]
    /\ asked' = Ask("work")
    /\ UNCHANGED <<rest, modeCache, used, seen>>

\* A choice made before the mode changed never becomes the opposite one.
Chosen ==
    /\ work.kind = "menu" /\ work.at \in {"disconnect", "connect"}
    /\ Read("work")
    /\ \/ work.at = "disconnect" /\ Answer("work") # "local" /\ To("forget")
       \/ work.at = "disconnect" /\ Answer("work") = "local" /\ End
       \/ work.at = "connect" /\ Answer("work") = "local" /\ To("propose")
       \/ work.at = "connect" /\ Answer("work") # "local" /\ End
    /\ UNCHANGED <<rest, used, seen>>

\* disconnect: the cached mode is read again at the end.
disconnect ==
    \/ /\ At("menu", "forget") /\ (token \/ state # "none")
       /\ Forget
       /\ UNCHANGED <<work, disc, refresh>>
    \/ /\ At("menu", "forget") /\ ~token /\ state = "none"
       /\ AskTo("forgotten")
       /\ UNCHANGED <<rest, modeCache, used, seen>>

Disconnected ==
    /\ At("menu", "forgotten") /\ Read("work")
    /\ End
    /\ UNCHANGED <<rest, used, seen>>

\* connectStep, again and again, until the request is decided or the wait is over;
\* an approval is followed by a refresh of the list.
waitForApproval ==
    /\ At("menu", "propose")
    /\ \/ Ceremony /\ UNCHANGED <<work, disc, refresh>>
       \/ /\ state = "approved"
          /\ CallRefresh /\ End
          /\ UNCHANGED <<files, modeCache, disc, listed, snapshot, used>>
       \/ End /\ UNCHANGED <<rest, modeCache, asked, used, seen>>

(***************************************************************************)
(* Other processes of the host, and the end of the work                    *)
(***************************************************************************)
Others == (Ceremony \/ Forget) /\ UNCHANGED <<work, disc, refresh>>

Next ==
    \/ StartDiscovery \/ custodyActive \/ ListRead \/ Discovered \/ DiscoveryFails
    \/ RefreshFrom \/ RefreshAuthority \/ RefreshDiscover \/ RefreshFailed
    \/ ListChanges
    \/ Fetch \/ FetchAuthority \/ getAuth \/ SlotAuthority \/ forRequest \/ servePooled
    \/ ResolveBearer \/ sendWithAccessToken
    \/ awaitRequestRoster \/ Route \/ send
    \/ chooseAccount \/ ChooseAuthority \/ authorize \/ accountHeaders \/ Headers
    \/ pollQuota \/ pollStale \/ PollRow \/ PollInsula \/ PollProvider \/ recordSnapshot
    \/ PollEnds
    \/ Login \/ BeginLogin \/ Complete \/ CompleteLogin \/ HostSlot \/ PoolRead
    \/ setMainAuth
    \/ writeLoginToPool
    \/ connectVaultAction \/ Chosen \/ disconnect \/ Disconnected \/ waitForApproval
    \/ Others

Spec == Init /\ [][Next]_vars

(***************************************************************************)
(* Properties                                                              *)
(***************************************************************************)
\* While callbacks that cannot wait take this host for a local one, it is: the
\* cache never outlives the files it was read from (authority, enrolled).
LocalMeansLocal == ~enrolled => mode = "local"

\* A local credential is put to use only in a mode that allowed it at some time since it
\* was resolved or completed: a local bearer, row or login taken while the host was
\* being connected does not outlive the wait for it (sendWithAccessToken,
\* accountHeaders, writeLoginToPool).
UsesByMode ==
    [][used' # used =>
        (used' \in {"local", "login"} => "local" \in seen'["work"])]_vars

\* A reading is filed for the account it is of: an account replaced while its poll was
\* under way never gets the other one's quota (#pollQuota, recordSnapshot).
ReadingFitsAccount ==
    [][At("poll", "reading") /\ work'.at = "filed" => work.of = snapshot]_vars

\* refresh returns a roster as new as the vault's list was when it was called, and
\* does without one only when the host was local since (refresh, #track).
RefreshIsFresh ==
    [][refresh.at = "own" /\ refresh'.at = "idle" =>
        \/ snapshot' >= refresh.since /\ disc.at = "listed"
        \/ disc = Asks /\ "local" \in seen["refresh"]]_vars

\* What an answer is used for is still what was asked: no late reading on another
\* account, no roster older than its refresh (#pollQuota, refresh).
AnswersAreCurrent == ReadingFitsAccount /\ RefreshIsFresh
=============================================================================
