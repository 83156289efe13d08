------------------------------- MODULE Sidebar -------------------------------
(***************************************************************************)
(* The sidebar state file (sidebar-state.ts): the display of the accounts, *)
(* and the ledger through which the processes of a host share which        *)
(* account each session is pinned to and which one served it last.         *)
(*                                                                         *)
(* Every write is a merge under the file's lock, and the writes of one     *)
(* process land in the order they were called.  A request waits for        *)
(* neither: it decides from a cached snapshot with this process's own pins *)
(* laid over it, and hands its writes to a queue that retries them.  An    *)
(* OpenCode 2 process ("v2") publishes from its own pins instead.          *)
(*                                                                         *)
(* Host and processes: the enrollment files choose local or vault          *)
(* accounts, and a process knows their content as of its last read.  A     *)
(* quota reading is the times its two windows were read at, 0 for a window *)
(* it does not have; identities are numbered as the logins, 0 is unknown.  *)
(***************************************************************************)
EXTENDS Integers, SequencesExt, Filter

CONSTANTS
    Processes, Sessions,
    Locals, Vaults,    \* the ids of the local accounts, "main" among them, and of the vault's
    Versions,             \* which processes may be of OpenCode 1 ("v1") and 2 ("v2")
    MaxPins,           \* STICKY_ASSIGNMENT_MAX_ENTRIES
    PinAge,            \* STICKY_ASSIGNMENT_MAX_AGE_MS, in ticks
    Touch,             \* STICKY_ASSIGNMENT_LAST_SEEN_TOUCH_MS
    RouteAge,          \* ACTIVE_ROUTING_MAX_AGE_MS
    Scenes             \* bound: which events, and how many of them, one behaviour has

ASSUME AccountsAssumption == "main" \in Locals /\ Locals \cap Vaults = {}
ASSUME VersionsAssumption == Versions \subseteq [Processes -> {"v1", "v2"}]
ASSUME AgesAssumption == {MaxPins, PinAge, Touch, RouteAge} \subseteq Nat \ {0}
ASSUME ScenesAssumption == \A b \in Scenes : b.most \in Nat

VARIABLES
    version,      \* the OpenCode version of each process
    clock,     \* Date.now()
    enroll,    \* changes of the enrollment files: local when even, the vault when odd
    authority, \* the change each process last read
    login,     \* the login behind the main account ("now"), and the one the account file
               \* names ("stored")
    dead,      \* the accounts the killswitch refuses
    row,       \* the main account's quota as each process holds it, and who it came from
    file,      \* the sidebar file
    chain,     \* sidebarWriteChain: the writes each process has called, in order
    retries,   \* writes that failed and wait for the queue's timer
    cache,     \* createSidebarStateCache: the last snapshot of each process
    reads,     \* reads past the budget, still under way
    overlay,   \* stickyPinOverlay: the process's own pins, oldest first
    requests,  \* the requests that hold a snapshot; "behind" (history) says that another
               \* placed their session since, or dropped from the overlay a pin it lacks
    fate,      \* of each session in each process: live, deleting, removing, gone
    using,     \* history: the pin each session of a process was last sent with
    shaken,    \* history: sessions a process has no pin of its own left for: the file lost
               \* it, did not take it, or the overlay gave it up
    scene,     \* the bound of this behaviour
    events     \* how many of its events have happened

host == <<scene, version, clock, enroll, authority, login, dead>>
hot == <<cache, reads, overlay, requests>>
past == <<using, shaken>>
sidebarVars == <<host, row, file, chain, retries, hot, fate, past, events>>

None == <<>>
NoAccount == "none"
Accounts(vault) == IF vault THEN Vaults ELSE Locals
inVault == enroll % 2 = 1

\* A process whose last read is not of the files as they are counts as enrolled.
mayBeEnrolled(p) == authority[p] # enroll \/ inVault

(***************************************************************************)
(* Pins and routes                                                         *)
(***************************************************************************)
\* isUsableRoutingEntry, over the accounts the writer knows
pruneActiveRouting(routes, roster, removed) ==
    [s \in Sessions |->
        IF /\ routes[s] # None
           /\ s \notin removed
           /\ routes[s].at >= clock - RouteAge
           /\ routes[s].acct \in roster \cup {"main"}
        THEN routes[s] ELSE None]

\* The pin of a removed session, one not seen for too long, and one on an account that
\* is not in the roster are dropped.
pruneStickyAssignments(pins, roster, removed) ==
    [s \in Sessions |->
        IF /\ pins[s] # None
           /\ s \notin removed
           /\ pins[s].seen >= clock - PinAge
           /\ pins[s].acct \in roster
        THEN pins[s] ELSE None]

\* The pins least recently seen give way, never the one just written.
limitStickyAssignments(pins, s) ==
    LET others == {t \in Sessions \ {s} : pins[t] # None}
        over   == Cardinality(others) + 1 - MaxPins
        evicted == IF over <= 0 THEN {}
                   ELSE CHOOSE G \in kSubset(over, others) :
                            \A g \in G, t \in others \ G : pins[g].seen <= pins[t].seen
    IN  [t \in Sessions |-> IF t \in evicted THEN None ELSE pins[t]]

\* Both sides know the ChatGPT account, and it is another one.
hasStickyIdentityMismatch(pin, wire) == pin.wire # 0 /\ wire # 0 /\ pin.wire # wire

(***************************************************************************)
(* Merging readings                                                        *)
(***************************************************************************)
latestQuotaCheckedAt(q) == IF q = None THEN 0 ELSE Max({q.first, q.second})

freshestQuota(incoming, existing) ==
    IF latestQuotaCheckedAt(existing) > latestQuotaCheckedAt(incoming) THEN existing ELSE incoming

\* A window both sides report: the later reading.  One only one side reports: what the
\* fresher snapshot says of it.
freshestWindow(i, e, existingIsFresher) ==
    IF i # 0 /\ e # 0 THEN Max({i, e}) ELSE IF existingIsFresher THEN e ELSE i

mergeQuotaByWindow(incoming, existing) ==
    IF incoming = None THEN existing
    ELSE IF existing = None THEN incoming
    ELSE LET fresher == latestQuotaCheckedAt(existing) > latestQuotaCheckedAt(incoming)
         IN  [incoming EXCEPT !.first = freshestWindow(@, existing.first, fresher),
                              !.second = freshestWindow(@, existing.second, fresher)]

sameAccountIdentity(incoming, existing) == incoming.id # 0 /\ incoming.id = existing.id

\* Mutant: the identity is always the writer's.
relabelled(incoming, existing) ==
    [id |-> incoming.id,
     quota |-> IF sameAccountIdentity(incoming, existing)
               THEN mergeQuotaByWindow(incoming.quota, existing.quota)
               ELSE freshestQuota(incoming.quota, existing.quota)]

\* A whole pick takes the identity of the snapshot that won.
mergedRow(incoming, existing) ==
    LET quota == IF sameAccountIdentity(incoming, existing)
                 THEN mergeQuotaByWindow(incoming.quota, existing.quota)
                 ELSE freshestQuota(incoming.quota, existing.quota)
        kept  == quota = existing.quota /\ quota # incoming.quota
    IN  [id |-> IF kept /\ ~sameAccountIdentity(incoming, existing)
                THEN existing.id ELSE incoming.id,
         quota |-> quota]

(***************************************************************************)
(* The writes, each a merge into the file as it is when the lock is held   *)
(***************************************************************************)
\* Pins are not pruned by a roster while the writer, or the file, is in vault mode.
PinRoster(f, op) ==
    IF op.mode = "vault" \/ (op.mode = "any" /\ f.vault) THEN Locals \cup Vaults ELSE op.roster

setSidebarMachineState(f, op) ==
    LET vault == op.mode = "vault"
    IN  [f EXCEPT !.vault = vault,
                  !.dead = op.dead,
                  !.main = IF vault THEN [id |-> 0, quota |-> None] ELSE mergedRow(op.row, @),
                  !.pins = pruneStickyAssignments(@,
                               IF vault THEN Locals \cup Vaults
                               ELSE {"main"} \cup (Locals \ op.dead), {})]

upsertSidebarActiveRouting(f, op) ==
    [f EXCEPT !.active = op.acct,
              !.routes = pruneActiveRouting([@ EXCEPT ![op.s] = [acct |-> op.acct, at |-> op.at]],
                                            op.roster, {}),
              !.pins = pruneStickyAssignments(@, PinRoster(f, op) \cup {"main"}, {})]

removeSidebarActiveRouting(f, op) ==
    [f EXCEPT !.routes = pruneActiveRouting(@, op.roster, {op.s}),
              !.pins = pruneStickyAssignments(@, PinRoster(f, op) \cup {"main"}, {op.s})]

\* The session placed later, by whichever process, keeps its pin.
placedLater(current, pin) == current # None /\ current.assigned > pin.assigned

persistSidebarStickyAssignment(f, op) ==
    LET pins    == pruneStickyAssignments(f.pins, PinRoster(f, op), {})
        current == pins[op.s]
        same    == /\ current # None
                   /\ current.acct = op.pin.acct
                   /\ current.assigned = op.pin.assigned
        pin     == IF same THEN [op.pin EXCEPT !.seen = Max({@, current.seen})] ELSE op.pin
    IN  [f EXCEPT !.pins = IF placedLater(current, op.pin) THEN pins
                           ELSE limitStickyAssignments([pins EXCEPT ![op.s] = pin], op.s)]

clearSidebarStickyAssignment(f, op) == [f EXCEPT !.pins[op.s] = None]

Merge(f, op) ==
    CASE op.do = "machine" -> setSidebarMachineState(f, op)
      [] op.do = "route"   -> upsertSidebarActiveRouting(f, op)
      [] op.do = "legacy"  -> [f EXCEPT !.active = op.acct]
      [] op.do = "pin"     -> persistSidebarStickyAssignment(f, op)
      [] op.do = "remove"  -> removeSidebarActiveRouting(f, op)
      [] op.do = "clear"   -> clearSidebarStickyAssignment(f, op)

\* A file of vault mode holds no record of a local account, and no pin of a vault account
\* the killswitch refuses.
vaultOnly(f) ==
    LET only(a) == a \in Vaults
    IN  [f EXCEPT
           !.active = IF only(@) THEN @ ELSE NoAccount,
           !.routes = [s \in Sessions |->
               IF @[s] # None /\ only(@[s].acct) THEN @[s] ELSE None],
           !.pins = [s \in Sessions |->
               IF /\ @[s] # None /\ only(@[s].acct)
                  /\ ~(f.vault /\ @[s].acct \in f.dead)
               THEN @[s] ELSE None]]

\* Mutant: a local writer leaves the vault's roster in the file.
keepsRoster(f, op) ==
    LET next == Merge(f, op)
    IN  IF op.mode = "vault" \/ (op.mode = "any" /\ next.vault) THEN vaultOnly(next) ELSE next

\* A writer in local mode clears a vault roster left in the file.
writeMergedSidebarState(f, op) ==
    LET next == [Merge(f, op) EXCEPT !.vault = @ /\ op.mode # "local"]
    IN  IF op.mode = "vault" \/ (op.mode = "any" /\ next.vault) THEN vaultOnly(next) ELSE next

Mode(vault) == IF vault THEN "vault" ELSE "local"

\* The mode a write was built for must still be the process's when it holds the lock; a
\* publication of OpenCode 2 also asks for the very same enrollment files.
canWrite(p, op) ==
    \/ op.mode = "any"
    \/ /\ op.mode = Mode(mayBeEnrolled(p))
       /\ version[p] = "v2" => op.stamp = enroll

(***************************************************************************)
(* The process's queue.  Of the writes under one key only the newest       *)
(* counts: the outcome of the others is ignored.                           *)
(***************************************************************************)
SameKey(op, do, s) == op.do = do /\ op.s = s
Forget(ops, do, s) ==
    [i \in DOMAIN ops |-> IF SameKey(ops[i], do, s) THEN [ops[i] EXCEPT !.newest = FALSE] ELSE ops[i]]
Without(ops, do, s) == Only(ops, {op \in Range(ops) : ~SameKey(op, do, s)})

\* enqueue: start the write now; a pending retry under its key is dropped
Enqueue(ops, op) == Append(Forget(ops, op.do, op.s), op)
Unqueue(ops, op) == Without(ops, op.do, op.s)

\* A write, with nothing of what it is to put in the file yet
QueuedWrite(do, s, mode) ==
    [do |-> do, s |-> s, mode |-> mode, stamp |-> enroll, newest |-> TRUE, retried |-> TRUE,
     row |-> None, named |-> 0, dead |-> {}, acct |-> NoAccount, at |-> 0, roster |-> {},
     pin |-> None, then |-> None]

\* OpenCode 1 shows the quota it holds, of whichever login, with the identity its caller
\* names or else the one the account file names; OpenCode 2 shows a row of the pool.
DisplayedRow(p, held, named) ==
    [held EXCEPT !.id = IF version[p] = "v2" THEN @ ELSE IF named # 0 THEN named ELSE login.stored]

MachineWrite(p, vault, held, named) ==
    [QueuedWrite("machine", None, Mode(vault)) EXCEPT
        !.row = DisplayedRow(p, held, named), !.named = named,
        !.dead = dead \cap Accounts(vault)]

(***************************************************************************)
(* What the file shows                                                     *)
(***************************************************************************)
\* The pin of a session, while its account is one of the file's and not killed
resolveSessionStickyAccount(f, s) ==
    LET pin == f.pins[s]
    IN  IF /\ pin # None
           /\ pin.seen >= clock - PinAge
           /\ pin.acct \in Accounts(f.vault) \ f.dead
        THEN pin.acct ELSE NoAccount

\* isUsableRoutingEntry, over the accounts the file lists
routeIsUsable(f, route) ==
    /\ route # None
    /\ route.at >= clock - RouteAge
    /\ f.vault => route.acct \in Vaults
    /\ route.acct = "main" \/ route.acct \in Accounts(f.vault) \ f.dead

\* The account that served the session, or its pin, or one that the routing mode starts
\* with: in vault mode one of the vault's, or the word "vault" when it has none.
resolveSessionSidebarRouting(f, s) ==
    IF routeIsUsable(f, f.routes[s]) THEN {f.routes[s].acct}
    ELSE IF resolveSessionStickyAccount(f, s) # NoAccount
         THEN {resolveSessionStickyAccount(f, s)}
    ELSE IF ~f.vault THEN {"main"} \cup (Locals \ f.dead)
    ELSE IF Vaults \ f.dead # {} THEN Vaults \ f.dead
    ELSE {"vault"}

(***************************************************************************)
(* The start                                                               *)
(***************************************************************************)
NoPins == [s \in Sessions |-> None]

\* An unreadable or absent file is the default state.
NoSnapshot == [pins |-> NoPins, at |-> 0, current |-> FALSE]

SidebarInit ==
    /\ scene \in Scenes /\ version \in Versions
    /\ clock = 1 /\ dead = {}
    /\ login = [now |-> 1, stored |-> IF "login" \in scene.of THEN 0 ELSE 1]
    /\ enroll \in {0, 1}
    /\ authority = [p \in Processes |-> enroll]
    /\ row = [p \in Processes |-> [id |-> 0, quota |-> None]]
    /\ file = [vault |-> FALSE, dead |-> {}, main |-> [id |-> 0, quota |-> None],
               active |-> NoAccount, routes |-> NoPins, pins |-> NoPins]
    /\ chain = [p \in Processes |-> <<>>]
    /\ retries = [p \in Processes |-> <<>>]
    /\ cache = [p \in Processes |-> NoSnapshot]
    /\ reads = [p \in Processes |-> {}]
    /\ overlay = [p \in Processes |-> <<>>]
    /\ requests = [p \in Processes |-> {}]
    /\ fate = [p \in Processes |-> [s \in Sessions |-> "live"]]
    /\ using = [p \in Processes |-> NoPins]
    /\ shaken = [p \in Processes |-> {}]
    /\ events = 0

(***************************************************************************)
(* Writes land                                                             *)
(***************************************************************************)
Spend(what) == what \in scene.of /\ events < scene.most /\ events' = events + 1

\* Every write replaces the file: no snapshot and no read is current any more.
Written(next) ==
    /\ file' = next
    /\ cache' = [p \in Processes |-> [cache[p] EXCEPT !.current = FALSE]]
    /\ reads' = [p \in Processes |-> {[r EXCEPT !.current = FALSE] : r \in reads[p]}]

\* Sessions whose pin is dropped, or gives way to one placed earlier
Lost(next) ==
    {s \in Sessions : /\ file.pins[s] # None
                      /\ next.pins[s] = None \/ next.pins[s].assigned < file.pins[s].assigned}

\* In place of its own pin a process finds that pin, or one another process placed no earlier.
Follows(p, pin, found) ==
    /\ found # None
    /\ \/ found.acct = pin.acct /\ found.assigned = pin.assigned
       \/ found.by # p /\ found.assigned >= pin.assigned

\* There is no pin to clear, or a later placement stays as it is: nothing is written.
NothingToWrite(op, next) ==
    /\ next = file
    /\ \/ op.do = "clear"
       \/ op.do = "pin" /\ placedLater(file.pins[op.s], op.pin)

\* The overlay remembers when the pin it holds was written.
Persisted(p, op) ==
    [i \in DOMAIN overlay[p] |->
        IF op.do = "pin" /\ op.newest /\ overlay[p][i].s = op.s
        THEN [overlay[p][i] EXCEPT !.landed = clock] ELSE overlay[p][i]]

Lands(p) ==
    /\ version[p] = "v1" /\ chain[p] # <<>>
    /\ LET op   == Head(chain[p])
           next == writeMergedSidebarState(file, op)
           writes == canWrite(p, op) /\ ~NothingToWrite(op, next)
           left == IF writes THEN next ELSE file
       IN  /\ IF writes THEN Written(next) ELSE UNCHANGED <<file, cache, reads>>
           /\ shaken' = [q \in Processes |-> shaken[q] \cup Lost(left) \cup
                  {s \in Sessions : /\ q = p /\ SameKey(op, "pin", s) /\ op.newest
                                    /\ ~Follows(p, op.pin, left.pins[s])}]
           /\ overlay' = [overlay EXCEPT ![p] = Persisted(p, op)]
           /\ fate' = [fate EXCEPT ![p] = [s \in Sessions |->
                  IF SameKey(op, "remove", s) THEN "gone" ELSE @[s]]]
    /\ chain' = [chain EXCEPT ![p] = Tail(@)]
    /\ UNCHANGED <<host, row, retries, requests, using, events>>

\* The lock is not acquired or the write fails: the queue's newest write under the key is
\* kept for the timer, any other is given up.
Fails(p) ==
    /\ chain[p] # <<>> /\ Spend("failure")
    /\ LET op == Head(chain[p])
       IN  retries' = [retries EXCEPT ![p] =
               IF version[p] = "v1" /\ op.newest /\ op.retried THEN Append(@, op) ELSE @]
    /\ chain' = [chain EXCEPT ![p] = Tail(@)]
    /\ UNCHANGED <<host, row, file, hot, fate, past>>

\* A write of the display is built again when it is retried, for the identity it was
\* first built for.
Again(p, op) ==
    IF op.do = "machine" THEN MachineWrite(p, mayBeEnrolled(p), row[p], op.named) ELSE op

RetryTimer(p) ==
    /\ retries[p] # <<>>
    /\ chain' = [chain EXCEPT ![p] = @ \o [i \in DOMAIN retries[p] |-> Again(p, retries[p][i])]]
    /\ retries' = [retries EXCEPT ![p] = <<>>]
    /\ UNCHANGED <<host, row, file, hot, fate, past, events>>

Queue(p, op) ==
    /\ chain' = [chain EXCEPT ![p] = Enqueue(@, op)]
    /\ retries' = [retries EXCEPT ![p] = Unqueue(@, op)]

(***************************************************************************)
(* The display                                                             *)
(***************************************************************************)
\* writeMachineSidebarState outside the queue: a failure is not retried.
Show(p, op) ==
    /\ chain' = [chain EXCEPT ![p] = Append(@, [op EXCEPT !.newest = FALSE])]
    /\ UNCHANGED retries

\* A reading of the main account arrives: both windows, or the one the provider still
\* reports.  It is pushed by a response, whose token may not name its login, and which
\* may be of an earlier login while nothing of the newer one has come; or a poll's, whose
\* display names no login.
Reading(p) ==
    /\ Spend("reading")
    /\ \E second \in {0, clock}, id \in {0} \cup Max({1, row[p].id})..login.now :
        /\ row' = [row EXCEPT ![p] = [id |-> id, quota |-> [first |-> clock, second |-> second]]]
        /\ LET op == MachineWrite(p, mayBeEnrolled(p), row'[p], id)
           IN  \/ version[p] = "v1" /\ Queue(p, op)
               \/ version[p] = "v1" /\ id = 0 /\ Show(p, op)
               \/ /\ version[p] = "v2"
                  /\ chain' = [chain EXCEPT ![p] = Append(@, [do |-> "publish", s |-> None])]
                  /\ UNCHANGED retries
    /\ UNCHANGED <<host, file, hot, fate, past>>

\* refreshSidebar, the display after a command or a boot seed; or, through the queue, the
\* display after a vault reading
Refresh(p) ==
    /\ version[p] = "v1" /\ Spend("display")
    /\ LET op == MachineWrite(p, mayBeEnrolled(p), row[p], 0)
       IN  \/ Show(p, op)
           \/ mayBeEnrolled(p) /\ Queue(p, op)
    /\ UNCHANGED <<host, row, file, hot, fate, past>>

(***************************************************************************)
(* Requests (OpenCode 1)                                                   *)
(***************************************************************************)
Landed(p, snap) ==
    [cache EXCEPT ![p] = IF @.at <= snap.at THEN snap ELSE @]

\* get: the cached snapshot when the file is unchanged, or a read within the budget, or
\* the snapshot there is while the read goes on.  A read of the unchanged file is shared.
Begin(p, s) ==
    LET same == {r \in reads[p] : r.current}
        read == [pins |-> file.pins, current |-> TRUE,
                 at |-> IF same = {} THEN clock ELSE Max({r.at : r \in same})]
        start(snap) == requests' = [requests EXCEPT ![p] = @ \cup
                           {[s |-> s, pins |-> snap.pins, at |-> snap.at,
                             vault |-> inVault, behind |-> FALSE]}]
    IN  /\ version[p] = "v1" /\ Spend("request")
        /\ fate[p][s] = "live"
        /\ Cardinality(requests[p]) < 2
        /\ authority' = [authority EXCEPT ![p] = enroll]
        /\ \/ /\ cache[p].current
              /\ start(cache[p])
              /\ UNCHANGED <<cache, reads>>
           \/ /\ ~cache[p].current
              /\ start(read)
              /\ cache' = Landed(p, read)
              /\ reads' = [reads EXCEPT ![p] = @ \ same]
           \/ /\ ~cache[p].current
              /\ start(cache[p])
              /\ reads' = [reads EXCEPT ![p] = @ \cup
                               {[at |-> read.at, current |-> TRUE]}]
              /\ UNCHANGED cache
        /\ UNCHANGED <<scene, version, clock, enroll, login, dead, row, file, chain, retries, overlay,
                       fate, past>>

ReadDone(p) ==
    \E r \in reads[p] :
        /\ cache' = Landed(p, [pins |-> file.pins, at |-> r.at, current |-> r.current])
        /\ reads' = [reads EXCEPT ![p] = @ \ {r}]
        /\ UNCHANGED <<host, row, file, chain, retries, overlay, requests, fate, past, events>>

\* onWritten, and the readers that do not wait: a read in the background
Warm(p) ==
    /\ version[p] = "v1" /\ Spend("read")
    /\ ~cache[p].current /\ \A r \in reads[p] : ~r.current
    /\ reads' = [reads EXCEPT ![p] = @ \cup {[at |-> clock, current |-> TRUE]}]
    /\ UNCHANGED <<host, row, file, chain, retries, cache, overlay, requests, fate, past>>

\* Mutant: dropped as soon as the pin is written.
droppedOnceWritten(entry, snap) == entry.landed # 0

\* An entry is dropped once the request holds a snapshot read after the pin was written:
\* from then on the file says where the session is.
seenInFile(entry, snap) == entry.landed # 0 /\ snap.at > entry.landed

applyStickyPinOverlay(snap, entries) ==
    [s \in Sessions |->
        LET own == {i \in DOMAIN entries : entries[i].s = s}
        IN  IF own = {} THEN snap.pins[s] ELSE entries[CHOOSE i \in own : TRUE].pin]

EntriesBut(entries, s) == Only(entries, {e \in Range(entries) : e.s # s})

\* The newest entry last, at most as many as the file's pins
rememberStickyPin(entries, s, pin) ==
    LET kept == Append(EntriesBut(entries, s),
                       [s |-> s, pin |-> pin, landed |-> 0, queued |-> TRUE])
    IN  IF Len(kept) > MaxPins THEN Tail(kept) ELSE kept

Wire(p, acct) == IF acct = "main" THEN login.now ELSE 0

\* stickyAssignmentIsCurrent, but for the metadata
keepsPin(p, pin, valid) ==
    /\ pin # None /\ pin.acct \in valid \ dead
    /\ pin.seen >= clock - PinAge
    /\ ~hasStickyIdentityMismatch(pin, Wire(p, pin.acct))

refreshed(p, pin) ==
    [pin EXCEPT !.wire = IF @ = 0 THEN Wire(p, pin.acct) ELSE @,
                !.seen = IF clock - @ >= Touch THEN clock ELSE @]

\* A current pin is used as it is, and nothing is written.
stickyAssignmentIsCurrent(p, pin, valid) == keepsPin(p, pin, valid) /\ refreshed(p, pin) = pin

\* The pin is kept, or the session placed on the account that was chosen for it.
planSidebarStickyAssignment(p, pin, valid, fresh) ==
    IF keepsPin(p, pin, valid) THEN refreshed(p, pin)
    ELSE [acct |-> fresh, assigned |-> clock, seen |-> clock,
          wire |-> Wire(p, fresh), by |-> p, late |-> FALSE]

PinWrite(r, pin, valid) ==
    [QueuedWrite("pin", r.s, Mode(r.vault)) EXCEPT !.pin = pin, !.roster = valid]

RouteWrite(r, acct) ==
    [QueuedWrite("route", r.s, Mode(r.vault)) EXCEPT
        !.acct = acct, !.at = clock, !.roster = Accounts(r.vault)]

\* The request keeps its pin, with its metadata refreshed, or is placed.  A pin that is
\* new or refreshed is remembered and written in the background, then the route is.
PlaceOn(p, r, valid, fresh) ==
    LET entries == Only(overlay[p], {e \in Range(overlay[p]) : ~seenInFile(e, r)})
        pin     == applyStickyPinOverlay(r, entries)[r.s]
        decided == planSidebarStickyAssignment(p, pin, valid, fresh)
        write   == ~stickyAssignmentIsCurrent(p, pin, valid)
        overtaken(q) == \E i \in DOMAIN overlay[p] :
            LET e == overlay[p][i]
            IN  e.s = q.s /\ seenInFile(e, r) /\ ~seenInFile(e, q)
        noted   == [decided EXCEPT !.by = p, !.late = fate[p][r.s] # "live"]
        route   == RouteWrite(r, decided.acct)
        pinned  == PinWrite(r, noted, valid)
        queued(ops) == IF write THEN Enqueue(ops, pinned) ELSE ops
        left    == IF write THEN rememberStickyPin(entries, r.s, noted) ELSE entries
    IN  /\ keepsPin(p, pin, valid) => fresh = CHOOSE a \in valid \ dead : TRUE
        /\ overlay' = [overlay EXCEPT ![p] = left]
        /\ chain' = [chain EXCEPT ![p] = Enqueue(queued(@), route)]
        /\ retries' = [retries EXCEPT ![p] =
               Unqueue(IF write THEN Unqueue(@, pinned) ELSE @, route)]
        /\ requests' = [requests EXCEPT ![p] =
               {[q EXCEPT !.behind = @ \/ q.s = r.s \/ overtaken(q)] : q \in @ \ {r}}]
        /\ using' = [using EXCEPT ![p][r.s] = decided]
        /\ shaken' = [shaken EXCEPT ![p] = (IF write THEN @ \ {r.s} ELSE @) \cup
               {s \in Sessions :
                    /\ \A i \in DOMAIN left : left[i].s # s
                    /\ \/ \E i \in DOMAIN entries : entries[i].s = s
                       \/ cache[p].at < r.at
                       \/ s = r.s /\ r.behind}]
        /\ UNCHANGED <<host, row, file, cache, reads, fate, events>>

\* The request decides its pin: one that is still valid, or any account it may choose.
Place(p) ==
    \E r \in requests[p] :
    \E valid \in {Accounts(r.vault), Accounts(r.vault) \ dead} :
    \E fresh \in valid \ dead : PlaceOn(p, r, valid, fresh)

\* A request of no session records what serves it for an old display.
Legacy(p) ==
    /\ version[p] = "v1" /\ Spend("request")
    /\ \E acct \in Accounts(inVault) :
           Queue(p, [QueuedWrite("legacy", None, Mode(inVault)) EXCEPT !.acct = acct])
    /\ authority' = [authority EXCEPT ![p] = enroll]
    /\ UNCHANGED <<scene, version, clock, enroll, login, dead, row, file, hot, fate, past>>

(***************************************************************************)
(* Sessions deleted, pins cleared (OpenCode 1)                             *)
(***************************************************************************)
\* Mutant: the pending retry is left.
forgetsOverlay(p, s) ==
    /\ overlay' = [overlay EXCEPT ![p] = EntriesBut(@, s)]
    /\ UNCHANGED retries

\* The process forgets its pin and the write of it, so that neither puts it back.
ForgetPin(p, s) ==
    /\ overlay' = [overlay EXCEPT ![p] = EntriesBut(@, s)]
    /\ retries' = [retries EXCEPT ![p] = Without(@, "pin", s)]

\* session.deleted; the accounts are read before the removal is written.
Delete(p, s) ==
    /\ version[p] = "v1" /\ Spend("deletion")
    /\ fate[p][s] = "live"
    /\ ForgetPin(p, s)
    /\ chain' = [chain EXCEPT ![p] = Forget(@, "pin", s)]
    /\ fate' = [fate EXCEPT ![p][s] = "deleting"]
    /\ using' = [using EXCEPT ![p][s] = None]
    /\ shaken' = [shaken EXCEPT ![p] = @ \cup {s}]
    /\ UNCHANGED <<host, row, file, cache, reads, requests>>

RemoveRoute(p, s) ==
    /\ fate[p][s] = "deleting"
    /\ fate' = [fate EXCEPT ![p][s] = "removing"]
    /\ chain' = [chain EXCEPT ![p] = Append(@,
           [QueuedWrite("remove", s, "any") EXCEPT
               !.newest = FALSE, !.roster = Accounts(inVault)])]
    /\ UNCHANGED <<host, row, file, retries, hot, past, events>>

\* The command that clears the session's pin
Clear(p, s) ==
    /\ version[p] = "v1" /\ Spend("clear")
    /\ ForgetPin(p, s)
    /\ chain' = [chain EXCEPT ![p] = Append(Forget(@, "pin", s),
           [QueuedWrite("clear", s, "any") EXCEPT !.newest = FALSE])]
    /\ using' = [using EXCEPT ![p][s] = None]
    /\ shaken' = [shaken EXCEPT ![p] = @ \cup {s}]
    /\ UNCHANGED <<host, row, file, cache, reads, requests, fate>>

(***************************************************************************)
(* Publications (OpenCode 2)                                               *)
(***************************************************************************)
\* A session's pin is placed, moved or dropped in the process's own SessionPins, or a
\* request is served without one; each is published in order.
Publish(p, s) ==
    /\ version[p] = "v2" /\ Spend("request")
    /\ \E acct \in Accounts(inVault) \cup {NoAccount}, pinned \in BOOLEAN :
        /\ acct = NoAccount => ~pinned
        /\ chain' = [chain EXCEPT ![p] =
               Append(@, [do |-> "publish", s |-> s, acct |-> acct, pinned |-> pinned])]
    /\ UNCHANGED <<host, row, file, retries, hot, fate, past>>

\* writeSidebar reads the authority, the stamp of its files and the accounts
StartPublication(p) ==
    /\ chain[p] # <<>> /\ Head(chain[p]).do = "publish"
    /\ authority' = [authority EXCEPT ![p] = enroll]
    /\ chain' = [chain EXCEPT ![p] =
           <<[MachineWrite(p, inVault, row[p], 0) EXCEPT !.then = Head(chain[p])]>> \o Tail(@)]
    /\ UNCHANGED <<scene, version, clock, enroll, login, dead, row, file, retries, hot, fate, past, events>>

\* Once the display has landed, and while the write may still go on: the pin, placed as of
\* now, and then the route; or the removal of both.
Continue(p, op) ==
    LET job    == op.then
        local  == op.mode = "local"
        alive  == Accounts(~local) \ op.dead
        part(do, accts) == [op EXCEPT !.do = do, !.s = job.s, !.roster = accts]
    IN  IF job.s = None \/ ~canWrite(p, op) THEN <<>>
        ELSE IF job.acct = NoAccount THEN <<part("remove", alive)>>
        ELSE IF op.do = "machine" /\ job.pinned
             THEN <<[part("pin", Accounts(~local)) EXCEPT
                        !.pin = [acct |-> job.acct, assigned |-> clock, seen |-> clock,
                                 wire |-> Wire(p, job.acct), by |-> p, late |-> FALSE]]>>
        ELSE <<[part("route", alive) EXCEPT !.acct = job.acct, !.at = clock]>>

Publishes(p) ==
    /\ version[p] = "v2" /\ chain[p] # <<>> /\ Head(chain[p]).do # "publish"
    /\ LET op   == Head(chain[p])
           next == writeMergedSidebarState(file, op)
           more == IF op.do \in {"machine", "pin"} THEN Continue(p, op) ELSE <<>>
           writes == canWrite(p, op) /\ ~NothingToWrite(op, next)
       IN  /\ IF writes THEN Written(next) ELSE UNCHANGED <<file, cache, reads>>
           /\ shaken' = [q \in Processes |->
                  shaken[q] \cup Lost(IF writes THEN next ELSE file)]
           /\ chain' = [chain EXCEPT ![p] = more \o Tail(@)]
    /\ UNCHANGED <<host, row, retries, overlay, requests, fate, using, events>>

(***************************************************************************)
(* The host                                                                *)
(***************************************************************************)
Tick ==
    /\ Spend("tick") /\ clock' = clock + 1
    /\ UNCHANGED <<scene, version, enroll, authority, login, dead, row, file, chain, retries, hot, fate, past>>

\* The host is enrolled with the vault, or disconnected.
EnrollmentChanges ==
    /\ Spend("enrollment") /\ enroll' = enroll + 1
    /\ UNCHANGED <<scene, version, clock, authority, login, dead, row, file, chain, retries, hot, fate, past>>

\* The vault's poll reads the enrollment files again once they changed.
ReadAuthority(p) ==
    /\ authority[p] # enroll
    /\ authority' = [authority EXCEPT ![p] = enroll]
    /\ UNCHANGED <<scene, version, clock, enroll, login, dead, row, file, chain, retries, hot, fate, past, events>>

\* The main account is logged in to another ChatGPT account.
Login ==
    /\ Spend("login") /\ login' = [login EXCEPT !.now = @ + 1]
    /\ UNCHANGED <<scene, version, clock, enroll, authority, dead, row, file, chain, retries, hot, fate, past>>

\* The auth loader of a process runs, outside vault mode: the account file names the login
\* of the live token.
NameLogin ==
    /\ login.stored # login.now /\ ~inVault
    /\ login' = [login EXCEPT !.stored = login.now]
    /\ UNCHANGED <<scene, version, clock, enroll, authority, dead, row, file, chain, retries, hot, fate,
                   past, events>>

Killswitch(a) ==
    /\ Spend("killswitch")
    /\ dead' = IF a \in dead THEN dead \ {a} ELSE dead \cup {a}
    /\ UNCHANGED <<scene, version, clock, enroll, authority, login, row, file, chain, retries, hot, fate, past>>

\* The loader runs again: a new queue and a new cache; writes already started still run,
\* and the pins of the process stay.
LoaderRestarts(p) ==
    /\ version[p] = "v1" /\ Spend("reload")
    /\ chain' = [chain EXCEPT ![p] = [i \in DOMAIN @ |-> [@[i] EXCEPT !.retried = FALSE]]]
    /\ retries' = [retries EXCEPT ![p] = <<>>]
    /\ cache' = [cache EXCEPT ![p] = NoSnapshot]
    /\ reads' = [reads EXCEPT ![p] = {}]
    /\ overlay' = [overlay EXCEPT ![p] = [i \in DOMAIN @ |-> [@[i] EXCEPT !.queued = FALSE]]]
    /\ using' = [using EXCEPT ![p] = [s \in Sessions |->
           IF \E i \in DOMAIN overlay[p] : overlay[p][i].s = s THEN @[s] ELSE None]]
    /\ UNCHANGED <<host, row, file, requests, fate, shaken>>

\* The process ends, and another starts: what was queued is lost.
Exit(p) ==
    /\ Spend("exit")
    /\ chain' = [chain EXCEPT ![p] = <<>>]
    /\ retries' = [retries EXCEPT ![p] = <<>>]
    /\ cache' = [cache EXCEPT ![p] = NoSnapshot]
    /\ reads' = [reads EXCEPT ![p] = {}]
    /\ overlay' = [overlay EXCEPT ![p] = <<>>]
    /\ requests' = [requests EXCEPT ![p] = {}]
    /\ row' = [row EXCEPT ![p] = [id |-> 0, quota |-> None]]
    /\ using' = [using EXCEPT ![p] = NoPins]
    /\ UNCHANGED <<host, file, fate, shaken>>

SidebarNext ==
    \/ \E p \in Processes : Lands(p)
    \/ \E p \in Processes : Fails(p)
    \/ \E p \in Processes : RetryTimer(p)
    \/ \E p \in Processes : Reading(p)
    \/ \E p \in Processes : Refresh(p)
    \/ \E p \in Processes, s \in Sessions : Begin(p, s)
    \/ \E p \in Processes : ReadDone(p)
    \/ \E p \in Processes : Warm(p)
    \/ \E p \in Processes : Place(p)
    \/ \E p \in Processes : Legacy(p)
    \/ \E p \in Processes, s \in Sessions : Delete(p, s)
    \/ \E p \in Processes, s \in Sessions : RemoveRoute(p, s)
    \/ \E p \in Processes, s \in Sessions : Clear(p, s)
    \/ \E p \in Processes, s \in Sessions : Publish(p, s)
    \/ \E p \in Processes : StartPublication(p)
    \/ \E p \in Processes : Publishes(p)
    \/ Tick
    \/ EnrollmentChanges
    \/ \E p \in Processes : ReadAuthority(p)
    \/ Login
    \/ NameLogin
    \/ \E a \in Locals \cup Vaults : Killswitch(a)
    \/ \E p \in Processes : LoaderRestarts(p)
    \/ \E p \in Processes : Exit(p)

SidebarSpec == SidebarInit /\ [][SidebarNext]_sidebarVars

(***************************************************************************)
(* Properties                                                              *)
(***************************************************************************)
\* A session keeps its account.  A request that began after its process last sent the
\* session with a pin uses that account again as long as the account may serve, unless the
\* pin was lost since (shaken), it expired, another login took the account's slot, or the
\* request goes by a snapshot in which another process placed the session no earlier
\* (sidebar-state.ts: the overlay, the cache and persistSidebarStickyAssignment together).
SessionKeepsPin ==
    [][\A p \in Processes, r \in UNION {requests[q] : q \in Processes} :
          LET old == using[p][r.s]
              new == using'[p][r.s]
          IN  (/\ r \in requests[p] /\ r \notin requests'[p] /\ requests'[p] \subseteq requests[p] )
              => \/ old = None \/ new = None \/ r.behind \/ r.s \in shaken[p]
                 \/ new.acct = old.acct
                 \/ old.acct \notin Accounts(r.vault) \ dead
                 \/ old.seen < clock - PinAge
                 \/ hasStickyIdentityMismatch(old, Wire(p, old.acct))
                 \/ /\ \A e \in Range(overlay[p]) : e.s = r.s => seenInFile(e, r)
                    /\ r.pins[r.s] # None /\ r.pins[r.s].by # p
                    /\ r.pins[r.s].assigned >= old.assigned]_sidebarVars

\* Once the removal of a deleted session has landed, no pin its process placed before is
\* in the file again (index.ts, session.deleted).
DeletedPinStaysGone ==
    \A p \in Processes, s \in Sessions :
        /\ fate[p][s] = "gone"
        /\ file.pins[s] # None /\ file.pins[s].by = p
        => file.pins[s].late

Windows == {"first", "second"}
Pairings(main) ==
    IF main.quota = None THEN {} ELSE {<<main.id, k, main.quota[k]>> : k \in Windows}

\* No window is shown under an identity that neither the file nor this display had it
\* under, and the newest reading of the account is not lost for an older one.  While the
\* identity is the same no window goes back, and one that the newer reading lacks stays away.
KeepsReadings(was, brought, shown) ==
    /\ Pairings(shown) \subseteq Pairings(was) \cup Pairings(brought)
    /\ latestQuotaCheckedAt(shown.quota) >= latestQuotaCheckedAt(was.quota)
    /\ was.id # 0 /\ shown.id = was.id /\ was.quota # None =>
           \A k \in Windows :
               /\ shown.quota[k] = 0 \/ shown.quota[k] >= was.quota[k]
               /\ was.quota[k] = 0
                      /\ latestQuotaCheckedAt(brought.quota) < latestQuotaCheckedAt(was.quota)
                  => shown.quota[k] = 0

\* What the file shows of the main account is changed by displays only, however late that
\* of a slower process lands and whichever login it is about, and keeps what it showed
\* (setSidebarMachineState, mergeQuotaByWindow).
MergeKeepsReadings ==
    [][file'.main # file.main /\ ~file'.vault =>
           \E p \in Processes :
               /\ chain[p] # <<>> /\ Head(chain[p]).do = "machine"
               /\ KeepsReadings(file.main, Head(chain[p]).row, file'.main)]_sidebarVars

\* A file that shows the vault's accounts holds no record of a local one, whichever writer
\* of whichever mode wrote last, and no pin on a vault account it shows as killed; and
\* what a session is shown with is an account of the file's mode, also when records of
\* the other mode are still there (writeMergedSidebarState, resolveSessionSidebarRouting).
FileIsOfOneMode ==
    /\ file.vault =>
           /\ file.active \in Vaults \cup {NoAccount}
           /\ \A s \in Sessions :
                  /\ file.routes[s] # None => file.routes[s].acct \in Vaults
                  /\ file.pins[s] # None => file.pins[s].acct \in Vaults \ file.dead
    /\ \A s \in Sessions :
           resolveSessionSidebarRouting(file, s)
               \subseteq IF file.vault THEN Vaults \cup {"vault"} ELSE Locals

\* A pin this process uses but has not written is on its way: a write of it is queued or
\* waits for its retry, until the loader restarts (createSidebarBookkeepingQueue).
PinIsOnItsWay ==
    \A p \in Processes : \A i \in DOMAIN overlay[p] :
        overlay[p][i].landed = 0 /\ overlay[p][i].queued
        => \E op \in Range(chain[p]) \cup Range(retries[p]) :
               SameKey(op, "pin", overlay[p][i].s) /\ op.newest /\ op.pin = overlay[p][i].pin

\* Neither a lost nor a late write leaves the file with pins nobody asked for, or without
\* one this process goes by (createSidebarBookkeepingQueue, removeSidebarSession).
PinsAreAsAsked == DeletedPinStaysGone /\ PinIsOnItsWay
=============================================================================
