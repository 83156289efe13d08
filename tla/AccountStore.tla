---------------------------- MODULE AccountStore ----------------------------
(* The legacy account store of packages/core/src/accounts.ts: a config file  *)
(* with the roster of accounts, a state file with their secrets, one lock    *)
(* for each, and the operations that read and write them:                    *)
(*   - mutateAccounts, the authoritative read-modify-write;                  *)
(*   - saveAccounts, the union of a snapshot with what is on disk;           *)
(*   - saveAccountState, the merge of a snapshot into the state file alone;  *)
(*   - migrateIfNeeded, the first write of a store;                          *)
(*   - loadAccounts, which reads the two files without a lock, one after the *)
(*     other;                                                                *)
(* and the FallbackAccountManager on top of them: its background pass, the   *)
(* selection of a request with its bookkeeping, markUsed, and the refresh of *)
(* a row under a file lock of its own.                                       *)
(*                                                                           *)
(* A task is one call of one of these operations in one process. A behaviour *)
(* is an interleaving of the calls of a few tasks. A row's refresh token is  *)
(* its generation: the provider accepts the latest one, and answering it     *)
(* makes the next. lastRefreshedAt and expires grow with the generation.     *)
EXTENDS Naturals, FiniteSets

CONSTANTS
    Rows,        \* account ids
    Tasks,       \* calls in a behaviour
    Procs,       \* processes that share the files
    Home,        \* the process of a task
    Scenes,      \* the operations the tasks of a behaviour run: [Tasks -> Kinds]
    OldRow,      \* the row of the store that is there when a behaviour starts
    MaxGen,      \* bound: latest generation of a refresh token
    MaxMishaps,  \* bound: crashes, writes withheld by canWrite, lock waits that
                 \* time out and provider failures, together
    MaxPolls     \* bound: reads of a task that waits for another's refresh

Kinds == {"pass", "select", "used", "keep", "clear", "add", "remove", "union",
          "migrate"}

None == "none"

\* A row the state file has nothing for.
NoEntry == [gen |-> 0, err |-> FALSE]

\* What the state file holds for a row: the token and whether a failed
\* refresh of that token has left a backoff (lastRefreshError).
Entries == [gen : 1 .. MaxGen, err : BOOLEAN]
Storages == [Rows -> Entries \cup {NoEntry}]
EmptyStorage == [r \in Rows |-> NoEntry]

ASSUME StoreConstants ==
    /\ Home \in [Tasks -> Procs]
    /\ Scenes \subseteq [Tasks -> Kinds]
    /\ OldRow \in Rows
    /\ None \notin Tasks

ASSUME BoundsAssumption == MaxGen \in Nat \ {0} /\ MaxMishaps \in Nat /\ MaxPolls \in Nat

VARIABLES
    store,     \* whether the config file is an account store
    roster,    \* the ids in the config file
    state,     \* the accounts of the state file
    cfgLock,   \* holder of the config file's save lock, or None
    stLock,    \* holder of the state file's save lock, or None
    rowLock,   \* holder of each row's refresh lock, or None
    job,       \* the operation of each task
    task,      \* where each task is
    cur,       \* the provider: latest generation of each row's token
    due,       \* tokens up to this generation are about to expire
    unsaved,   \* history: rows whose latest token is not, or no longer, stored
    sentSpent, \* history: rows whose spent token was sent without such a loss
    mishaps    \* how many of those there were

files == <<store, roster, state>>
locks == <<cfgLock, stLock, rowLock>>
provider == <<cur, due, unsaved, sentSpent>>
vars == <<files, locks, job, task, provider, mishaps>>

Phases == {"ready", "load", "each", "join", "first", "locked", "poll", "send",
           "save", "merge", "final", "config", "both", "write", "state", "done"}

\* A task: its phase, how far a load has come, the row in hand and as the loop
\* saw it (account), the rows left, the roster and the storage the last load
\* read, the storage the caller holds (storage), whether a save belongs to a
\* refresh, whether the loop changed anything, the reads left of a wait.
Tasklets ==
    [phase : Phases, step : {"config", "state", "read"}, row : Rows,
     account : Entries \cup {NoEntry}, rest : SUBSET Rows, seen : SUBSET Rows,
     read : Storages, storage : Storages, refreshing : BOOLEAN,
     changed : BOOLEAN, polls : 0 .. MaxPolls]

Fresh ==
    [phase |-> "ready", step |-> "config", row |-> OldRow, account |-> NoEntry,
     rest |-> {}, seen |-> {}, read |-> EmptyStorage, storage |-> EmptyStorage,
     refreshing |-> FALSE, changed |-> FALSE, polls |-> 0]

\* The type of every variable.
TypeOK ==
    /\ store \in BOOLEAN
    /\ roster \subseteq Rows
    /\ state \in Storages
    /\ cfgLock \in Tasks \cup {None}
    /\ stLock \in Tasks \cup {None}
    /\ rowLock \in [Rows -> Tasks \cup {None}]
    /\ job \in [Tasks -> Kinds]
    /\ task \in [Tasks -> Tasklets]
    /\ cur \in [Rows -> 0 .. MaxGen]
    /\ due \in [Rows -> 0 .. MaxGen]
    /\ unsaved \subseteq Rows
    /\ sentSpent \subseteq Rows
    /\ mishaps \in 0 .. MaxMishaps

-----------------------------------------------------------------------------
(* Reading and merging                                                       *)

Held(s) == {r \in Rows : s[r] # NoEntry}

\* mergeConfigAndState: what the state file has on each row of the roster.
mergeConfigAndState(ids, s) == [r \in ids |-> s[r]]

\* normalizeAccount: a row without its secrets is none.
normalizeAccount(accounts, r) ==
    IF r \in DOMAIN accounts THEN accounts[r] ELSE NoEntry

\* normalizeStorage: the rows that load.
normalizeStorage(accounts) == [r \in Rows |-> normalizeAccount(accounts, r)]

\* selectSameTokenState: of two copies of one token, the one with the backoff.
selectSameTokenState(existing, incoming) ==
    IF incoming.err THEN incoming ELSE existing

\* applyNewerTokenState: the credential comes from the later refresh.
applyNewerTokenState(existing, incoming) ==
    IF incoming.gen > existing.gen THEN incoming
    ELSE IF existing.gen > incoming.gen THEN existing
    ELSE selectSameTokenState(existing, incoming)

mergeAccountRuntimeState(existing, incoming) ==
    IF existing = NoEntry THEN incoming ELSE applyNewerTokenState(existing, incoming)

\* Mutant: a full save writes the credential of its snapshot.
keepsSnapshot(onDisk, incoming) == incoming

keepNewerCredential(onDisk, incoming) == applyNewerTokenState(onDisk, incoming)

\* mergeStorageForSave: the union, with the newer credential of each row.
mergeStorageForSave(latest, incoming) ==
    [r \in Rows |->
        IF latest[r] = NoEntry THEN incoming[r]
        ELSE IF incoming[r] = NoEntry THEN latest[r]
        ELSE keepNewerCredential(latest[r], incoming[r])]

\* Mutant: what did not load is not written back.
forgetsUnloaded(ids, loaded, allowDrop) == {}

\* buildPreservedAdditions: the ids of the raw config that did not load and
\* that the caller does not remove.
buildPreservedAdditions(ids, loaded, allowDrop) == (ids \ loaded) \ allowDrop

\* The roster as saveAccountState reads it. A config file without one keeps
\* every row.
readConfigRosterIds == IF store THEN roster ELSE Rows

\* Mutant: the snapshot's rows are merged without a look at the roster.
savesWholeSnapshot(existing, incoming, ids) ==
    [r \in Rows |->
        IF r \in ids /\ incoming[r] # NoEntry
        THEN mergeAccountRuntimeState(existing[r], incoming[r])
        ELSE existing[r]]

\* saveAccountState on the rows `ids` of a snapshot: merge the rows the roster
\* lists, then prune what it does not list. Without a roster, merge only.
SavedState(existing, incoming, ids) ==
    LET kept == readConfigRosterIds
    IN  [r \in Rows |->
            IF r \notin kept THEN NoEntry
            ELSE IF r \in ids /\ incoming[r] # NoEntry
                 THEN mergeAccountRuntimeState(existing[r], incoming[r])
            ELSE existing[r]]

\* tokenNeedsRefresh
tokenNeedsRefresh(r, entry) == entry.gen <= due[r]

-----------------------------------------------------------------------------
(* Steps shared by the operations                                            *)

Is(t, p) == task[t].phase = p
Loaded(t, p) == Is(t, p) /\ task[t].step = "read"

\* Task t goes on at phase p, which starts with a load if it reads the store.
At(t, p) == [task[t] EXCEPT !.phase = p, !.step = "config"]
Goto(t, p) == task' = [task EXCEPT ![t] = At(t, p)]

Loads == {"load", "first", "locked", "poll", "final"}

\* loadAccounts: the config file, then the state file, no lock on either.
ReadConfig(t) ==
    /\ task[t].phase \in Loads
    /\ task[t].step = "config"
    /\ task' = [task EXCEPT ![t].step = "state", ![t].seen = roster]
    /\ UNCHANGED <<files, locks, job, provider, mishaps>>

ReadState(t) ==
    /\ task[t].step = "state"
    /\ task' = [task EXCEPT ![t].step = "read",
                            ![t].read =
                normalizeStorage(mergeConfigAndState(task[t].seen, state))]
    /\ UNCHANGED <<files, locks, job, provider, mishaps>>

\* Something goes wrong. acquireSaveAccountsLock for one gives up after its
\* deadline, whether a writer held the lock all along or the event loop was
\* too busy to try.
Mishap == mishaps < MaxMishaps /\ mishaps' = mishaps + 1

\* An operation starts: on a row of its own where it has one.
Start(t) ==
    /\ Is(t, "ready")
    /\ \E r \in Rows :
          /\ job[t] \in {"pass", "select", "keep", "union", "migrate"} => r = OldRow
          /\ task' = [task EXCEPT
                ![t] = [At(t, IF job[t] \in {"pass", "select", "used", "union"}
                              THEN "load"
                              ELSE IF job[t] = "migrate" /\ store THEN "done"
                              ELSE "config") EXCEPT !.row = r]]
    /\ UNCHANGED <<files, locks, job, provider, mishaps>>

-----------------------------------------------------------------------------
(* Refreshing a row                                                          *)

Refreshing == {"first", "locked", "poll", "send", "final"}

\* refreshPromises: the call of this process that refreshes the row already.
InFlight(t, r) ==
    \E x \in Tasks \ {t} :
        /\ Home[x] = Home[t]
        /\ task[x].row = r
        /\ task[x].phase \in Refreshing \/ task[x].refreshing

\* The loop of refreshDueAccounts or getUsableFallbackAccounts takes a row: it
\* passes over one that is not due or whose backoff is still active.
NextRow(t) ==
    /\ Is(t, "each")
    /\ \E r \in task[t].rest :
         LET entry == task[t].storage[r]
             here == [At(t, IF InFlight(t, r) THEN "join" ELSE "first")
                        EXCEPT !.row = r, !.account = entry]
         IN  \/ /\ ~tokenNeedsRefresh(r, entry) \/ entry.err
                /\ task' = [task EXCEPT ![t].rest = @ \ {r}]
             \/ /\ tokenNeedsRefresh(r, entry)
                /\ task' = [task EXCEPT ![t] = here]
    /\ UNCHANGED <<files, locks, job, provider, mishaps>>

\* The loop is over: what it changed is saved.
LoopEnds(t) ==
    /\ Is(t, "each")
    /\ task[t].rest = {}
    /\ Goto(t, IF task[t].changed THEN "save" ELSE "done")
    /\ UNCHANGED <<files, locks, job, provider, mishaps>>

\* A refresh that ended, seen from the loop that asked for it. After a failure
\* the background pass puts the row back as it saw it, with a backoff; the
\* selection marks the row the storage holds by then, and leaves a removed row.
Resumed(x, outcome, entry) ==
    LET storage == task[x].storage
        r == task[x].row
        failed == IF job[x] = "pass" THEN task[x].account ELSE entry
        back == [At(x, "each") EXCEPT !.rest = @ \ {r}, !.refreshing = FALSE]
    IN  IF outcome = "ok"
        THEN [back EXCEPT !.storage[r] = entry, !.changed = TRUE]
        ELSE IF outcome = "removed" /\ job[x] = "select" THEN back
        ELSE [back EXCEPT !.storage[r] = [failed EXCEPT !.err = TRUE],
                          !.changed = TRUE]

\* The promise of t's refresh settles for t and for the calls that joined it.
Settle(t, outcome, entry) ==
    LET joined(x) == /\ task[x].phase = "join"
                     /\ task[x].row = task[t].row
                     /\ Home[x] = Home[t]
    IN  /\ task' = [x \in Tasks |->
              IF x = t THEN Resumed(t, outcome, entry)
              ELSE IF joined(x)
                   THEN Resumed(x, outcome, IF outcome = "ok" THEN entry
                                            ELSE task[x].storage[task[x].row])
              ELSE task[x]]
        /\ rowLock' = [r \in Rows |-> IF rowLock[r] = t THEN None ELSE rowLock[r]]

\* Mutant: the holder of the row's lock sends the token it read before.
SendsFirstRead(t) ==
    LET r == task[t].row
        latest == task[t].read[r]
    IN  /\ Loaded(t, "first")
        /\ IF latest # NoEntry /\ ~tokenNeedsRefresh(r, latest)
           THEN Settle(t, "ok", latest)
           ELSE IF latest # NoEntry /\ rowLock[r] = None
           THEN Goto(t, "send") /\ rowLock' = [rowLock EXCEPT ![r] = t]
           ELSE Settle(t, "failed", task[t].storage[r])
        /\ UNCHANGED <<files, cfgLock, stLock, job, provider, mishaps>>

\* refreshAccountNow read the row without a lock: it needs no refresh, or the
\* row's file lock is tried, and another holder waited for.
FirstRead(t) ==
    LET r == task[t].row
        latest == task[t].read[r]
    IN  /\ Loaded(t, "first")
        /\ \/ /\ latest # NoEntry /\ ~tokenNeedsRefresh(r, latest)
              /\ Settle(t, "ok", latest)
           \/ /\ latest = NoEntry \/ tokenNeedsRefresh(r, latest)
              /\ rowLock[r] = None
              /\ rowLock' = [rowLock EXCEPT ![r] = t]
              /\ Goto(t, "locked")
           \/ /\ latest = NoEntry \/ tokenNeedsRefresh(r, latest)
              /\ rowLock[r] # None
              /\ task' = [task EXCEPT ![t] = [At(t, "poll") EXCEPT !.polls = MaxPolls]]
              /\ UNCHANGED rowLock
        /\ UNCHANGED <<files, cfgLock, stLock, job, provider, mishaps>>

\* waitForConcurrentFallbackRefresh: another's result, another's failure, one
\* more read, or the deadline.
Poll(t) ==
    LET r == task[t].row
        latest == task[t].read[r]
        renewed == latest # NoEntry /\ ~tokenNeedsRefresh(r, latest)
        refused == latest # NoEntry /\ latest.err
    IN  /\ Loaded(t, "poll")
        /\ \/ renewed /\ Settle(t, "ok", latest)
           \/ ~renewed /\ refused /\ Settle(t, "failed", latest)
           \/ /\ ~renewed /\ task[t].polls > 0
              /\ task' = [task EXCEPT ![t] = [At(t, "poll") EXCEPT !.polls = @ - 1]]
              /\ UNCHANGED rowLock
           \/ /\ ~renewed /\ task[t].polls = 0
              /\ Settle(t, "failed", task[t].storage[r])
        /\ UNCHANGED <<files, cfgLock, stLock, job, provider, mishaps>>

\* The row as the holder of its lock reads it decides.
LockedRead(t) ==
    LET r == task[t].row
        latest == task[t].read[r]
    IN  /\ Loaded(t, "locked")
        /\ \/ latest = NoEntry /\ Settle(t, "removed", task[t].storage[r])
           \/ /\ latest # NoEntry /\ ~tokenNeedsRefresh(r, latest)
              /\ Settle(t, "ok", latest)
           \/ /\ latest # NoEntry /\ tokenNeedsRefresh(r, latest)
              /\ Goto(t, "send")
              /\ UNCHANGED rowLock
        /\ UNCHANGED <<files, cfgLock, stLock, job, provider, mishaps>>

\* The provider rotates the latest token; the answer goes into the storage of
\* the caller, which is then saved.
Send(t) ==
    LET r == task[t].row
        sent == task[t].read[r].gen
    IN  /\ Is(t, "send")
        /\ \/ /\ sent = cur[r]
              /\ cur' = [cur EXCEPT ![r] = @ + 1]
              /\ task' = [task EXCEPT ![t] =
                    [At(t, "save") EXCEPT
                        !.storage[r] = [gen |-> cur[r] + 1, err |-> FALSE],
                        !.refreshing = TRUE]]
              /\ UNCHANGED <<rowLock, sentSpent>>
           \/ /\ sent # cur[r]
              /\ sentSpent' = IF r \in unsaved THEN sentSpent ELSE sentSpent \cup {r}
              /\ Settle(t, "failed", task[t].storage[r])
              /\ UNCHANGED cur
        /\ UNCHANGED <<files, cfgLock, stLock, job, due, unsaved, mishaps>>

SendFails(t) ==
    /\ Is(t, "send")
    /\ Mishap
    /\ Settle(t, "failed", task[t].storage[task[t].row])
    /\ UNCHANGED <<files, cfgLock, stLock, job, provider>>

\* The store read back after the save: a row that went away meanwhile has no
\* credential to hand out.
FinalRead(t) ==
    LET r == task[t].row
    IN  /\ Loaded(t, "final")
        /\ Settle(t, IF r \in task[t].seen /\ task[t].read[r] # NoEntry THEN "ok"
                     ELSE "removed", task[t].storage[r])
        /\ UNCHANGED <<files, cfgLock, stLock, job, provider, mishaps>>

-----------------------------------------------------------------------------
(* saveAccountState: the state file's lock only                              *)

SaveLocks(t) ==
    /\ Is(t, "save")
    /\ stLock = None
    /\ stLock' = t
    /\ Goto(t, "merge")
    /\ UNCHANGED <<files, cfgLock, rowLock, job, provider, mishaps>>

\* After its save a refresh reads the store back; a background save just ends.
Saved(t) == Goto(t, IF task[t].refreshing THEN "final" ELSE "done")

SaveWrites(t) ==
    LET r == task[t].row
        ids == IF job[t] = "used" THEN {r} ELSE Rows
    IN  /\ Is(t, "merge")
        /\ state' = SavedState(state, task[t].storage, ids)
        /\ stLock' = None
        /\ Saved(t)
        /\ unsaved' = IF task[t].refreshing /\ r \notin roster
                      THEN unsaved \cup {r} ELSE unsaved
        /\ UNCHANGED <<store, roster, cfgLock, rowLock, job, cur, due, sentSpent,
                       mishaps>>

\* canWrite turned false while the save waited: it ends without writing.
SaveWithheld(t) ==
    /\ Is(t, "merge")
    /\ Mishap
    /\ stLock' = None
    /\ Saved(t)
    /\ unsaved' = IF task[t].refreshing THEN unsaved \cup {task[t].row} ELSE unsaved
    /\ UNCHANGED <<files, cfgLock, rowLock, job, cur, due, sentSpent>>

\* The wait for the lock ends: a refresh fails with it, and what it was given
\* stays in the caller's storage at most.
SaveTimesOut(t) ==
    /\ Is(t, "save")
    /\ Mishap
    /\ \/ /\ task[t].refreshing
          /\ unsaved' = unsaved \cup {task[t].row}
          /\ Settle(t, "failed", task[t].storage[task[t].row])
       \/ /\ ~task[t].refreshing
          /\ Goto(t, "done")
          /\ UNCHANGED <<rowLock, unsaved>>
    /\ UNCHANGED <<files, cfgLock, stLock, job, cur, due, sentSpent>>

-----------------------------------------------------------------------------
(* What the first load of an operation leads to                              *)

LoopBegins(t) ==
    /\ Loaded(t, "load")
    /\ job[t] \in {"pass", "select"}
    /\ task' = [task EXCEPT ![t] =
          [At(t, "each") EXCEPT !.storage = task[t].read,
                                !.rest = Held(task[t].read)]]
    /\ UNCHANGED <<files, locks, job, provider, mishaps>>

\* markUsed saves the row it stamps, a union the snapshot it was given.
SnapshotTaken(t) ==
    /\ Loaded(t, "load")
    /\ job[t] \in {"used", "union"}
    /\ task' = [task EXCEPT ![t] =
          [At(t, IF job[t] = "union" THEN "config"
                 ELSE IF task[t].read[task[t].row] = NoEntry THEN "done" ELSE "save")
             EXCEPT !.storage = task[t].read]]
    /\ UNCHANGED <<files, locks, job, provider, mishaps>>

-----------------------------------------------------------------------------
(* mutateAccounts, saveAccounts, migrateIfNeeded: the config file's lock,    *)
(* then the state file's                                                     *)

LockConfig(t) ==
    /\ Is(t, "config")
    /\ cfgLock = None
    /\ cfgLock' = t
    /\ Goto(t, "both")
    /\ UNCHANGED <<files, stLock, rowLock, job, provider, mishaps>>

LockState(t) ==
    /\ Is(t, "both")
    /\ stLock = None
    /\ stLock' = t
    /\ Goto(t, "write")
    /\ UNCHANGED <<files, cfgLock, rowLock, job, provider, mishaps>>

\* The locks of t are released and it ends.
Leave(t) ==
    /\ cfgLock' = IF cfgLock = t THEN None ELSE cfgLock
    /\ stLock' = IF stLock = t THEN None ELSE stLock
    /\ Goto(t, "done")

LockTimesOut(t) ==
    /\ task[t].phase \in {"config", "both"}
    /\ Mishap
    /\ Leave(t)
    /\ UNCHANGED <<files, rowLock, job, provider>>

\* A login adds a row whose id is new, or whose secrets never got to the disk.
Addable(r) == cur[r] < MaxGen /\ state[r] = NoEntry /\ (r \in roster \/ cur[r] = 0)

current == normalizeStorage(mergeConfigAndState(roster, state))

\* The config file is written with the rows of `next` and those carried over
\* because they did not load; the state file comes next.
WriteConfig(t, next, allowDrop) ==
    /\ store' = TRUE
    /\ roster' = Held(next)
                   \cup buildPreservedAdditions(roster, Held(current), allowDrop)
    /\ task' = [task EXCEPT ![t] = [At(t, "state") EXCEPT !.storage = next]]
    /\ unsaved' = unsaved \cup (roster \ roster')
    /\ UNCHANGED <<state, locks, job, due, sentSpent, mishaps>>

\* What the mutator makes of the store read under both locks.
Mutated(t) ==
    LET r == task[t].row
    IN  CASE job[t] = "add" /\ Addable(r) ->
               [current EXCEPT ![r] = [gen |-> cur[r] + 1, err |-> FALSE]]
          [] job[t] = "remove" -> [current EXCEPT ![r] = NoEntry]
          [] job[t] = "clear" /\ current[r] # NoEntry ->
               [current EXCEPT ![r].err = FALSE]
          [] OTHER -> current

mutateAccounts(t) ==
    LET r == task[t].row
    IN  /\ Is(t, "write")
        /\ job[t] \in {"keep", "clear", "add", "remove"}
        /\ WriteConfig(t, Mutated(t), IF job[t] = "remove" THEN {r} ELSE {})
        /\ cur' = [cur EXCEPT ![r] = IF job[t] = "add" /\ Addable(r) THEN @ + 1 ELSE @]

saveAccounts(t) ==
    /\ Is(t, "write")
    /\ job[t] = "union"
    /\ WriteConfig(t, mergeStorageForSave(current, task[t].storage), {})
    /\ UNCHANGED cur

\* migrateIfNeeded looks again under the locks: somebody may have made the store.
migrateIfNeeded(t) ==
    /\ Is(t, "write")
    /\ job[t] = "migrate"
    /\ \/ /\ ~store
          /\ WriteConfig(t, EmptyStorage, {})
          /\ UNCHANGED cur
       \/ /\ store
          /\ Leave(t)
          /\ UNCHANGED <<files, rowLock, job, provider, mishaps>>

\* Then the state file, and the locks are released.
WriteState(t) ==
    /\ Is(t, "state")
    /\ state' = task[t].storage
    /\ Leave(t)
    /\ UNCHANGED <<store, roster, rowLock, job, provider, mishaps>>

\* canWrite turned false before the first write or between the two.
EditWithheld(t) ==
    /\ task[t].phase \in {"write", "state"}
    /\ Mishap
    /\ Leave(t)
    /\ UNCHANGED <<files, rowLock, job, provider>>

-----------------------------------------------------------------------------
(* Environment                                                               *)

\* Time passes: the row's latest token is about to expire.
Age(r) ==
    /\ due[r] < cur[r] /\ cur[r] < MaxGen
    /\ due' = [due EXCEPT ![r] = cur[r]]
    /\ UNCHANGED <<files, locks, job, task, cur, unsaved, sentSpent, mishaps>>

\* A process dies at any step; the locks it held are reclaimed.
Crash(p) ==
    LET dead == {x \in Tasks : Home[x] = p}
        freed(lock) == IF lock \in dead THEN None ELSE lock
        held == {x \in dead : task[x].refreshing /\ task[x].phase \in {"save", "merge"}}
    IN  /\ Mishap
        /\ \E x \in dead : task[x].phase # "done"
        /\ task' = [x \in Tasks |-> IF x \in dead THEN [Fresh EXCEPT !.phase = "done"]
                                    ELSE task[x]]
        /\ cfgLock' = freed(cfgLock)
        /\ stLock' = freed(stLock)
        /\ rowLock' = [r \in Rows |-> freed(rowLock[r])]
        /\ unsaved' = unsaved \cup {task[x].row : x \in held}
        /\ UNCHANGED <<files, job, cur, due, sentSpent>>

AllDone ==
    /\ \A t \in Tasks : Is(t, "done")
    /\ UNCHANGED vars

-----------------------------------------------------------------------------

\* A store with one row, or, where a migration runs, settings only.
Init ==
    /\ job \in Scenes
    /\ store = (\A t \in Tasks : job[t] # "migrate")
    /\ roster = IF store THEN {OldRow} ELSE {}
    /\ state = [r \in Rows |-> IF r \in roster THEN [gen |-> 1, err |-> FALSE] ELSE NoEntry]
    /\ cfgLock = None /\ stLock = None /\ rowLock = [r \in Rows |-> None]
    /\ task = [t \in Tasks |-> Fresh]
    /\ cur = [r \in Rows |-> IF r \in roster THEN 1 ELSE 0]
    /\ due = [r \in Rows |-> 0]
    /\ unsaved = {} /\ sentSpent = {}
    /\ mishaps = 0

Next ==
    \/ \E t \in Tasks :
        \/ Start(t) \/ ReadConfig(t) \/ ReadState(t)
        \/ LoopBegins(t) \/ NextRow(t) \/ LoopEnds(t) \/ SnapshotTaken(t)
        \/ FirstRead(t) \/ Poll(t) \/ LockedRead(t) \/ Send(t) \/ SendFails(t)
        \/ FinalRead(t)
        \/ SaveLocks(t) \/ SaveWrites(t) \/ SaveWithheld(t) \/ SaveTimesOut(t)
        \/ LockConfig(t) \/ LockState(t) \/ LockTimesOut(t)
        \/ mutateAccounts(t) \/ saveAccounts(t) \/ migrateIfNeeded(t)
        \/ WriteState(t) \/ EditWithheld(t)
    \/ \E r \in Rows : Age(r)
    \/ \E p \in Procs : Crash(p)
    \/ AllDone

Spec == Init /\ [][Next]_vars

-----------------------------------------------------------------------------
(* Properties                                                                *)

\* A write never puts back an older token of a stored row, whatever snapshot it was
\* made from, and never takes the backoff off the token it belongs to unless
\* the doctor clears it. keepNewerCredential: "writing the snapshot's token
\* back would restore a refresh token the provider has already spent".
CredentialKept ==
    [][\A r \in Rows :
         r \notin unsaved /\ state[r] # NoEntry /\ state'[r] # NoEntry =>
            /\ state'[r].gen >= state[r].gen
            /\ state'[r].gen = state[r].gen /\ state[r].err =>
                  \/ state'[r].err
                  \/ \E t \in Tasks : job[t] = "clear" /\ cfgLock = t]_vars

\* A row leaves the roster only by a removal, and a row of the roster never
\* loses its secrets, also when its entry did not load for a while, when the
\* writer read the store before the row was added, and when two first writes
\* of a store race.
RowsStay ==
    [][\A r \in Rows :
         /\ r \in roster \ roster' =>
               \E t \in Tasks : job[t] = "remove" /\ task[t].row = r /\ cfgLock = t
         /\ r \in roster' /\ state[r] # NoEntry => state'[r] # NoEntry]_vars

\* No write brings the secrets of a row that is not in the roster to the disk,
\* also when it was removed while the writer held a snapshot or a refresh of
\* it was on its way.
NoOrphanSecrets ==
    [][\A r \in Rows : state[r] = NoEntry /\ state'[r] # NoEntry => r \in roster]_vars

\* No refresh sends a token that was spent, whoever refreshed the row before,
\* unless the rotation was lost: the process died with it, the save timed out
\* or was withheld, or the row was removed meanwhile.
NoSpentTokenSent == sentSpent = {}

=============================================================================
