# openai-auth in TLA+

A verification project for `@cortexkit/openai-auth`: a plugin that puts ChatGPT/Codex
accounts behind OpenCode (versions 1 and 2) and Pi. The modules here are translated from
the TypeScript sources under `src/packages/{core,opencode,pi}/src`; `PROJECT.json` maps each
definition to the lines it stands for, and lists the components, the runs, the mutants that
show the properties can fail, the hazards they are aimed at, and the theorems.

1. [The system](#1-the-system) 2. [Modules](#2-modules) 3. [Runs](#3-runs)
4. [Proofs](#4-proofs) 5. [What the models showed](#5-what-the-models-showed)
6. [Not modelled](#6-not-modelled) 7. [Plan](#7-plan)

## 1. The system

Several processes (OpenCode instances, their TUI, Pi) run the plugin on one machine and share
files; within a process everything runs on one event loop and interleaves at `await`. The
host is not under the plugin's control: it writes its login slot (`auth.json`) without taking
the plugin's locks, sends several requests of a session at once, aborts them, and re-sends a
request whose body errors retryably.

| Component | State | Operations | What is hard |
|---|---|---|---|
| Slot-to-pool transfer (`core/pool-migration.ts`, `core/host-slot.ts`) | login slot, pool rows, transfer record, shield (`mainAccountId`), refresh lease, locks | migrate, adopt, resume, roll back, reclaim an expired record, slot and row refresh | single-use refresh tokens; crash between any two writes; a host that writes without locks |
| Response stream (`ws.ts`) | what was emitted, listeners, idle timer, verdict | frames, socket close and error, idle timeout, abort, cancel | a verdict exactly once around an `await`; retry only when nothing irreversible happened |
| WebSocket pool (`ws-pool.ts`) | entry per session and account: socket, busy, fallback, failures, continuation | request, prewarm, callbacks of the stream, prune, remove, close | state read before an `await` and used after it; callbacks and catch of one request under another |
| Continuations and turns (`ws-pool.ts`) | remembered response, its input and finalized calls; turn id and input | chain or replay, prewarm, complete, fall back | trimming against a history that changed elsewhere |
| Pool routing and request loop (`pool-routing.ts`, `core/sticky-routing.ts`, `core/pool-request.ts`, `pi/pool-request.ts`) | pins, attempts, refused accounts, holds | choose, attempt, refuse, wait, hold, replay, move a session | replays and waits over changing limits; overlapping requests of a session |
| Pool account source (`core/pool-source.ts`, `pi/pool-source.ts`) | snapshot of the rows, own rotations, pending readings, queued writes | read, refresh, poll, record, dispose | unlocked reads that answer late over state changed since |
| Legacy accounts store (`accounts.ts`) | config and state file, their locks, refresh locks per row | edit, union save, state merge, first migration, background pass, select, refresh | read-modify-write across processes with stale snapshots |
| Loader and legacy fetch (`index.ts`, `core/sticky-routing.ts`) | the request's credentials and selection | authenticate, decide, choose, send, fall back | everything known before an `await` changes during it |
| Quota manager (`quota-manager.ts`, `refresh-all-quota.ts`, `background-quota-refresh.ts`) | cached readings, marks, polls | peek, seed, push, poll, mark | readings applied late or to another login |
| Limit policy and registry (`limit-*.ts`) | limit marks with window, reset time, provenance | mark, clear, recover, hold | late or contradicting evidence |
| Vault (`vault.ts`, `vault-routing.ts`, both adapters) | cached mode, discovery, the vault's roster | read the mode, discover, refresh, poll, use or refuse | enrollment files written by every process, mode read before an `await` |
| Reset credits (`reset-credits.ts`) | saved pair of request id and credit, cooldown | inspect, claim, consume, record, retry | an answer lost after the credit was spent; two sends of one pair answered in either order |
| Runtime layout (`core/runtime-layout.ts`) | the files in both places, marker, manifest, staged writes, layout and data locks, layout of each process | look, lock, fence, copy, mark, remove, resume, refuse | crash in the middle of a move; a lease that lapses under its holder; older versions on the old files |
| Pool lifecycle, version fence, heartbeats (`core/pool-lifecycle.ts`, `core/version-fence.ts`, `core/process-heartbeat.ts`) | beats of live processes, fence, migrated mark | beat, fence, migrate | an older process alive while storage moves |
| Sidebar (`sidebar-state.ts`, `sidebar-*.ts`) | the shared file: accounts shown, routes, session pins; queue, cache and overlay of each process | merge, retry, prune, place, publish | lost, late and repeated merges of several processes |
| Cache keep-alive (`core/cachekeep.ts`, `v2/cache-keep.ts`) | tracked sessions, timers | track, warm, evict | timers racing real requests |
| OpenCode 2 adapter, TUI, RPC, commands, dumps | projections of the above | publish, notify, render | mostly presentation |

`@cortexkit/common-auth` (the pool store, its file locks and the limits registry on disk) is
a dependency that is not part of the repository; where a module needs it, it is modelled from
its use and marked external.

How the parts meet: the loader's fetch override picks an account (routing, pins, limits), gets
a token for it (accounts store, pool source, vault or the slot), and sends the request over HTTP
or hands it to the WebSocket pool; the pool streams it with `streamResponsesWebSocket`, whose
verdict callbacks free the entry, store the continuation, mark limits or ask for HTTP. Readings
of quota come back with responses, frames and polls and change the next decision. The transfer
moves the login the host keeps in its slot into a pool row, against the slot refresh and the row
refresh that the same loader starts, in this process or in others.

## 2. Modules

| Module | Models | Uses |
|---|---|---|
| `PoolTransfer` | migration and adoption runs, slot refresh, row refresh, host, provider | - |
| `StreamContract` | abstract: what a streamed response promises | - |
| `ResponseStream` | `streamResponsesWebSocket` | `StreamContract` (refinement) |
| `WsPool` | `createWebSocketFetch`: entries, sockets, requests | - |
| `TurnChain` | continuations and turn ids of one entry | - |
| `PoolRouting` | the routing decisions, as operators over what is known of each account | - |
| `PoolRequest` | the request loop of OpenCode and Pi over the pool | `PoolRouting` |
| `AccountSource` | `PoolAccountSource` and `PiPoolSource` over one row | - |
| `QuotaCache` | the readings an install that has not migrated routes by | - |
| `LegacyRequest` | one request of such an install | `QuotaCache` |
| `AccountStore` | the legacy account store and its background pass | - |
| `VaultMode` | the cached vault mode and everything that asks it | - |
| `ResetCredits` | the redemption of a reset credit by attempts side by side | - |
| `RuntimeLayout` | the move of the runtime files, with heartbeats and fence | - |
| `Sidebar` | the shared sidebar file and its writers | - |
| `Filter` | `Array.prototype.filter` by membership, as a recursive function (`Only`) | - |
| `MC*` | instances for TLC: values for constants, nothing else | the module of that name |
| `FilterProofs` | lemmas about `Only`, and induction over a set of naturals | `Filter` |
| `PoolTransferProofs`, `AccountStoreProofs`, `ResetCreditsProofs` | the theorems about one module | the module of that name |
| `WebSocketProofs` | the theorems about a request over the WebSocket | `ResponseStream`, `WsPool`, `TurnChain` |
| `RequestProofs` | the theorems about a request over the pool | `AccountSource`, `PoolRequest` |
| `LoaderProofs` | the theorems about the loader of an install that has not migrated, and the vault | `LegacyRequest`, `VaultMode` |
| `SharedFilesProofs` | the theorems about files every process of the host writes | `RuntimeLayout`, `Sidebar` |

In every module an action stands for the code between two places where others may act: an
`await`, a lock taken, a file written, a callback. Variables whose comment says *history*
exist for the properties only and no guard reads them, except for bounds.

### PoolTransfer

A login is granted once and rotates at every refresh, so a token is a pair of login and
generation, and it is spent as soon as the provider has answered a refresh of it; one token
stands for the access/refresh pair and for the fingerprints the code compares. Three actors:
the *run* (`rpc`: plan, record, lease, confirm, apply, verify, fence, last, put, readback,
finish and the roll-back steps - one label per await between which others may act), the *slot
refresh* (`spc`: `refreshMainWithLease`) and a *row refresh* (`bpc`). `pending` is the
transfer record, `shield` is `mainAccountId`, `lease` the refresh lease; the file locks
`pool-slot-transfer` and `pool-migration` are held exactly while `rpc # "idle"`, `main-refresh`
is `mainLock`, a row's fallback lock is the row refresh itself. The environment grants logins,
overwrites the slot, kills a process at any step (`faults`), lets a record or a dead lease
expire, and (`WriteBack`) writes back a slot it read before. `SharedSlot` adds another store
that takes the login first.

### ResponseStream and StreamContract

One action per kind of frame, grouped by what `outputShape` can tell apart; the socket's close
and error, the idle timer, the abort signal and the cancelled body are actions of their own.
Handling an `error` frame awaits `onRetryableTerminal`: `waiting` holds the frame meanwhile, and
an abort may end the stream in between (`AwaitOvertaken`). The host's reaction (text on screen,
calls dispatched) is modelled from the comments on `recordEmittedCallFrame`: a whole
`output_item.done` of a call runs the tool at once. `StreamContract` keeps two things of all
this: whether the host has shown or started anything, and how the stream ended.

### WsPool

Requests share the entry of their session and account. Every await of `websocketFetch` is a
place: `socket` (dialling, or the microtask of a reused socket), `prewarmDump`, `prewarm`,
`ready`, `mainDump`, `stream` (before the first event or the grace), `relayed`, `returned`,
`catching` (a failure on its way to the catch) and `caught` (an abort whose verdict is already
given, on its way to the same catch). Responses are identified by the socket that produced
them, which is all that matters for chaining. An entry removed from the pool lives on for the
request that holds it. `Reissue` says whether another request may enter within the microtasks
between an abort and its catch.

### TurnChain

The host's history is a sequence of user messages, assistant texts, calls and outputs. `held`
is a ghost: what the server has of the conversation at the remembered response. A request is
`Request` (prewarm decided, body trimmed, turn advanced) and then `Completes`, `Cut` or
`FallsBack`. What a body sends is kept as a set of items: trimming filters and appends, and no
property is about the order. The body besides its input is a signature, which may change between
any two requests, in the middle of a tool loop too (`BodyChanges`). Calls may be reported late; a cut response may leave a partial call
with a made-up output in the history; another lane (HTTP while busy, another account) may answer
in between.

### PoolRouting and PoolRequest

`PoolRouting` gives each account one of eight conditions (free, spent, credits, budget, unknown,
marked, backoff, killed), which is what admission, the killswitch and the limit policy can tell
apart, and defines the plans (`planOrdered`, `planUnlessReplayed`), the pinned-row decision and the
placement of a pin over a view of them. Where the code weighs bytes or reset times, the choice is
any account it could choose. In `PoolRequest`, `req[i]` is the request's progress: what it saw
(`view`), what it was sent on, the rest of its order, its path (`ordered`, `sticky`, `moved`,
`held`), a hold it carries. OpenCode runs requests of a session side by side and hands a hold back
to the host (`pending`); Pi sends one at a time and waits itself (`waiting`). `account` changes
underneath: by answers, by itself, by time.

### AccountSource

One row. A credential is the epoch it was signed in at, the stamp of its last rotation, the login it
is of and the account its token names; a reading is its place in time and the accounts it may be
of. `reads` are the reads under way, which see the files
at any time from their start to their end and install what they saw; `fresh` says what the
process knows of `fileKey`; `rotated` and `pendingObs` are the process's own changes that the files may not
show yet (`withLocalState`, `rememberPoolObservation`). Readings up to `aged` are past the 30 minutes
for which a pending one is carried onto a row (`Ages`). `held` is what a request was routed with, and
`sent` the bearer it went out with. OpenCode and Pi share the actions and differ where the two
sources do (`host`). Other processes rotate, re-login, tear and disable the row, and connect the
host to the vault.

### QuotaCache and LegacyRequest

`QuotaCache` has what one OpenCode 1 process knows of quota: the manager's entry per account
(`cache`), the marks, the shared file's row, the reading an older version saved in the row; and the
credentials those readings are about. A reading is a level, its place in time, the login it is about
and the token that brought it; a level is `ok`, `low` (below the floor) or `out`. `LegacyRequest` is
the request: `auth`, `refresh`, `decide`, the selection of its mode, sends and their answers, the
release of bodies. Around it frames, polls, refreshes, marks, logins and the move of the main
account happen, `MaxEvents` in all.

### AccountStore

Two files (`roster`; `state` with the tokens), a save lock each, a refresh lock per row. A task is
one call of one operation in one process, at a `phase`: a load is two unlocked reads, an edit
(`mutateAccounts`) reads, changes and writes under both locks, a union save (`saveAccounts`) writes a
snapshot it has been holding, a state merge writes the state file alone; the background pass and a
request's selection walk the rows, refresh under the row's lock (or wait for the holder) and save.
A refresh token is its generation, and the provider accepts the latest; a task may crash with its
process, find its write withheld, or time out on a lock, once.

### VaultMode

The enrollment files (`token`, `state`) decide whether the host is local, and every process writes
them. The process caches the mode under the files' key; a read of the mode (`asked`) is answered
later and counts only if the files' key is still the one it began with. One piece of work (a request
of OpenCode 1 or 2, a quota poll, a login, a menu choice) runs beside a discovery and a refresh of
the list; each asks the mode where the code does.

### ResetCredits

`inFlight`, `corrupt` and `cooldownUntil` are one row's entry under the `reset` key of the state
file. An attempt is one call of `spendResetCredit`: it binds itself to the account the row is
signed in as, resolves the target again, reads the saved state without the lock (`Inspect`), and
then replays the saved pair, or checks quota and credits and claims a new pair under the lock
(`ClaimNew`, `ClaimLost`). The server is external: it spends a credit once per request id, answers
a replay of a spent id with `already_redeemed`, and refuses only ids it has not spent, which is
what the comment on `rejectedStatus` relies on; it may handle a request after its sender gave up
(`late`). `Finalize` is `finalizeResetAttempt` with a lost answer, a repeated refusal and a failed
write. An attempt that dies is one that takes no further step.

### RuntimeLayout

`pc` is where a process is in `decide` (`read`, `lock`, `held`, `fence`, `data`, `fence2`, `copy`,
`drop`, `seal`, `tidy`: one place per step between which others act or a crash matters) or the
layout it has fixed for its life (`legacy`, `state-home`, or `refused`). `old` and `next` are the
contents of the four kinds of file in the two places: the account state, the vault's enrollment
state, its token, the sessions. `marker` is `layout.json` (`on`: it exists; `removed`:
`oldFilesRemoved`; `kept`: `keptVaultState`), `manifest` is `layout-moving.json`, `hb` and `zero`
are the heartbeat files `<pid>.json` and `0<pid>.json`. A start is of this version, of this version
with an override of the state file, or of an older version; an older one is on the old files at
once and may have this version loaded over it (`Reload`). A content is a number that names the
write it came from, so two files are the same bytes exactly when the numbers agree; the enrollment
state is what the vault code can tell apart in it. The move and a later start's cleanup share the
actions from `drop` on, with `finishing` telling them apart, as the two functions share
`removeOldCopies`, `removeOldAtomicTemps` and the marker's last write. `todo` is the set of operations
left of either; `Turn` says which comes next.

One config folder; the three data locks are one lock, because a writer holds only its own and for
one step; the check of a lease and the file operation it guards are one step. `Stop` may hit a
process at any place, leaves its locks to expire and, on the old files, may leave a staged write.
`Fault` is a read, a write, an unlink or a lock that fails.

### Sidebar

Every write is a merge under the file's lock; `chain` is the order in which a process called its
writes, `retries` the writes of its bookkeeping queue that failed. What a display shows of the main
account is the quota this process last took (`row`), labelled when the write is called: OpenCode 2 has
both from one pool row; OpenCode 1 takes the manager's quota, of whichever login, and the account the
caller names or, without one, the one the store has (`DisplayedRow`). The store learns of a new login
(`login.now`) when a loader runs (`NameLogin`), so old quota can get the new name and new quota the old
one. A display goes through the bookkeeping queue or, from a command or a poll, straight to the file
(`Show`). A request goes by a cached
snapshot (`cache`, or a slow read under way in `reads`) with this process's own pins laid over it
(`overlay`), and hands a pin and a route to the queue. OpenCode 2 publishes from its own pins.
Deletions, mode switches, killswitch changes, new logins, reloads and exits are events; a scene
says which kinds, and how many, one behaviour has. `PlaceOn` is the request's decision for the accounts
it may use and the one it would choose anew; `Place` ranges over both. `shaken` remembers the
sessions for which this process has nothing left to go by: the file lost the pin (`Lost`), the write of
it was refused or overtaken (`Follows`), the overlay gave it up, or the user cleared it.

## 3. Runs

Every run is a `.cfg` of an MC module; bounds are constants named in the module.

| Run | Properties | Bounds |
|---|---|---|
| `transfer` | `NoCopyDuringRefresh`, `SharedTokenShielded`, `SentOnce`, `RowsAreOwn`, `LoginKept`, `TransferEnds` | 2 logins in order, the first of account `a`, the second of `a` or `b`; 1 rotation each; main's row and one more; 2 attempts; 1 fault or stale write-back; a slot shared with another store |
| `stream` | `ChainedResponseIsWhole`, `StreamEnds`, `KeepsContract` | 2 calls, 5 frames |
| `pool` | `SocketsAreOwned`, `NoSecondResponse`, `Answered` | 2 requests, 2 entries, 2 sockets, 1 removal, 1 retry |
| `chain` | `ContextExact`, `OneTurnIdPerTurn` | 2 signatures (symmetric), 5 items and body changes together, 6 turn ids, 1 crossing request |
| `reset` | `OnePairPerWindow`, `SpendIsRemembered` | 3 attempts, 2 accounts, 2 credits, window and cooldown of one tick |
| `layout` | `NoSplit`, `FilesAreSafe` | 3 processes, 3 starts, 1 write, 1 fault |
| `request` | `SpendsInBounds`, `FailureIsFinal`, `PinMovesOnEvidence`, `OneHoldPerRequest` | 2 accounts, 2 requests, OpenCode and Pi, 3 modes, clock up to 2, 1 change |
| `account_source` | `SendsHeldLogin`, `ReadingsStay`, `DrainedBeforeClose` | 2 identities, one the vault's; 2 epochs, 2 stamps, 1 fault, 2 observations of which 1 is kept pending, 1 read, 1 run-out; 4 events for OpenCode, 3 for Pi |
| `vault_mode` | `LocalMeansLocal`, `UsesByMode`, `AnswersAreCurrent` | 5 writes of the files, 1 version of the list |
| `legacy` | `OneTryPerAccount`, `AsksNoneRuledOut`, `AnswerIsWhole`, `NeverBricked` | main and one fallback; the killswitch in 3 modes and the refusal of exhausted fallbacks in one; 2 events |
| `sidebar` | `PinsAreAsAsked`, `FileIsOfOneMode`, `SessionKeepsPin`, `MergeKeepsReadings` | 2 processes, 2 sessions, 1 pin, pins that last 2 ticks, 4 scenes of 3 or 4 events |
| `account_store` | `NoSpentTokenSent`, `CredentialKept`, `RowsStay`, `NoOrphanSecrets` | 2 rows, 3 tasks in 2 processes, 3 generations, 1 mishap, 1 poll |

Some of these are conjunctions of named parts, stated beside them in the modules: `RowsAreOwn`
(`OneRowPerToken`, `ForeignCopyRemoved`), `SocketsAreOwned` (`BusyForOne`, `OneStreamPerSocket`,
`ChainOnItsSocket`), `FilesAreSafe` (`NothingLost`, `AuthoritativeIsLive`, `OlderStaysInVault`,
`DoneMeansClean`, `CalmStartCompletesMove`), `SpendsInBounds` (`OneTryPerAccount`, `SpendsAsViewed`),
`AnswersAreCurrent` (`ReadingFitsAccount`, `RefreshIsFresh`), `AsksNoneRuledOut` (`FloorKept`,
`MarkedIsNotTried`), `PinsAreAsAsked` (`DeletedPinStaysGone`, `PinIsOnItsWay`). `TransferEnds` is
`[]<>Settled`: again and again no record is open and the login has moved or was declined.

What each run shows:

* `transfer`: a run, a slot refresh and a row refresh compete for a login, with a crash or a host's
  stale write at any step, and nothing is copied while it is refreshed, sent twice, left unshielded in
  two places, or lost; every login leaves the slot.
* `stream`: every order of frames, socket events, timer, abort and cancel gives one verdict, and no
  replay after something irreversible; the stream ends.
* `pool`: two requests and the callbacks of their streams never share an entry or a socket, never chain
  across sockets, and both are answered.
* `chain`: whatever happens between two requests, the server has exactly the host's history, and a
  turn has one id as long as its body stays the same.
* `reset`: no second request id while one may be retried; a spent credit is not forgotten.
* `layout`: a start that crashes anywhere, beside older versions, loses no file and never splits the
  install over two layouts.
* `request`: a request spends by its own view, once per account; a failed send is the last; pins move on
  evidence; a hold is not followed by another.
* `account_source`: unlocked reads that answer late never make a request send another login, and lose no
  reading before its time.
* `vault_mode`: a cached mode never says local of a host that is not; a credential taken in one mode is
  not used in the other.
* `legacy`: a request is sent once per account, to none ruled out, and is not bricked by an advisory
  reading.
* `sidebar`: lost, late, retried and crossing merges keep a session's pin, and deletions; a late
  display neither takes a reading back nor gives it another name than it came with.
* `account_store`: no stale snapshot rolls a token back, loses a row, resurrects a removed row's
  secrets, or makes a refresh send a spent token.

Why the bounds are enough. The transfer needs a login in the slot (or, from the start, in a row)
and one that lands while the first is being moved; a token is either current or spent, so one
rotation suffices for each, and the guards bound the token that is sent, not the provider's count,
so that a token can be sent twice within the bound. Five frames fit an added, an argument and a done
frame of a call, reasoning and the ending. Two requests are enough for one to find the entry busy, chain
to the other's response, or meet a new entry after a removal; each dials at most one socket. Five items
fit a call that is reported one unchained response late, the longest story the finalized set is about.
Three starts are a move that is interrupted, an older version (or an override) that uses the old files
meanwhile, and the start that resumes; the one write falls at any point among them, and the one fault is
a failed operation or a lease that lapses under its live holder. Three attempts of a redemption are a
lost answer, a refusal and the attempt that would mint anew. Two accounts give an order an end and a pin
another place to go. Two readings, taken or written by others, give an older and a newer one with a
read, a write or the age limit between them. One row of the source may be rotated, re-signed, torn, disabled or moved to the
vault between a read and its use, whichever comes first. Five enrollment writes connect, disconnect and
propose once more, a write at each await. Two events in the legacy request put one thing before and one
after any step. Three store calls give a writer, a stale snapshot and a reader that acts on the result.

Deadlock checking is off where the modelled part simply ends (a stream, a finite set of
requests or starts) or where the environment may stop (no more logins).

### Fairness

* `PoolTransfer`: strong fairness of the run's steps, because runs are retried at every start
  and poll their locks; weak fairness of a started slot or row refresh and of the expiry of a dead
  lease. Nothing is assumed of the host, of crashes or of record expiry.
* `ResponseStream`: the body's `start` runs, an awaited callback settles, an armed timer fires
  (weak fairness of `Attach`, `Await`, `IdleTimeout`). No fairness of frames: the server may fall silent.
* `WsPool`: a started request proceeds: dials time out, the stream ends (which is
  `ResponseStream`'s `StreamEnds`), microtasks run. Requests need not start.

No other run claims that something happens.

## 4. Proofs

All theorems hold for every value of the constants that the named ASSUMEs allow (bounds are naturals,
model values are distinct, flags are Booleans); TLC evaluates the assumptions in the runs. Each safety
property has a theorem of the same shape, `Spec => []Inv` or `Spec => [][A]_vars`, by an inductive
invariant that TLC was asked about first.

**`PoolTransferProofs`**: all safety properties of the `transfer` run.

* `TypeCorrect`. `TypeOK` alone is not inductive: that a refreshed token's next generation exists needs
  `Generations` (a stored token was issued, a refresher's token is issued and below the bound until it
  was answered and spent after).
* `CopyExcludesRefresh` (`NoCopyDuringRefresh`). The handshake: the run writes its record before it
  looks for a lease, the refresh takes its lease before it looks for a record, and each looks a second
  time before the step that matters. `Handshake` states what each side knows at each step.
* `TokensSentOnce` (`SentOnce`), by `Custody`, a conjunction of thirteen parts: what is known of any
  token is not newer than the provider's generation, and a token nobody has stored is not known
  (`Ages`, `Granted`); who holds `main-refresh` and which record is on disk at each step (`Locks`,
  `Books`, `RowHolds`, `Handshake`); a row that holds the token of a record is the record's row
  (`Targets`, `Shares`, `Away`); and a spent token is in a row, the slot, a refresher's or the run's
  hand only with one of the excuses the property names, or because the refresh that rotated it is about
  to store the successor (`RowsSound`, `SlotSound`, `SenderSound`, `RunSound`).
* `RowsStayOwn` (`RowsAreOwn`) adds `TakenIsRecorded`: while another store's placeholder stands, a row
  with the taken token is the row of a record that the run will undo.
* `SharedTokensShielded` (`SharedTokenShielded`) adds `Shields` and `Declined`, under the hypothesis
  that every login's identity can be read (`Nothing` is not among the owners); without it the property
  is false, see section 5.
* `LoginsKept` (`LoginKept`) adds `Overwrites` and `ReadsHold`: what the run may overwrite in the slot is
  what it has in a row, and what it read last is what the slot still holds unless the host raced it.

**`WebSocketProofs`**, three modules.

* `ResponseStream`: `StreamTypeCorrect`, `EndsOnce` (one verdict), `SafeReplay` (an ending after which the
  request is sent again is given only while nothing was shown or started), `ImplementsContract`
  (`FairStream => Contract!Spec` under `dirty <- shown \/ ran # {}`, `ending <- body once completed`), and
  `ChainsWhole` (`ChainedResponseIsWhole`). The invariant adds what the stream has recorded of the host:
  nothing is shown unless `other` is set, a call ran only if `finished` or `other` is set, before `start`
  nothing has happened, and (`Recorded`) a frame that was dropped keeps the response from being chained.
* `WsPool`: `TypeCorrect`, `ReadOnce` (`NoSecondResponse`) and `OwnedAtAllTimes` (`SocketsAreOwned`). The
  invariant: whoever is past the entry's look-up has one (`HasEntry`); a busy entry has exactly one holder
  and a free one none (`Holders`), as long as the holder has not given it up already (`NotGivenUp`);
  entries have sockets of their own and a request's socket and chain are its entry's (`Sound`); a caller
  that is still before its first event has read nothing (`Unread`). `OwnedAtAllTimes` has the hypothesis
  `~Reissue` of the run: no request starts in the microtasks between an aborted request's rejection and
  its catch; with it the property is false, see section 5.
* `TurnChain`: `ChainTypeCorrect`, `ContextIsExact` (`ContextExact`) and `TurnsKeepTheirId`
  (`OneTurnIdPerTurn`). Only items made so far are anywhere (`Made`); the history starts with the user,
  repeats nothing and has no call that was not reported (`Written`); the remembered response holds its
  input and trims right as long as the history still begins with it (`Chained`); a request in flight
  covers the history it was made from (`Flying`); and `Turns` ties the turn id to the last user message and
  the body it went out with.

**`LoaderProofs`**, two modules.

* `LegacyRequest`, for any order of the rows, any configuration and any number of events: all its
  properties, from `LegacyInv`. An account's credential and the slot's are of the accounts they are sent
  for (`CredentialTypes`); what the cache holds of an account is its last reading (`ReadingsKept`), which
  is what makes the floor the request judged by the account's own (sticky-balanced's exceptions are in
  `FloorKept`). Each place of the request knows the
  accounts it has asked (`TriesOnce`: offered, asked and left over are disjoint, and each row is listed
  once), that none of those it still may ask is ruled out (`NoneRuledOut`), which bodies are open (`Kept`),
  and that a request which nobody was asked for, without a killswitch, a mark or a missing credential,
  still has somebody to ask (`WillServe`).
* `VaultMode`: `TypeCorrect`, `LocalIsLocal`, `UsedAsAllowed`, `AnswersCurrent`, all its properties. The
  cache is of the files whenever its key is (`CacheIsOfFiles`); the mode an actor works by is one the
  files had since its question (`SeenCoversNow`, `HistoryBegun`); lists only grow and a reading in flight
  is never older than the account it was asked for (`ListsGrow`, `ReadingIsNoOlder`).

**`RequestProofs`**, two modules.

* `AccountSource`: all its properties, from `SourceInv`. The credentials of one epoch name one login, in
  the files, in every read under way, in a rotation and in a hand (`LoginsAgree`, `RefreshOfLogin`); the
  rows of the reads under way are in the order the files had them, and none is ahead of the files
  (`ReadsInOrder`); a login that no row read from now on is whole under (`Gone`) stays so, which is what
  the row of a request already sent needs (`SentBefore`); an observation is of the account it is kept
  under, or of a login that is gone (`ReadingsAreOwn`), no reading is of the future
  (`ReadingsSoFar`) and the last one taken is pending and, unless too old, shown (`LastIsPending`). `DrainedBeforeCloseCorrect`
  needs only that a write accepted is counted until it is written (`Drains`).
* `PoolRequest`, for any accounts, any number of requests and both hosts: all its properties, from
  `PoolInv`. A request spends within the view it decided by (`SentAsViewed`), has never been sent to what it
  may still ask (`SentOnce`), and one that waited or carries a hold creates none. The order of the rows is a
  permutation through every plan (`IsOrder`); this needs `Only` unfolded, by the lemmas of `FilterProofs`.

**`ResetCreditsProofs`**: `TypeCorrect`, `NoSecondPair` (`OnePairPerWindow`), `NoSpendForgotten`
(`SpendIsRemembered`), and `SentUnderItsOwn`, `RefusalIsHonest`, `AnswersKeepToTheirPair`, which no run
repeats. `Book`: an attempt has no answer before its send, and a claim's count of unknown answers is at
most the saved pair's. `Window`: every minted pair is saved, settled, or past its window, so that a
claim under the lock finds either no pair or an expired one. `Refused` and `Remembered`: as long as the
send that spent the pair has not recorded its answer it vouches for the pair; once it has recorded an
unknown answer, the count has grown past that of every refusal still on its way.

**`SharedFilesProofs`**, two modules. `RuntimeLayout`: `TypeCorrect`, `OneLayoutAtATime` (`NoSplit`) and
`FilesStaySafe` (`FilesAreSafe`). For the first, `Recorded`: a process of this version on the
old files has a record that says `legacy`, which nothing removes while it lives. `HolderIsRight`: as
long as a process holds the layout lock, the marker is as it found it, and while it copies nobody else
is on the old files, because it read the fence under the lock and a start on the old files is recorded
under the same lock. `MarkerStands`: whoever is past the marker has one, and it never goes.
`MarkerExcludes`: with a marker, nobody of this version is on the old files. A holder that lost its
lease is no exception: it can neither copy, mark nor record.
For the second, `Safe` adds: before the marker a listed copy is identical to the old file or of no account
(`Unmoved`); the holder of the layout lock copies only what the manifest lists, and as long as the data
locks are its own what it has copied is identical, so that the marker goes up over identical files
(`Copying`); what it removes has an identical copy, and every old credential is cleared, still to do, or
remembered as one that would not go (`Dropping`, `Underway`); the marker of a vault install names the
state it keeps (`KeptInVault`); and a start nothing disturbs is alone, has the locks and finds the fence
open (`Alone`).

`Sidebar`, for any processes of both OpenCode versions and any number of sessions, failures, retries and
restarts: `FileIsOfOneModeCorrect`, `PinsAreAsAskedCorrect` and `MergeKeepsReadingsCorrect`, from
`SidebarInv`. Every merge leaves the records of one mode (`RecordsOfOneMode`, a lemma about
`writeMergedSidebarState` for every writer). Of a deleted session, no early pin of this process comes after
the removal in the queue, and none waits for a retry (`RemovalsLast`); an entry of the overlay that has
not landed has its write in the queue or among the retries, as the newest of its key (`OnTheirWay`). Both
must hold under the queue's own operations (dropping the older retry, marking a write as no longer the
newest, calling the retries again), which are lemmas about `Enqueue`, `Without`, `Forget` and `Again`.
`MergeKeepsReadings` comes from the merge alone, whatever the displays say: windows are mixed only when
both sides have the identity, and a side taken whole brings its own. That the pairing in a display is
right is not proved, because it is not (section 5).

**`AccountStoreProofs`**: all properties of the `account_store` run: `TypeCorrect`, `SpentTokensStay`
(`NoSpentTokenSent`), `CredentialsKept` (`CredentialKept`), `NoRowLost` (`RowsStay`) and `NoOrphans`
(`NoOrphanSecrets`), all from `Custody`. `Exclusive`: the locks a call holds at each of its places. `Works`:
what it has in hand there; a send is of a token that was due when the call read it. `Stored` is the heart:
the state file has the latest token of a row unless the refresh that rotated it is about to save it under
the row's lock (`Latest`), and every other copy, in a snapshot, a loop or an edit, is one that the stored
token is at least as new as, so that a merge by generation never goes back (`Copies`). It is claimed of the
rows whose latest rotation was not lost (those outside `unsaved`). `Edits`: what an edit writes second has
every row of the roster that has secrets, and no row outside it. `Blank`: before the first migration there is nothing to read.

Left to TLC:

* All liveness (`TransferEnds`, `StreamEnds`, `Answered`): fairness and ENABLED are out of the prover's
  reach.
* `SessionKeepsPin` of the sidebar. It relates five copies of a pin (file, cache, a read under way, the
  request's snapshot, the overlay) by the times they were taken; the invariant it needs is not
  written. Beside the run, it was checked on longer behaviours of one and two processes (5 and 6 events)
  and by long random ones.

Induction. A theorem that takes an operator cannot be used here, so `FilterProofs` proves induction over a
*set* of naturals from the well-foundedness of a least element, and unfolds the recursive function `Only`
with it. What a RECURSIVE operator computes stays with TLC; no module with a proof uses one.

## 5. What the models showed

Disagreements of the code with its own comments, each reproduced by TLC with the bound or flag named:

* A login whose access token names no account is copied into a row with no shield
  (`pool-migration.ts:1458`), although the header of the module (21-23) says the two copies never stand
  unshielded. An owner of `Nothing` in `Owners` shows it.
* A session removed while a request dials leaves its socket open for ever (`ws-pool.ts:538`, 332; the
  comment at 534 says it is closed).
* A request that crosses a busy one advances the shared turn state, and the fallback of the request in
  flight then mints a second turn id (`ws-pool.ts:459`; comment at 456). `OneTurnIdPerTurn` excepts
  crossed turns.
* A body whose tools, instructions or options change in the middle of a tool loop is sent in full, and
  `advanceTurn` then judges all of it, finds the user's message and mints a second turn id
  (`ws-pool.ts:934-947`; the comments at 910-921 and 954-961 say that a replay does not look like a fresh
  turn). `OneTurnIdPerTurn` speaks of the requests of one body; without that conjunct (`s[3] = t[3]`) the
  run `chain` finds the case.
* The quota of one login can be shown under the identity of another: a display labels the manager's cached
  quota with the identity the caller names or the store has at that moment (`index.ts:2905-2906`,
  2926-2931, 940-966). The comment at 980-982 rules the pairing out for fallbacks, and only they take the
  identity from the cached entry. A display of the store's identity after a new login and before its first
  reading is enough. `MergeKeepsReadings` therefore speaks of what the merge does with a pairing.
* An old credential that could not be removed although it was identical to its copy makes the next start
  refuse once the process has saved the new file in between (`runtime-layout.ts:1335`); the comment at
  318-322 says that this is not a refusal.
* The catch of an aborted request frees its entry a second time, some microtasks later, under a request
  that started in between (`ws-pool.ts:464`): `Reissue = TRUE` with three requests breaks
  `SocketsAreOwned`.
* After a detour (a pinned account without a reading, `pool-request.ts:1114`) the replacement may be the
  pinned account itself, unjudged against its killswitch floor (1154, 1044 against `pool-routing.ts:548`).
  `SpendsAsViewed` excepts moved requests.
* The killswitch's reading of main is lost when its token was refreshed since (`accounts.ts:2423`, 2652,
  `quota-manager.ts:285-296`; comment at `index.ts:4270`). `BelowOwnFloor` speaks of the very token for
  fallbacks only.
* A newer snapshot of the sidebar drops an overlay entry that another overlapping request then lacks
  (`sidebar-state.ts:2011-2017`, 2057). `SessionKeepsPin` excepts such a request (`behind`). Likewise a request
  begun before the loader restarts drops an entry that the new, empty cache lacks, and a pin whose write was
  refused because the mode changed counts as written (`index.ts:4224-4235`), so both are in `shaken`.
* `refreshDueAccounts` puts the account as it was before the refresh back after a refresh whose save
  timed out (`accounts.ts:2691-2695`), so the rotated token is lost (`unsaved`).
* A pool read that began earlier and loads late deletes `rotated`, and one that began later with older
  contents installs the spent token again until the next read (against the comment on
  `withLocalState`); Pi's source has no epoch check in `runRefresh` or `withLocalState`, so
  `SendsHeldLogin` speaks of OpenCode.
* With `MaxFaults = 2`, a row that a contradicted refresh disabled and somebody then switched on by hand
  sends the other login's tokens under the row's key. No command of the product switches such a row on
  without a new login, so the run allows one of the two.

Narrow windows that the properties except, by the history variable named:

* Transfer: a run that plans again because another account signed in meanwhile takes the row id of its
  first attempt (`hint`), so its `add` may name a row that exists; dropping an expired record leaves a
  copy that a later login of another account unshields (`reclaimed`); a slot refresh that has read its
  token still sends it after the host logged in, a resuming run dropped the record for the newer login,
  and the row refreshed the copy (`waived`); a foreign copy stays when a host login overwrites the
  foreign placeholder before the run resumes.
* Redemption: the server handles a consume after its sender gave up (`late`); a refused pair past its
  window is replaced while another send of it is on its way; a pair of one account is replaced by a spend
  of another (`foreign`). A pair from before accounts were recorded may be sent under two accounts by two
  attempts that read it before it is bound. A live rate-limit mark lets a new spend pass its check right
  after a reset.
* Layout: an override that names a file of the state home can be overwritten by a resumed move
  (`runtime-layout.ts:655`; such overrides are not modelled). An older version that starts after the
  move writes the old files by its own rules (`strays`), and a process with this version loaded over an
  older generation stays on the old files whatever the marker says (`Reload`).
* Sidebar: a pending retry of a route is not cancelled when its session is deleted; a restart of the
  loader drops pending retries; the killed accounts of a mode come from the older writer; a new login's
  reading is rejected while the previous login's reading in the file is fresher; pins of OpenCode 2 get
  the time of their publication.
* Source: a reading whose write stays refused stops showing once it is 30 minutes old
  (`pool-source-state.ts:18`, 102), and the row falls back to the older one of the file (`aged`).
* Store: a union save of an old snapshot brings a removed row back; a stale save can put back a backoff
  that the doctor cleared; a waiter's "already in progress" failure records a backoff on the old token.
* Legacy request: a sticky pin is sent although it is killed or exhausted when there is no replacement;
  frames of a previous login displace a new login's reading; a healthy reading from the file clears a
  live mark; `refreshMainWithLease` may return another login's token while the request keeps the old
  slot's account id; a sticky replacement that throws leaves the earlier body open.
* Vault: `requestReading` joins a background poll that the vault may skip without a reading.

## 6. Not modelled

* Transfer: answers without rotation, refreshes whose answer contradicts the identity (modelled in
  `AccountSource`), `carryLegacyMainState`, the `added-disabled` outcome. The host's write-back is
  modelled between the placeholder write and its read-back only. A lease lives longer (90 s) than a
  provider call (15 s), so only a dead process's lease expires.
* Request loop: request bytes, prompt-cache lineage of parent sessions, the wording of a refusal.
  The registry's file, its recovery by newer evidence, identity and provenance checks of marks.
* Source: several rows, main-row election, notices.
* Legacy request: `failClosedOnUnknownQuota`, windows that reset within the request, the final
  pool-login check that throws, an unshielded row main as an ordinary fallback; the pull-mode refresh of
  `QuotaManager`, which the product does not call.
* Store: `lastUsed` and quota merges, main's lease and backoff in `state.main`, row order, corrupt rows,
  the shield (in `PoolTransfer`); the lock of a live holder never lapses.
* Vault: enrollment dialogues and bearer leases inside the external vault.
* Layout: overrides inside the state home, folders that are links to each other, several config
  folders and the note that names one, the removal of the emptied vault folder, notices and logging.
* Sidebar: older writers without the lock, an unreadable file, placements that are not persisted, routes
  of parent sessions; OpenCode 1 on a migrated install, whose displays pair quota and account as those
  of OpenCode 2 do; exhaustion is folded into the accounts a killswitch refuses (`dead`).
* `attach(next)` of the stream: the pool's callback never returns a socket. Text another account's
  response said is trimmed from a continuation by design (`ContextExact` excepts it).
* Cache keep-alive, local RPC, commands and menus, raw WebSocket framing, request shaping, dumps,
  redaction, rendering: timing of single calls, interactive text and pure formatting.

## 7. Plan

Every safety property of every run has its theorem but `SessionKeepsPin`, which is next. Modules that would
extend the project: the limit registry (marks, expiry, recovery by newer evidence), the cache keep-alive,
and the frame mirror of the OpenCode 2 adapter.
