---------------------------- MODULE AccountSource ----------------------------
(***************************************************************************)
(* The account pool as one process reads it: PoolAccountSource of OpenCode *)
(* and PiPoolSource of Pi, over one row of the files.  Other processes     *)
(* refresh the row, sign it in again, disable it, tear it, and connect the *)
(* host to the vault.  The process reads the files without a lock, keeps a *)
(* snapshot, refreshes the token through the store, polls and records      *)
(* quota, and sends a request's bearer from the snapshot.                  *)
(*                                                                         *)
(* A credential is the epoch of the login it comes from, the account that  *)
(* signed in, the stamp of its last rotation and the account whose tokens  *)
(* the provider last handed back.  A reading is its place in the order     *)
(* they were taken, and the accounts of the token it was taken with.  A    *)
(* token may be due for a refresh at any time.                             *)
(***************************************************************************)
EXTENDS Integers, SequencesExt

CONSTANTS
    Sources,       \* of "opencode", "pi": whose source it is
    Identities,    \* the accounts a row may sign in as
    Vaulted,       \* those the vault's roster names
    PendingCap,    \* PENDING_OBSERVATIONS_PER_ROW
    MaxOut,        \* bound: how many tokens run out
    MaxEpoch, MaxStamp, MaxReads, MaxFaults, MaxObs,
    MaxEvents      \* bound per source: readings, rotations, faults, what time outdates and
                   \* the end, in all

ASSUME SourcesAssumption == Sources \subseteq {"opencode", "pi"}
ASSUME SourceBounds ==
    /\ PendingCap \in Nat \ {0}
    /\ {MaxOut, MaxEpoch, MaxStamp, MaxReads, MaxFaults, MaxObs} \subseteq Nat
    /\ MaxEvents \in [Sources -> Nat]

VARIABLES
    source,
    out,        \* tokens up to this stamp have run out
    aged,       \* readings up to this one are over PENDING_OBSERVATION_MAX_AGE_MS old
    file,       \* the row in the files
    ready,      \* the files hold a migrated pool
    fresh,      \* fileKey unchanged since the snapshot's read, the last read, began
    snap,       \* the snapshot: its row, and active
    reads,      \* reads under way, in the order they began
    rotated,    \* the credential this process rotated, or Nil
    pendingObs, \* observations the files may not show yet
    writes,     \* quota writes queued behind each other
    drain,      \* how many of them dispose still waits for
    refresh,    \* the row's refresh under way, or Nil
    backoff,    \* the token whose refresh failed, while its back-off lasts, or Nil
    poll,       \* the quota poll under way, or Nil
    polled,     \* credentials that had their first poll
    enrolled,   \* the host is connected to the vault
    ending,     \* "no", "disposed", "closed"
    held,       \* the row the request was routed with
    phase,      \* the request: "idle", "wait", "ready"
    sent,       \* the last bearer sent, or Nil
    seen,       \* history: the last reading taken, and its credential
    faults, taken

files == <<file, ready, fresh>>
tokens == <<refresh, backoff>>
polls == <<poll, polled>>
request == <<held, phase, sent>>
writing == <<writes, drain, ending>>
world == <<enrolled, faults, source>>
clocks == <<out, aged>>
sourceVars == <<files, snap, reads, rotated, pendingObs, writing, tokens, polls, request,
          world, clocks, seen, taken>>

Nil == <<>>
NoReading == [at |-> 0, of |-> {}]

Events ==
    taken + (file.cred.stamp - 1) + faults + out + aged + (IF ending = "no" THEN 0 ELSE 1)
HasRoom == Events < MaxEvents[source]

\* Any write of the files changes their key.
Touched == [snap |-> FALSE, read |-> FALSE]

Newer(r, s) == IF s.at > r.at THEN s ELSE r

(***************************************************************************)
(* Rows                                                                    *)
(***************************************************************************)
candidate(row) == row.on /\ ~row.torn

\* A torn row is never offered, but it is polled: the poll completes it.
pollable(row) == row.on

\* poolAccountKey, with the identity
KeyOf(row) == <<row.epoch, row.who>>

\* A row of an account the vault holds is not this host's to use.  Pi sets the
\* whole pool aside in vault mode and knows no roster.
setAside == enrolled

vaultOwned(row) == setAside \/ (source = "opencode" /\ row.who \in Vaulted)

mergePoolObservation(row, reading) == [row EXCEPT !.reading = Newer(@, reading)]

\* A pending reading is never carried onto a replaced credential or identity, nor
\* once it is too old.
Carried(p, row) == p.key = KeyOf(row) /\ p.reading.at > aged

CarriedOnto(row) == {p.reading : p \in {q \in pendingObs : Carried(q, row)}}

\* The newest of them, merged one by one
Newest(readings) == CHOOSE r \in readings : \A s \in readings : s.at <= r.at

applyPendingPoolObservations(row) ==
    mergePoolObservation(row, Newest({row.reading} \cup CarriedOnto(row)))

\* The last PendingCap observations of the row's epoch; others can no longer apply.
rememberPoolObservation(row, reading) ==
    LET mine == {p \in pendingObs : p.key[1] = row.epoch}
                    \cup {[key |-> KeyOf(row), reading |-> reading]}
        oldest == {p \in mine : \A q \in mine : p.reading.at <= q.reading.at}
    IN  IF Cardinality(mine) > PendingCap THEN mine \ oldest ELSE mine

\* A rotation of another epoch belongs to a credential the row no longer holds;
\* one of this epoch stands until the files show it or a later one.
rotationStands(row) ==
    /\ rotated # Nil
    /\ rotated.epoch = row.epoch
    /\ row.cred.stamp < rotated.cred.stamp

\* Pi compares the stamps alone.
piRotationStands(row) == rotated # Nil /\ row.cred.stamp < rotated.cred.stamp

InForce(row) == IF source = "pi" THEN piRotationStands(row) ELSE rotationStands(row)

withLocalState(row) ==
    applyPendingPoolObservations(
        IF InForce(row) THEN [row EXCEPT !.cred = rotated.cred] ELSE row)

(***************************************************************************)
(* Tokens                                                                  *)
(***************************************************************************)
TokenOf(cred) == <<cred.epoch, cred.stamp>>

\* One account, unless a refresh handed back another's tokens.
AccountsOf(cred) == {cred.login, cred.who}

expired(cred) == cred.stamp <= out

refreshBackedOff(row) ==
    backoff = TokenOf(row.cred)

\* Mutant: whatever login the row shows by now
usableTokenStale(row) == snap.active /\ ~vaultOwned(snap.row) /\ ~expired(snap.row.cred)

\* The row is looked up again: a bearer of a login since disabled, replaced or
\* found to be the vault's is not offered.
usableToken(row) ==
    /\ snap.active
    /\ candidate(snap.row)
    /\ KeyOf(snap.row) = row.key
    /\ ~vaultOwned(snap.row)
    /\ ~expired(snap.row.cred)

piUsableToken(row) == ~setAside /\ ~expired(row.cred)

nextPoolRefreshBackoff(token) == token

\* The credentials whose refresh prepareTokens starts
Refreshable(row) ==
    candidate(row) /\ ~vaultOwned(row) /\ ~refreshBackedOff(row)

(***************************************************************************)
(* Init                                                                    *)
(***************************************************************************)
Row(who) ==
    [epoch |-> 1, who |-> who, on |-> TRUE, torn |-> FALSE, reading |-> NoReading,
     cred |-> [epoch |-> 1, stamp |-> 1, login |-> who, who |-> who]]

SourceInit ==
    /\ source \in Sources /\ out = 0 /\ aged = 0
    /\ \E who \in Identities \ Vaulted : file = Row(who)
    /\ ready \in BOOLEAN /\ fresh = Touched
    /\ snap = [row |-> file, active |-> FALSE]
    /\ reads = <<>> /\ rotated = Nil /\ pendingObs = {}
    /\ writes = <<>> /\ drain = 0 /\ ending = "no"
    /\ refresh = Nil /\ backoff = Nil
    /\ poll = Nil /\ polled = {}
    /\ enrolled = FALSE
    /\ held = Nil /\ phase = "idle" /\ sent = Nil
    /\ seen = Nil /\ faults = 0 /\ taken = 0

(***************************************************************************)
(* Polls                                                                   *)
(***************************************************************************)
\* requestReading: a poll already asked for is joined.  Bound: MaxObs readings.
requestReading == poll' = IF poll = Nil /\ taken < MaxObs THEN [step |-> "asked"] ELSE poll

\* pollUnseenRows: a row not yet polled with this credential, once the vault's
\* roster was read: bound, it was before the behaviour begins.
pollUnseenRows(row) ==
    IF pollable(row) /\ ~vaultOwned(row) /\ KeyOf(row) \notin polled
    THEN polled' = polled \union {KeyOf(row)} /\ requestReading
    ELSE UNCHANGED polls

(***************************************************************************)
(* Reads                                                                   *)
(***************************************************************************)
Contents == [row |-> file, ready |-> ready]

\* A read is shared by the requests that find the same files.  It reads them some
\* time after their key: at once, or as late as it ends.
startRead ==
    /\ source = "opencode" => ending = "no"
    /\ ~fresh.snap /\ ~fresh.read
    /\ Len(reads) < MaxReads
    /\ \E got \in {Contents, Nil} : reads' = Append(reads, got)
    /\ fresh' = [fresh EXCEPT !.read = TRUE]
    /\ UNCHANGED <<file, ready, snap, rotated, pendingObs, writing, tokens, polls, request,
                   world, clocks, seen, taken>>

\* The rest of read: what it read, with this process's own state, becomes the
\* snapshot.  Reads that began earlier are dropped when they end, so they are gone.
read(i) ==
    LET got == IF reads[i] = Nil THEN Contents ELSE reads[i]
        row == got.row
        last == i = Len(reads)
    IN  /\ reads' = SubSeq(reads, i + 1, Len(reads))
        /\ IF source = "opencode" /\ ending # "no"
           THEN UNCHANGED <<snap, rotated>>
           ELSE /\ snap' = [row |-> withLocalState(row), active |-> got.ready]
                /\ rotated' = IF got.ready /\ ~InForce(row) THEN Nil ELSE rotated
        /\ fresh' = [snap |-> last /\ fresh.read /\ ~(source = "opencode" /\ ending # "no"),
                     read |-> ~last /\ fresh.read]
        /\ IF snap'.active /\ ending = "no"
           THEN pollUnseenRows(snap'.row)
           ELSE UNCHANGED polls
        /\ UNCHANGED <<file, ready, pendingObs, writing, tokens, request, world, clocks,
                       seen, taken>>

\* An unreadable file keeps the last good rows.
FailRead(i) ==
    /\ reads' = RemoveAt(reads, i)
    /\ fresh' = [fresh EXCEPT !.read = @ /\ i # Len(reads)]
    /\ UNCHANGED <<file, ready, snap, rotated, pendingObs, writing, tokens, polls, request,
                   world, clocks, seen, taken>>

\* Pi, in this process or another, turns a config written before the pool into one.
initialize ==
    /\ source = "pi" /\ ~ready /\ ending = "no" /\ ~setAside
    /\ ready' = TRUE /\ fresh' = Touched
    /\ UNCHANGED <<file, snap, reads, rotated, pendingObs, writing, tokens, polls,
                   request, world, clocks, seen, taken>>

(***************************************************************************)
(* The request                                                             *)
(***************************************************************************)
\* The rows of one request are those of the snapshot, when the files are as it read
\* them or when a read of them exceeds its budget.
isCurrent ==
    /\ snap.active /\ candidate(snap.row) /\ ~vaultOwned(snap.row)
    /\ fresh.snap \/ ending # "no" \/ fresh.read

\* The refresh remembers the token the snapshot shows, for its back-off.
StartRefresh(row) ==
    refresh' = IF Refreshable(row) /\ refresh = Nil
               THEN [step |-> "start", before |-> TokenOf(row.cred)]
               ELSE refresh

\* A request waits only for a token that has run out.
prepareTokens ==
    /\ source = "opencode" /\ phase = "idle"
    /\ isCurrent
    /\ StartRefresh(snap.row)
    /\ held' = [key |-> KeyOf(snap.row), cred |-> Nil]
    /\ phase' = IF Refreshable(snap.row) /\ expired(snap.row.cred) THEN "wait" ELSE "ready"
    /\ UNCHANGED <<files, snap, reads, rotated, pendingObs, writing, backoff,
                   polls, sent, world, clocks, seen, taken>>

\* Pi never waits for a refresh, and sends the token of the row it routed with.
piRefreshDueTokens ==
    /\ source = "pi" /\ phase = "idle"
    /\ isCurrent
    /\ StartRefresh(snap.row)
    /\ held' = [key |-> KeyOf(snap.row), cred |-> snap.row.cred]
    /\ phase' = "ready"
    /\ UNCHANGED <<files, snap, reads, rotated, pendingObs, writing, backoff,
                   polls, sent, world, clocks, seen, taken>>

\* The idle poller's counterpart
refreshDueTokens ==
    /\ source = "opencode" /\ ending = "no" /\ snap.active
    /\ refresh = Nil /\ Refreshable(snap.row)
    /\ StartRefresh(snap.row)
    /\ UNCHANGED <<files, snap, reads, rotated, pendingObs, writing, backoff,
                   polls, request, world, clocks, seen, taken>>

Bearer == IF source = "pi" THEN held.cred ELSE snap.row.cred

accessFor ==
    /\ phase = "ready" \/ (phase = "wait" /\ refresh = Nil)
    /\ phase' = "idle" /\ held' = Nil
    /\ sent' = IF IF source = "pi" THEN piUsableToken(held) ELSE usableToken(held)
               THEN Bearer ELSE sent
    /\ UNCHANGED <<files, snap, reads, rotated, pendingObs, writing, tokens, polls,
                   world, clocks, seen, taken>>

(***************************************************************************)
(* The refresh                                                             *)
(***************************************************************************)
\* The store holds the row's lock from here to the write of the answer.
AskProvider ==
    /\ refresh # Nil /\ refresh.step = "start"
    /\ refresh' = IF enrolled \/ ~candidate(file)
                  THEN [refresh EXCEPT !.step = "failed"]
                  ELSE [step |-> "asked", before |-> refresh.before, epoch |-> file.epoch]
    /\ UNCHANGED <<files, snap, reads, rotated, pendingObs, writing, backoff,
                   polls, request, world, clocks, seen, taken>>

RowLocked == refresh # Nil /\ refresh.step = "asked"

\* A rotation keeps the login.
Rotation(who) == [file.cred EXCEPT !.stamp = @ + 1, !.who = who]

\* The connection to the vault is read again before the files are written.
Rotated ==
    /\ RowLocked /\ file.cred.stamp < MaxStamp /\ HasRoom
    /\ IF enrolled
       THEN refresh' = [refresh EXCEPT !.step = "failed"] /\ UNCHANGED files
       ELSE /\ file' = [file EXCEPT !.cred = Rotation(file.who)]
            /\ fresh' = Touched
            /\ refresh' = [step |-> "rotated", before |-> refresh.before,
                           epoch |-> refresh.epoch, cred |-> file'.cred]
            /\ UNCHANGED ready
    /\ UNCHANGED <<snap, reads, rotated, pendingObs, writing, backoff, polls,
                   request, world, clocks, seen, taken>>

\* The provider hands back another account's tokens: the store keeps them on the
\* row and disables it.
Contradicted ==
    /\ RowLocked /\ file.cred.stamp < MaxStamp /\ ~enrolled
    /\ faults < MaxFaults /\ HasRoom
    /\ \E who \in Identities \ {file.who} :
        file' = [file EXCEPT !.cred = Rotation(who), !.on = FALSE]
    /\ fresh' = Touched /\ faults' = faults + 1
    /\ refresh' = [refresh EXCEPT !.step = "contradicted"]
    /\ UNCHANGED <<ready, snap, reads, rotated, pendingObs, writing, backoff,
                   polls, request, enrolled, source, clocks, seen, taken>>

RefreshRefused ==
    /\ RowLocked
    /\ refresh' = [refresh EXCEPT !.step = "failed"]
    /\ UNCHANGED <<files, snap, reads, rotated, pendingObs, writing, backoff,
                   polls, request, world, clocks, seen, taken>>

\* Pi puts the tokens on the row whatever its epoch, and nothing in vault mode.
piRefreshedRow ==
    CASE setAside -> snap.row
      [] refresh.step = "contradicted" -> [snap.row EXCEPT !.on = FALSE]
      [] refresh.step = "rotated" -> [snap.row EXCEPT !.cred = refresh.cred]
      [] OTHER -> snap.row

\* What the snapshot's row becomes when a refresh of this process has ended
RefreshedRow ==
    CASE refresh.step = "contradicted" -> [snap.row EXCEPT !.on = FALSE]
      [] refresh.step = "rotated" /\ snap.row.epoch = refresh.epoch ->
            [snap.row EXCEPT !.cred = refresh.cred]
      [] OTHER -> snap.row

recordRefreshFailure == backoff' = nextPoolRefreshBackoff(refresh.before)

runRefresh ==
    /\ refresh # Nil /\ refresh.step \in {"rotated", "contradicted", "failed"}
    /\ refresh' = Nil
    /\ LET keeps == refresh.step = "rotated" /\ ~(source = "pi" /\ setAside)
       IN  rotated' = IF keeps THEN [epoch |-> refresh.epoch, cred |-> refresh.cred]
                      ELSE rotated
    /\ snap' = [snap EXCEPT !.row = IF source = "pi" THEN piRefreshedRow ELSE RefreshedRow]
    /\ IF refresh.step # "failed" THEN backoff' = Nil
       ELSE IF source = "pi" /\ setAside THEN UNCHANGED backoff ELSE recordRefreshFailure
    /\ UNCHANGED <<files, reads, pendingObs, writing, polls, request, world, clocks, seen, taken>>

(***************************************************************************)
(* Quota                                                                   *)
(***************************************************************************)
applyObservation(reading) ==
    /\ pendingObs' = rememberPoolObservation(snap.row, reading)
    /\ snap' = [snap EXCEPT !.row = mergePoolObservation(@, reading)]
    /\ seen' = [key |-> KeyOf(snap.row), at |-> reading.at]

\* Mutants: a reading of any token is taken; one is taken after dispose too
belongsToAny(token, readable) == TRUE

\* The token must be the row's own: of its account or, when its account cannot
\* be read from it, the very token the row holds.
belongs(token, readable) ==
    IF readable THEN token.who = snap.row.who
    ELSE /\ token.epoch = snap.row.cred.epoch
         /\ token.stamp = snap.row.cred.stamp

AcceptsLate == snap.active /\ ~setAside

\* Readings are taken as long as the process has not been disposed of.
Accepts == snap.active /\ ending = "no" /\ ~setAside

\* A response to the bearer sent, or a frame, carries a reading.
recordSnapshot ==
    /\ sent # Nil /\ taken < MaxObs /\ HasRoom
    /\ Accepts
    /\ \E readable \in BOOLEAN :
        /\ belongs(sent, readable)
        /\ LET reading == [at |-> taken + 1, of |-> AccountsOf(sent)]
           IN  /\ applyObservation(reading)
               /\ writes' = Append(writes, [key |-> KeyOf(snap.row), reading |-> reading])
    /\ taken' = taken + 1
    /\ sent' = Nil
    /\ UNCHANGED <<files, reads, rotated, drain, ending, tokens, polls, held, phase,
                   world, clocks>>

\* recordQuota drops a reading of a credential the row no longer holds.
recordQuota(key, reading) ==
    IF ~enrolled /\ key = KeyOf(file) /\ ~file.torn
    THEN file' = mergePoolObservation(file, reading) /\ fresh' = Touched
    ELSE UNCHANGED <<file, fresh>>

\* One write at a time; a host connected to the vault since drops it.
WriteQuota ==
    /\ writes # <<>> /\ ending # "closed"
    /\ writes' = Tail(writes)
    /\ drain' = IF drain > 0 THEN drain - 1 ELSE 0
    /\ recordQuota(Head(writes).key, Head(writes).reading)
    /\ UNCHANGED <<ready, snap, reads, rotated, pendingObs, ending, tokens, polls,
                   request, world, clocks, seen, taken>>

\* Admission asks for a reading of a row it refuses for want of one.
AskReading ==
    /\ snap.active /\ candidate(snap.row) /\ ~vaultOwned(snap.row) /\ ending = "no"
    /\ snap.row.reading = NoReading
    /\ poll = Nil /\ taken < MaxObs
    /\ requestReading
    /\ UNCHANGED <<files, snap, reads, rotated, pendingObs, writing, tokens, polled,
                   request, world, clocks, seen, taken>>

\* The menu's poll of every row
pollRows ==
    /\ snap.active /\ candidate(snap.row) /\ ~vaultOwned(snap.row) /\ ending = "no"
    /\ poll = Nil /\ taken < MaxObs
    /\ requestReading
    /\ StartRefresh(snap.row)
    /\ UNCHANGED <<files, snap, reads, rotated, pendingObs, writing, backoff, polled,
                   request, world, clocks, seen, taken>>

\* The store completes a torn row before it reads the credential to poll with.
Completed(row) == [row EXCEPT !.torn = FALSE, !.epoch = row.cred.epoch,
                              !.who = row.cred.login, !.reading = NoReading]

coalescedPull ==
    /\ poll # Nil /\ poll.step = "asked" /\ ~RowLocked
    /\ IF enrolled
       THEN poll' = Nil /\ UNCHANGED <<file, fresh>>
       ELSE LET row == IF file.torn THEN Completed(file) ELSE file
            IN  /\ file' = row
                /\ fresh' = IF file.torn THEN Touched ELSE fresh
                /\ poll' = IF row.on
                           THEN [step |-> "polling", key |-> KeyOf(row), of |-> AccountsOf(row.cred)]
                           ELSE Nil
    /\ UNCHANGED <<ready, snap, reads, rotated, pendingObs, writing, tokens, polled,
                   request, world, clocks, seen, taken>>

\* The answer counts for the snapshot only while its row is the one polled.
pull ==
    /\ poll # Nil /\ poll.step = "polling" /\ taken < MaxObs /\ HasRoom
    /\ LET reading == [at |-> taken + 1, of |-> poll.of]
       IN  /\ IF KeyOf(snap.row) = poll.key THEN applyObservation(reading)
              ELSE UNCHANGED <<snap, pendingObs, seen>>
           /\ recordQuota(poll.key, reading)
    /\ poll' = Nil /\ taken' = taken + 1
    /\ UNCHANGED <<ready, reads, rotated, writing, tokens, polled,
                   request, world, clocks>>

onPullFailure ==
    /\ poll # Nil /\ poll.step = "polling"
    /\ poll' = Nil
    /\ UNCHANGED <<files, snap, reads, rotated, pendingObs, writing, tokens, polled,
                   request, world, clocks, seen, taken>>

(***************************************************************************)
(* The end of the process                                                  *)
(***************************************************************************)
\* dispose waits for the writes accepted so far, then closes the store.
dispose ==
    /\ ending = "no" /\ HasRoom
    /\ ending' = "disposed" /\ drain' = Len(writes)
    /\ UNCHANGED <<files, snap, reads, rotated, pendingObs, writes, tokens, polls,
                   request, world, clocks, seen, taken>>

Close ==
    /\ ending = "disposed" /\ drain = 0 /\ ending' = "closed"
    /\ UNCHANGED <<files, snap, reads, rotated, pendingObs, writes, drain, tokens,
                   polls, request, world, clocks, seen, taken>>

(***************************************************************************)
(* Others                                                                  *)
(***************************************************************************)
Elsewhere == /\ fresh' = Touched
             /\ UNCHANGED <<ready, snap, reads, rotated, pendingObs, writing, tokens,
                            polls, request, enrolled, source, clocks, seen, taken>>

\* Another process rotates the token.
OtherRefresh ==
    /\ ~RowLocked /\ candidate(file) /\ file.cred.stamp < MaxStamp /\ HasRoom
    /\ file' = [file EXCEPT !.cred = Rotation(file.who)]
    /\ UNCHANGED faults
    /\ Elsewhere

\* The row is signed in again, by a write that may stop before the row's config.
\* The new login's stamp is at least that of the last rotation.
Relogin ==
    /\ ~RowLocked /\ file.epoch < MaxEpoch /\ ~file.torn
    /\ \E who \in Identities, torn \in BOOLEAN :
        LET login == [file.cred EXCEPT !.epoch = @ + 1, !.login = who, !.who = who]
            row == [file EXCEPT !.cred = login, !.on = TRUE]
        IN  /\ faults < MaxFaults /\ HasRoom /\ faults' = faults + 1
            /\ file' = IF torn THEN [row EXCEPT !.torn = TRUE] ELSE Completed(row)
    /\ Elsewhere

\* A row is turned off or on.
Switch ==
    /\ ~RowLocked /\ faults < MaxFaults /\ HasRoom /\ faults' = faults + 1
    /\ file' = [file EXCEPT !.on = ~@]
    /\ Elsewhere

\* The install's migration completes (pool-migration.ts).
Migrated ==
    /\ source = "opencode" /\ ~ready /\ ready' = TRUE /\ fresh' = Touched
    /\ UNCHANGED <<file, snap, reads, rotated, pendingObs, writing, tokens, polls,
                   request, world, clocks, seen, taken>>

\* The host connects to the vault or disconnects.
Enroll ==
    /\ faults < MaxFaults /\ HasRoom /\ faults' = faults + 1
    /\ enrolled' = ~enrolled
    /\ UNCHANGED <<files, snap, reads, rotated, pendingObs, writing, tokens, polls,
                   request, source, clocks, seen, taken>>

(***************************************************************************)
(* Time                                                                    *)
(***************************************************************************)
RunOut ==
    /\ out < MaxOut /\ HasRoom /\ out' = out + 1
    /\ UNCHANGED <<files, snap, reads, rotated, pendingObs, writing, tokens, polls,
                   request, world, aged, seen, taken>>

\* The oldest reading that is not yet, becomes too old to be carried onto a row.
Ages ==
    /\ aged < taken /\ HasRoom /\ aged' = aged + 1
    /\ UNCHANGED <<files, snap, reads, rotated, pendingObs, writing, tokens, polls,
                   request, world, out, seen, taken>>

BackoffEnds ==
    /\ backoff # Nil /\ backoff' = Nil
    /\ UNCHANGED <<files, snap, reads, rotated, pendingObs, writing, refresh, polls,
                   request, world, clocks, seen, taken>>

Step ==
    \/ startRead \/ \E i \in DOMAIN reads : read(i) \/ FailRead(i)
    \/ initialize
    \/ prepareTokens \/ piRefreshDueTokens \/ refreshDueTokens \/ accessFor
    \/ AskProvider \/ Rotated \/ Contradicted \/ RefreshRefused \/ runRefresh
    \/ recordSnapshot \/ WriteQuota \/ AskReading \/ pollRows
    \/ coalescedPull \/ pull \/ onPullFailure
    \/ dispose \/ Close
    \/ OtherRefresh \/ Relogin \/ Switch \/ Migrated \/ Enroll \/ RunOut \/ Ages
    \/ BackoffEnds

\* What goes on in a closed source changes nothing the properties speak of.
SourceNext == ending # "closed" /\ Step

SourceSpec == SourceInit /\ [][SourceNext]_sourceVars

(***************************************************************************)
(* Properties                                                              *)
(***************************************************************************)
\* OpenCode sends a request the login it was routed with, or none: never one the
\* row was signed in with before or since, whatever a refresh or a read under
\* way brought back in between (usableToken, runRefresh, withLocalState).
SendsHeldLogin ==
    [][source = "opencode" /\ sent' # sent =>
        \/ sent' = Nil
        \/ /\ <<sent'.epoch, sent'.login>> = held.key
           /\ sent'.login \notin Vaulted]_sourceVars

ReadingIsOwn(row) == row.reading = NoReading \/ row.who \in row.reading.of

\* A reading taken from an answer stays in the rows the next decision sees while
\* its write is queued, refused or overtaken by a read of older files, for as long
\* as it is not too old, and never shows on a row of another account
\* (rememberPoolObservation and its twins).
ReadingsStay ==
    /\ seen # Nil /\ seen.key = KeyOf(snap.row) /\ seen.at > aged =>
            snap.row.reading.at >= seen.at
    /\ source = "opencode" /\ candidate(snap.row) => ReadingIsOwn(snap.row)
    /\ source = "opencode" => ReadingIsOwn(file)

\* What was accepted before dispose is written before the store closes (dispose).
DrainedBeforeClose == ending = "closed" => writes = <<>>
=============================================================================
