---------------------------- MODULE PoolTransfer ----------------------------
(***************************************************************************)
(* The move of an OAuth login from OpenCode's login slot (auth.json) into  *)
(* the account pool, the refreshers that compete with it for the login's   *)
(* single-use refresh token, and the host, which writes the slot without   *)
(* taking any lock (pool-migration.ts, host-slot.ts, index.ts).            *)
(*                                                                         *)
(* A login is granted once by the provider and rotates at every refresh:   *)
(* a token is <<login, generation>>, and it is spent as soon as the        *)
(* provider has answered a refresh of it.  One token stands for the        *)
(* (access, refresh) pair, and for each of the fingerprints the code       *)
(* compares instead of the pair itself.                                    *)
(*                                                                         *)
(* Three actors: the run (a migration or an adoption; the locks            *)
(* `pool-slot-transfer` and `pool-migration` admit one at a time, and are  *)
(* held exactly while rpc # "idle"), the slot refresh                      *)
(* (refreshMainWithLease) and a row refresh (refreshPoolRow, or the legacy *)
(* FallbackAccountManager before the migration is marked done).            *)
(***************************************************************************)
EXTENDS Naturals, FiniteSets

CONSTANTS
    Logins,        \* grants the provider may issue, numbered in that order
    MaxGen,        \* bound: refreshes of one login
    Owners,        \* Owners[l]: the wire identities login l may turn out to have
    RowIds,        \* ids of pool rows
    Main,          \* the row id `main`
    Self, Foreign, Untagged,   \* placeholder, by the origin its tag names
    Nothing,       \* absent: no login, no credential, no record, no shield
    MaxAttempts,   \* planning attempts of one run
    MaxFaults,     \* bound: crashes, lost answers, refused writes, torn reads, stale write-backs
    SharedSlot,    \* another store's config root shares the slot
    WriteBack      \* the host may write an earlier read of its file back

Identities == UNION {Owners[l] : l \in Logins}   \* Nothing: unreadable access token
Tokens == Logins \X (0..MaxGen)
Placeholders == {Self, Foreign, Untagged}
Operations == {"add", "rotate", "replace"}

(* A transfer record: the target row, what is done to it, and the           *)
(* credential it held before and is to hold after.                          *)
Record == [row : RowIds, op : Operations, before : Tokens \cup {Nothing}, tok : Tokens]

ASSUME BoundsAssumption == MaxGen \in Nat /\ MaxAttempts \in Nat \ {0} /\ MaxFaults \in Nat
ASSUME LoginsAssumption == Logins \subseteq Nat
ASSUME MainAssumption == Main \in RowIds
ASSUME FlagsAssumption == SharedSlot \in BOOLEAN /\ WriteBack \in BOOLEAN
ASSUME MarksAssumption ==
    /\ Nothing \notin Tokens \cup Placeholders \cup RowIds \cup Record
    /\ Placeholders \cap Tokens = {}
    /\ Self # Foreign /\ Self # Untagged /\ Foreign # Untagged

VARIABLES
    issued,    \* logins the provider has granted
    acct,      \* a login's wire identity, Nothing when it cannot be read
    gen,       \* a login's unspent generation
    slot,      \* what auth.json holds under `openai`
    rows,      \* a row's credential; Nothing: no row, or a row without one
    off,       \* disabled rows
    migrated,  \* openaiAuthPool.migratedAt is set
    pending,   \* openaiAuthPool.pending
    expired,   \* that record is older than PENDING_TRANSFER_TTL_MS
    declined,  \* openaiAuthPool.declinedSlotFingerprint
    shield,    \* mainAccountId
    lease,     \* token of the active lease in state.main
    mainLock,  \* holder of `main-refresh`
    rpc, mode, rec, tries, hint,   \* the run
    spc, stok,                     \* the slot refresh
    bpc, brow, btok, bkind,        \* a row refresh
    burned,    \* history: tokens whose rotated successor was lost
    waived,    \* history: tokens declined for adoption, or whose record was dropped
               \*   under a slot refresh that had read them
    reclaimed, \* history: tokens whose expired record was dropped
    taken,     \* history: the token another store's placeholder in the slot stands for
    reused,    \* history: tokens sent again after they were spent
    raced,     \* history: the host wrote the slot since its last locked read
    faults

provider == <<issued, acct, gen>>
store    == <<rows, off>>
book     == <<migrated, pending, expired, declined, shield>>
run      == <<rpc, mode, rec, tries, hint>>
slotRef  == <<spc, stok>>
rowRef   == <<bpc, brow, btok, bkind>>
history  == <<burned, waived, reclaimed, reused, taken>>
vars == <<provider, slot, store, book, lease, mainLock, run, slotRef,
          rowRef, history, raced, faults>>

-----------------------------------------------------------------------------
(* Tokens *)

Identity(t) == acct[t[1]]
Spent(t) == t[2] < gen[t[1]]
Rotated(t) == <<t[1], t[2] + 1>>

(* Row `r` is the one `mainAccountId` hides from legacy refreshers.         *)
isShieldedMainRow(r) ==
    /\ shield # Nothing
    /\ rows[r] # Nothing
    /\ Identity(rows[r]) = shield

(* The store's rows are written under the row lock, `main-refresh` and the  *)
(* row's fallback lock; the last is held by a row refresh of that row.      *)
RowFree(r) == mainLock = "free" /\ ~(bpc # "idle" /\ brow = r)

-----------------------------------------------------------------------------
(* The pool transfer record *)

MakeRecord(r, op, old, t) == [row |-> r, op |-> op, before |-> old, tok |-> t]

(* Mutant: the slot refresh does not look for a record.                     *)
PendingIgnored(t) == FALSE

(* poolTransferPendingFor: the record on disk names this token.             *)
PendingFor(t) == pending # Nothing /\ pending.tok = t

(* The rows that hold a token.                                              *)
Holders(t) == {r \in RowIds : rows[r] = t}

(* resolveTarget: the row already holding the token, else an unfilled       *)
(* `main`, else the enabled row of the same account, else a new row.  The   *)
(* id of an earlier attempt of this run wins over a new id.                 *)
resolveTarget(t) ==
    LET same   == Holders(t)
        holder == {r \in RowIds \ off :
                     /\ rows[r] # Nothing
                     /\ Identity(t) # Nothing
                     /\ Identity(rows[r]) = Identity(t)}
        fresh  == IF hint # Nothing THEN {hint}
                  ELSE {r \in RowIds \ {Main} : rows[r] = Nothing}
    IN  IF same # {} THEN {MakeRecord(r, "rotate", t, t) : r \in same}
        ELSE IF rows[Main] = Nothing THEN {MakeRecord(Main, "add", Nothing, t)}
        ELSE IF holder # {} THEN {MakeRecord(r, "replace", rows[r], t) : r \in holder}
        ELSE {MakeRecord(r, "add", Nothing, t) : r \in fresh}

-----------------------------------------------------------------------------
(* The run: migrateToPool and adoptHostSlotLogin *)

EndRun ==
    /\ rpc' = "idle" /\ mode' = "none" /\ rec' = Nothing
    /\ tries' = 0 /\ hint' = Nothing

(* One more planning attempt, or `unsettled` when there is none left.       *)
Restart ==
    IF tries + 1 < MaxAttempts
    THEN rpc' = "plan" /\ tries' = tries + 1 /\ rec' = Nothing /\ UNCHANGED <<mode, hint>>
    ELSE EndRun

Goto(pc) == rpc' = pc /\ UNCHANGED <<mode, rec, tries, hint>>

ReleaseMain == mainLock' = IF mainLock = "run" THEN "free" ELSE mainLock

(* Mutant: adoption never starts.                                           *)
GateMigrationOnly(m) == pending # Nothing \/ (m = "migrate" /\ ~migrated)

(* gate: a pending record skips the checks on the migration marker.         *)
Gate(m) == pending # Nothing \/ (m = "migrate") = ~migrated

StartRun(m) ==
    /\ rpc = "idle"
    /\ Gate(m)
    /\ rpc' = "plan" /\ mode' = m
    /\ UNCHANGED <<rec, tries, hint, provider, slot, store, book, lease, mainLock,
                   slotRef, rowRef, history, raced, faults>>

(* Mutant: the repair does not look for a transfer in flight.               *)
RepairShieldAlways ==
    /\ migrated /\ shield # Nothing
    /\ shield' = Nothing
    /\ UNCHANGED <<provider, slot, store, migrated, pending, expired, declined, lease,
                   mainLock, run, slotRef, rowRef, history, raced, faults>>

(* A migration that finds the store migrated drops a leftover shield.  The  *)
(* caller holds no lock: any process may do this at any time.               *)
RepairShield ==
    /\ migrated /\ pending = Nothing /\ shield # Nothing
    /\ shield' = Nothing
    /\ UNCHANGED <<provider, slot, store, migrated, pending, expired, declined, lease,
                   mainLock, run, slotRef, rowRef, history, raced, faults>>

WriteFinished(m, t) ==
    /\ pending' = Nothing /\ expired' = FALSE
    /\ shield' = Nothing
    /\ migrated' = (migrated \/ m = "migrate")
    /\ declined' = IF t = Nothing THEN declined ELSE t

clearRecord ==
    pending' = Nothing /\ expired' = FALSE /\ UNCHANGED <<migrated, declined, shield>>

(* One pass of runLocked up to and including the decision of plan().  The   *)
(* slot read waits out a lease on its token; a read that never settles, or  *)
(* a lease that outlasts the wait, ends the run (StopRun).                  *)
Planning ==
    /\ rpc = "plan"
    /\ lease = Nothing \/ slot # lease
    /\ UNCHANGED <<provider, slot, store, lease, mainLock, slotRef, rowRef,
                   raced, faults>>

KeepBook == UNCHANGED <<book, history>>

(* The marker was written, or the record dropped, since the run began: an   *)
(* already migrated store only loses a leftover shield.                     *)
PlanGate ==
    /\ Planning
    /\ ~Gate(mode)
    /\ EndRun
    /\ shield' = IF migrated THEN Nothing ELSE shield
    /\ UNCHANGED <<migrated, pending, expired, declined, history>>

placeholderWithoutMain ==
    slot \in Placeholders /\ rows[Main] = Nothing /\ pending = Nothing

PlanRefused == Planning /\ Gate(mode) /\ placeholderWithoutMain /\ EndRun /\ KeepBook

(* No login to move: only a migration has something to write, its marker.   *)
PlanNothing ==
    /\ Planning
    /\ Gate(mode) /\ pending = Nothing /\ ~placeholderWithoutMain
    /\ slot \notin Tokens \/ slot = declined
    /\ EndRun
    /\ IF mode = "migrate" THEN WriteFinished(mode, Nothing) ELSE UNCHANGED book
    /\ UNCHANGED history

PlanFresh ==
    /\ Planning
    /\ Gate(mode) /\ pending = Nothing
    /\ slot \in Tokens /\ slot # declined
    /\ \E p \in resolveTarget(slot) : rec' = p /\ hint' = p.row
    /\ rpc' = "record"
    /\ UNCHANGED <<mode, tries>>
    /\ KeepBook

(* Mutant NeverHappenedAlways: a row rotated since counts as untouched.     *)
(* With a record, the row says how far the interrupted transfer got.        *)
Happened(p) == rows[p.row] = p.tok
NeverHappened(p) == rows[p.row] = p.before
RowMissing(p) == rows[p.row] = Nothing

PlanFinish ==
    /\ Planning
    /\ pending # Nothing /\ Happened(pending)
    /\ rpc' = "verify" /\ rec' = pending
    /\ UNCHANGED <<mode, tries, hint>>
    /\ KeepBook

PlanResume ==
    /\ Planning
    /\ pending # Nothing /\ ~Happened(pending) /\ NeverHappened(pending)
    /\ slot = pending.tok
    /\ rpc' = "lease" /\ rec' = pending
    /\ UNCHANGED <<mode, tries, hint>>
    /\ KeepBook

PlanAmbiguous ==
    /\ Planning
    /\ pending # Nothing
    /\ ~Happened(pending) /\ ~NeverHappened(pending) /\ ~RowMissing(pending)
    /\ slot = pending.tok
    /\ EndRun
    /\ WriteFinished(mode, pending.tok)
    /\ waived' = waived \cup {pending.tok}
    /\ UNCHANGED <<burned, reclaimed, reused, taken>>

PlanDropRecord ==
    /\ Planning
    /\ pending # Nothing /\ ~Happened(pending)
    /\ slot # pending.tok \/ (RowMissing(pending) /\ ~NeverHappened(pending))
    /\ clearRecord
    /\ Restart
    /\ waived' = IF stok = pending.tok THEN waived \cup {stok} ELSE waived
    /\ UNCHANGED <<burned, reclaimed, reused, taken>>

(* writeRecord: the record and the shield, one config write.  A login whose *)
(* identity cannot be read raises no shield.                                *)
writeRecord ==
    /\ rpc = "record"
    /\ pending' = rec /\ expired' = FALSE
    /\ shield' = IF Identity(rec.tok) # Nothing THEN Identity(rec.tok) ELSE shield
    /\ Goto("lease")
    /\ UNCHANGED <<provider, slot, store, migrated, declined, lease, mainLock, slotRef,
                   rowRef, history, raced, faults>>

(* Mutant: the lease is not read again after the record is written.         *)
legacyLeaseUnread ==
    /\ rpc = "lease"
    /\ Goto("confirm")
    /\ UNCHANGED <<provider, slot, store, book, lease, mainLock, slotRef, rowRef,
                   history, raced, faults>>

(* With the record on disk: the lease first, then the slot.                 *)
legacyLeaseActive ==
    /\ rpc = "lease"
    /\ IF lease = rec.tok THEN Restart ELSE Goto("confirm")
    /\ UNCHANGED <<provider, slot, store, book, lease, mainLock, slotRef, rowRef,
                   history, raced, faults>>

ConfirmSlot ==
    /\ rpc = "confirm"
    /\ IF slot = rec.tok THEN Goto("apply") ELSE Restart
    /\ UNCHANGED <<provider, slot, store, book, lease, mainLock, slotRef, rowRef,
                   history, raced, faults>>

(* applyToRow.  The store (external) turns an add of a token another row    *)
(* holds into a rotate of that row and refuses an add over a row that holds *)
(* another credential; a rotate or a replace is unconditional.              *)
applyToRow ==
    LET twin == Holders(rec.tok)
        target == IF rec.op = "add" /\ twin # {} THEN CHOOSE r \in twin : TRUE ELSE rec.row
    IN  /\ rpc = "apply"
        /\ RowFree(target)
        /\ IF rec.op = "add" /\ twin = {} /\ rows[rec.row] # Nothing
           THEN EndRun /\ UNCHANGED rows
           ELSE rows' = [rows EXCEPT ![target] = rec.tok] /\ Goto("verify")
        /\ UNCHANGED <<provider, slot, off, book, lease, mainLock, slotRef, rowRef,
                       history, raced, faults>>

verifyRow ==
    /\ rpc = "verify"
    /\ IF rows[rec.row] = rec.tok THEN Goto("fence") ELSE EndRun
    /\ UNCHANGED <<provider, slot, store, book, lease, mainLock, slotRef, rowRef,
                   history, raced, faults>>

(* finishUnderMainLock.  The fence read decides what becomes of the record. *)
FenceRead ==
    /\ rpc = "fence"
    /\ mainLock = "free"
    /\ \/ /\ slot = Self
          /\ mainLock' = "run" /\ Goto("finish")
       \/ /\ slot = Foreign
          /\ mainLock' = "free" /\ Goto("rollback")
       \/ /\ slot = Untagged
          /\ mainLock' = "free" /\ Goto("disable")
       \/ /\ slot = rec.tok
          /\ mainLock' = "run" /\ Goto("last")
       \/ /\ slot \in Tokens \ {rec.tok}
          /\ Identity(rec.tok) # Nothing /\ Identity(slot) = Identity(rec.tok)
          /\ mainLock' = "run" /\ Goto("clear")
       \/ /\ slot \notin Placeholders \cup {rec.tok}
          /\ ~(/\ slot \in Tokens
               /\ Identity(rec.tok) # Nothing /\ Identity(slot) = Identity(rec.tok))
          /\ mainLock' = "run" /\ Goto("finish")
    /\ UNCHANGED <<provider, slot, store, book, lease, slotRef, rowRef,
                   history, raced, faults>>

(* A new token of the same account: the record goes, the shield stays.      *)
ClearAndRestart ==
    /\ rpc = "clear"
    /\ clearRecord
    /\ ReleaseMain
    /\ Restart
    /\ UNCHANGED <<provider, slot, store, lease, slotRef, rowRef, history, raced, faults>>

(* Mutant: the placeholder is written without the last read of the slot.    *)
LastReadSkipped ==
    /\ rpc = "last"
    /\ raced' = FALSE
    /\ Goto("put")
    /\ UNCHANGED <<provider, slot, store, book, lease, mainLock, slotRef, rowRef, history, faults>>

(* The read right before the write, and the adapter's own: any change ends  *)
(* the run with the record and the shield kept.                             *)
LastRead ==
    /\ rpc = "last"
    /\ raced' = FALSE
    /\ IF slot = rec.tok THEN Goto("put") /\ UNCHANGED mainLock
                         ELSE EndRun /\ ReleaseMain
    /\ UNCHANGED <<provider, slot, store, book, lease, slotRef, rowRef, history, faults>>

PutPlaceholder ==
    /\ rpc = "put"
    /\ slot' = Self
    /\ Goto("readback")
    /\ UNCHANGED <<provider, store, book, lease, mainLock, slotRef, rowRef, history, raced, faults>>

ReadBack ==
    /\ rpc = "readback"
    /\ \/ slot = Self /\ Goto("finish") /\ UNCHANGED mainLock
       \/ /\ slot \in {Foreign, Untagged}
          /\ Goto(IF slot = Foreign THEN "rollback" ELSE "disable") /\ ReleaseMain
       \/ slot \notin Placeholders /\ EndRun /\ ReleaseMain
    /\ UNCHANGED <<provider, slot, store, book, lease, slotRef, rowRef,
                   history, raced, faults>>

FinishTransfer ==
    /\ rpc = "finish"
    /\ WriteFinished(mode, Nothing)
    /\ ReleaseMain
    /\ EndRun
    /\ UNCHANGED <<provider, slot, store, lease, slotRef, rowRef, history, raced, faults>>

(* An untagged placeholder: the row is kept, disabled.                      *)
DisableRow ==
    /\ rpc = "disable"
    /\ RowFree(rec.row)
    /\ off' = off \cup {rec.row}
    /\ Goto("finish")
    /\ UNCHANGED <<provider, slot, rows, book, lease, mainLock, slotRef, rowRef,
                   history, raced, faults>>

(* Mutant: the rollback leaves the copied row in place.                     *)
RemoveRowForgotten ==
    /\ rpc = "rollback"
    /\ Goto("unrecord")
    /\ UNCHANGED <<provider, slot, store, book, lease, mainLock, slotRef, rowRef,
                   history, raced, faults>>

(* Another store's placeholder: the copy is removed, if it is still there.  *)
RemoveRow ==
    /\ rpc = "rollback"
    /\ RowFree(rec.row)
    /\ IF rows[rec.row] = rec.tok
       THEN rows' = [rows EXCEPT ![rec.row] = Nothing] /\ Goto("unrecord")
       ELSE EndRun /\ UNCHANGED rows
    /\ UNCHANGED <<provider, slot, off, book, lease, mainLock, slotRef, rowRef,
                   history, raced, faults>>

RollbackRecord ==
    /\ rpc = "unrecord"
    /\ clearRecord
    /\ Goto("unshield")
    /\ UNCHANGED <<provider, slot, store, lease, mainLock, slotRef, rowRef, history,
                   raced, faults>>

RollbackShield ==
    /\ rpc = "unshield"
    /\ shield' = Nothing
    /\ EndRun
    /\ UNCHANGED <<provider, slot, store, migrated, pending, expired, declined, lease,
                   mainLock, slotRef, rowRef, history, raced, faults>>

(* A crash of the run's process, an unsettled slot read, a lock that is not *)
(* granted in time or a refused store write: files stay as they are, the    *)
(* locks are released (or expire).                                          *)
StopRun ==
    /\ rpc # "idle"
    /\ faults < MaxFaults
    /\ faults' = faults + 1
    /\ EndRun
    /\ ReleaseMain
    /\ UNCHANGED <<provider, slot, store, book, lease, slotRef, rowRef, history, raced>>

-----------------------------------------------------------------------------
(* The slot refresh: refreshMainWithLease *)

EndSlot == spc' = "idle" /\ stok' = Nothing /\ mainLock' = "free"

(* Backs off from an active lease on the token, takes `main-refresh` if it  *)
(* is free, and reads the slot again under it.                              *)
SlotLock ==
    /\ spc = "idle" /\ mainLock = "free"
    /\ slot \in Tokens /\ slot # lease
    /\ slot[2] < MaxGen
    /\ spc' = "reclaim" /\ stok' = slot
    /\ mainLock' = "slot"
    /\ raced' = FALSE
    /\ UNCHANGED <<provider, slot, store, book, lease, run, rowRef, history, faults>>

(* A record grows old (10 min) only after its run is gone: a run, a refresh *)
(* and a lease last seconds.                                                *)
RecordExpires ==
    /\ pending # Nothing /\ ~expired
    /\ rpc = "idle" /\ spc = "idle" /\ bpc = "idle" /\ lease = Nothing
    /\ expired' = TRUE
    /\ UNCHANGED <<provider, slot, store, migrated, pending, declined, shield, lease,
                   mainLock, run, slotRef, rowRef, history, raced, faults>>

(* reclaimExpiredPoolTransfer.  A live run holds the run lock and keeps its *)
(* record; so does a migrated row that holds the token.                     *)
ReclaimAllowed ==
    /\ PendingFor(stok) /\ expired
    /\ rpc = "idle"
    /\ ~(migrated /\ rows[pending.row] = stok)

SlotReclaim ==
    /\ spc = "reclaim" /\ spc' = "lease"
    /\ ReclaimAllowed
    /\ LET overtaken == rows[pending.row] \notin {Nothing, pending.tok, pending.before}
       IN  /\ declined' = IF overtaken THEN stok ELSE declined
           /\ waived' = IF overtaken THEN waived \cup {stok} ELSE waived
    /\ pending' = Nothing /\ expired' = FALSE
    /\ reclaimed' = reclaimed \cup {stok}
    /\ UNCHANGED <<stok, provider, slot, store, migrated, shield, lease, mainLock, run,
                   rowRef, burned, reused, taken, raced, faults>>

SlotKeepRecord ==
    /\ spc = "reclaim" /\ spc' = "lease"
    /\ ~ReclaimAllowed
    /\ UNCHANGED <<stok, provider, slot, store, book, lease, mainLock, run, rowRef,
                   history, raced, faults>>

(* One locked write: stand down for a pending record, or set the lease.     *)
SlotLease ==
    /\ spc = "lease"
    /\ IF PendingFor(stok)
       THEN EndSlot /\ UNCHANGED lease
       ELSE lease' = stok /\ spc' = "send" /\ UNCHANGED <<stok, mainLock>>
    /\ UNCHANGED <<provider, slot, store, book, run, rowRef, history, raced, faults>>

(* The provider rotates an unspent token and refuses a spent one.           *)
Answer(t) == gen' = [gen EXCEPT ![t[1]] = @ + 1] /\ UNCHANGED <<issued, acct>>

SlotSend ==
    /\ spc = "send" /\ ~Spent(stok)
    /\ Answer(stok)
    /\ spc' = "persist"
    /\ UNCHANGED <<stok, slot, store, book, lease, mainLock, run, rowRef, history,
                   raced, faults>>

SlotRefused ==
    /\ spc = "send" /\ Spent(stok)
    /\ reused' = reused \cup {stok}
    /\ lease' = Nothing
    /\ EndSlot
    /\ UNCHANGED <<provider, slot, store, book, run, rowRef, burned, waived,
                   reclaimed, taken, raced, faults>>

(* persistMainAuthTokens writes whatever the slot holds by then.            *)
SlotPersist ==
    /\ spc = "persist"
    /\ slot' = Rotated(stok)
    /\ spc' = "clear"
    /\ UNCHANGED <<stok, provider, store, book, lease, mainLock, run, rowRef, history,
                   raced, faults>>

SlotClear ==
    /\ spc = "clear"
    /\ lease' = Nothing
    /\ EndSlot
    /\ UNCHANGED <<provider, slot, store, book, run, rowRef, history, raced, faults>>

(* A provider error leaves the token unspent, or spent when only the answer *)
(* was lost; a write refused three times (AuthPersistError) loses the       *)
(* rotated token.  The `finally` clears the lease.                          *)
SlotFail ==
    /\ spc \in {"send", "persist"}
    /\ faults < MaxFaults
    /\ faults' = faults + 1
    /\ \/ spc = "send" /\ UNCHANGED <<provider, burned>>
       \/ spc = "send" /\ ~Spent(stok) /\ Answer(stok) /\ burned' = burned \cup {stok}
       \/ spc = "persist" /\ burned' = burned \cup {stok} /\ UNCHANGED provider
    /\ lease' = Nothing
    /\ EndSlot
    /\ UNCHANGED <<slot, store, book, run, rowRef, waived, reclaimed, reused, taken,
                   raced>>

(* A crash leaves the lease behind until it expires.                        *)
SlotCrash ==
    /\ spc # "idle"
    /\ faults < MaxFaults
    /\ faults' = faults + 1
    /\ burned' = IF spc = "persist" THEN burned \cup {stok} ELSE burned
    /\ EndSlot
    /\ UNCHANGED <<provider, slot, store, book, lease, run, rowRef, waived, reclaimed,
                   reused, taken, raced>>

(* The lease (90 s) outlives the provider call (15 s), so only a lease      *)
(* whose holder is gone expires.                                            *)
LeaseExpires ==
    /\ lease # Nothing /\ spc \notin {"send", "persist", "clear"}
    /\ lease' = Nothing
    /\ UNCHANGED <<provider, slot, store, book, mainLock, run, slotRef, rowRef, history,
                   raced, faults>>

-----------------------------------------------------------------------------
(* A row refresh *)

StartRow(r, kind) ==
    /\ bpc = "idle"
    /\ rows[r] # Nothing /\ r \notin off
    /\ rows[r][2] < MaxGen
    /\ bpc' = "send" /\ brow' = r /\ btok' = rows[r] /\ bkind' = kind
    /\ UNCHANGED <<provider, slot, store, book, lease, run, slotRef, history, raced, faults>>

(* refreshPoolRow: the pool refreshes rows once the migration is marked     *)
(* done, under `main-refresh`, and not past a lease on the row's token.     *)
PoolRowStart(r) ==
    /\ migrated
    /\ mainLock = "free" /\ mainLock' = "row"
    /\ lease = Nothing \/ lease # rows[r]
    /\ StartRow(r, "pool")

(* FallbackAccountManager.refreshAccountNow, before that: under the row's   *)
(* fallback lock only; a shielded row is left alone unless it is `main`,    *)
(* served for a slot that holds the placeholder (asPoolMain).               *)
LegacyRowStart(r) ==
    /\ ~migrated
    /\ ~isShieldedMainRow(r) \/ (r = Main /\ slot \in Placeholders)
    /\ StartRow(r, "legacy")
    /\ UNCHANGED mainLock

EndRow ==
    /\ bpc' = "idle" /\ brow' = Nothing /\ btok' = Nothing /\ bkind' = "none"
    /\ mainLock' = IF bkind = "pool" THEN "free" ELSE mainLock

RowSend ==
    /\ bpc = "send" /\ ~Spent(btok)
    /\ Answer(btok)
    /\ bpc' = "store"
    /\ UNCHANGED <<brow, btok, bkind, slot, store, book, lease, mainLock, run, slotRef,
                   history, raced, faults>>

RowRefused ==
    /\ bpc = "send" /\ Spent(btok)
    /\ reused' = reused \cup {btok}
    /\ EndRow
    /\ UNCHANGED <<provider, slot, store, book, lease, run, slotRef, burned, waived,
                   reclaimed, taken, raced, faults>>

RowStore ==
    /\ bpc = "store"
    /\ rows' = [rows EXCEPT ![brow] = Rotated(btok)]
    /\ EndRow
    /\ UNCHANGED <<provider, slot, off, book, lease, run, slotRef, history, raced, faults>>

RowFail ==
    /\ bpc # "idle"
    /\ faults < MaxFaults
    /\ faults' = faults + 1
    /\ \/ bpc = "send" /\ UNCHANGED <<provider, burned>>
       \/ bpc = "send" /\ ~Spent(btok) /\ Answer(btok) /\ burned' = burned \cup {btok}
       \/ bpc = "store" /\ burned' = burned \cup {btok} /\ UNCHANGED provider
    /\ EndRow
    /\ UNCHANGED <<slot, store, book, lease, run, slotRef, waived, reclaimed, reused, taken,
                   raced>>

(* A disabled row is enabled again from the account menu.                   *)
EnableRow(r) ==
    /\ r \in off
    /\ RowFree(r)
    /\ off' = off \ {r}
    /\ UNCHANGED <<provider, slot, rows, book, lease, mainLock, run, slotRef, rowRef,
                   history, raced, faults>>

-----------------------------------------------------------------------------
(* The host: external, it writes auth.json under no lock of the plugin *)

HostWrites(v) ==
    /\ slot' = v
    /\ taken' = IF v = Foreign THEN {slot} ELSE {}
    /\ raced' = TRUE
    /\ UNCHANGED <<gen, store, book, lease, mainLock, run, slotRef, rowRef, burned, waived,
                   reclaimed, reused>>

NextLogin(granted) ==
    {l \in Logins \ granted : \A k \in Logins \ granted : l <= k}

HostLogin ==
    \E l \in NextLogin(issued) : \E a \in Owners[l] :
        /\ issued' = issued \cup {l}
        /\ acct' = [acct EXCEPT ![l] = a]
        /\ HostWrites(<<l, 0>>)
    /\ UNCHANGED faults

HostLogout ==
    /\ slot # Nothing
    /\ HostWrites(Nothing)
    /\ UNCHANGED <<issued, acct, faults>>

(* The host rewrites its file from a read it made before the placeholder:   *)
(* one of the MaxFaults faults.                                             *)
HostWritesBack ==
    /\ WriteBack /\ faults < MaxFaults
    /\ rpc = "readback" /\ slot = Self
    /\ HostWrites(rec.tok)
    /\ faults' = faults + 1
    /\ UNCHANGED <<issued, acct>>

(* Another config root moves the slot's login into its own store.  It takes *)
(* `pool-slot-transfer`; a build from before the tag takes no such lock.    *)
OtherStoreTransfers ==
    /\ SharedSlot
    /\ slot \in Tokens
    /\ \/ rpc = "idle" /\ HostWrites(Foreign)
       \/ HostWrites(Untagged)
    /\ UNCHANGED <<issued, acct, faults>>

-----------------------------------------------------------------------------
(* An install with no login in the slot and at most one fallback account.   *)
InitAccounts ==
    \/ /\ issued = {}
       /\ acct = [l \in Logins |-> Nothing]
       /\ rows = [r \in RowIds |-> Nothing]
    \/ \E l \in NextLogin({}) : \E i \in Owners[l], f \in RowIds \ {Main} :
          /\ issued = {l}
          /\ acct = [k \in Logins |-> IF k = l THEN i ELSE Nothing]
          /\ rows = [r \in RowIds |-> IF r = f THEN <<l, 0>> ELSE Nothing]

Init ==
    /\ InitAccounts /\ gen = [l \in Logins |-> 0]
    /\ slot = Nothing /\ off = {}
    /\ migrated \in BOOLEAN
    /\ pending = Nothing /\ expired = FALSE /\ declined = Nothing /\ shield = Nothing
    /\ lease = Nothing /\ mainLock = "free"
    /\ rpc = "idle" /\ mode = "none" /\ rec = Nothing /\ tries = 0 /\ hint = Nothing
    /\ spc = "idle" /\ stok = Nothing
    /\ bpc = "idle" /\ brow = Nothing /\ btok = Nothing /\ bkind = "none"
    /\ burned = {} /\ waived = {} /\ reclaimed = {} /\ reused = {} /\ taken = {}
    /\ raced = FALSE /\ faults = 0

Plan ==
    \/ PlanGate \/ PlanRefused \/ PlanNothing \/ PlanFresh
    \/ PlanFinish \/ PlanResume \/ PlanAmbiguous \/ PlanDropRecord

Transfer ==
    \/ writeRecord \/ legacyLeaseActive \/ ConfirmSlot \/ applyToRow \/ verifyRow
    \/ FenceRead \/ ClearAndRestart \/ LastRead \/ PutPlaceholder \/ ReadBack \/ FinishTransfer
    \/ DisableRow \/ RemoveRow \/ RollbackRecord \/ RollbackShield

RunStep == (\E m \in {"migrate", "adopt"} : StartRun(m)) \/ Plan \/ Transfer

SlotStep ==
    SlotReclaim \/ SlotKeepRecord \/ SlotLease \/ SlotSend \/ SlotRefused \/ SlotPersist \/ SlotClear

RowStep == RowSend \/ RowRefused \/ RowStore

Faulty == StopRun \/ SlotFail \/ SlotCrash \/ RowFail

Environment == HostLogin \/ HostLogout \/ HostWritesBack \/ OtherStoreTransfers

Next ==
    \/ RunStep \/ RepairShield
    \/ SlotLock \/ SlotStep \/ LeaseExpires \/ RecordExpires
    \/ \E r \in RowIds : PoolRowStart(r) \/ LegacyRowStart(r) \/ EnableRow(r)
    \/ RowStep \/ Faulty \/ Environment

Spec == Init /\ [][Next]_vars

(* A run is started again until it has nothing left to do and polls for the *)
(* locks it waits for (pool-lifecycle.ts, acquireLock), so it gets one that *)
(* is free again and again.  Refreshes end, and a dead lease expires.       *)
Fairness ==
    /\ SF_vars(RunStep)
    /\ WF_vars(SlotStep) /\ WF_vars(RowStep) /\ WF_vars(LeaseExpires)

FairSpec == Spec /\ Fairness

-----------------------------------------------------------------------------
(* Properties *)

Optional(S) == S \cup {Nothing}

ProviderTypes ==
    /\ issued \subseteq Logins
    /\ acct \in [Logins -> Optional(Identities)]
    /\ gen \in [Logins -> 0..MaxGen]

StoreTypes ==
    /\ slot \in Tokens \cup Placeholders \cup {Nothing}
    /\ rows \in [RowIds -> Optional(Tokens)]
    /\ off \subseteq RowIds

BookTypes ==
    /\ pending \in Optional(Record)
    /\ declined \in Optional(Tokens)
    /\ shield \in Optional(Identities)
    /\ lease \in Optional(Tokens)
    /\ mainLock \in {"free", "run", "slot", "row"}

RunTypes ==
    /\ rpc \in {"idle", "plan", "record", "lease", "confirm", "apply", "verify", "fence",
                "clear", "last", "put", "readback", "finish", "disable", "rollback",
                "unrecord", "unshield"}
    /\ mode \in {"none", "migrate", "adopt"}
    /\ rec \in Optional(Record)
    /\ rec = Nothing <=> rpc \in {"idle", "plan"}
    /\ tries \in 0..(MaxAttempts - 1)
    /\ hint \in Optional(RowIds)

RefreshTypes ==
    /\ spc \in {"idle", "reclaim", "lease", "send", "persist", "clear"}
    /\ stok \in Optional(Tokens)
    /\ stok = Nothing <=> spc = "idle"
    /\ bpc \in {"idle", "send", "store"}
    /\ brow \in Optional(RowIds)
    /\ brow = Nothing <=> bpc = "idle"
    /\ btok \in Optional(Tokens)
    /\ btok = Nothing <=> bpc = "idle"
    /\ bkind \in {"none", "pool", "legacy"}

HistoryTypes ==
    /\ burned \subseteq Tokens /\ waived \subseteq Tokens
    /\ reclaimed \subseteq Tokens /\ reused \subseteq Tokens /\ taken \subseteq Tokens
    /\ faults \in 0..MaxFaults

FlagTypes == migrated \in BOOLEAN /\ expired \in BOOLEAN /\ raced \in BOOLEAN

(* Every variable keeps its type; the run has a record, and a refresher a   *)
(* token, exactly while a later step of theirs will use it.                 *)
TypeOK ==
    /\ ProviderTypes /\ StoreTypes /\ BookTypes /\ FlagTypes
    /\ RunTypes /\ RefreshTypes /\ HistoryTypes

(* The handshake of record and lease: a run about to copy the slot's token  *)
(* into a row (executeTransfer past its two re-reads) never copies one that *)
(* a slot refresh is sending or is about to replace in the slot.            *)
NoCopyDuringRefresh ==
    rpc = "apply" /\ spc \in {"send", "persist"} => stok # rec.tok

(* While the slot and a row hold one token, the shield names the row's      *)
(* account, so no legacy refresher takes the row for a fallback.            *)
SharedTokenShielded ==
    \A r \in RowIds : slot \in Tokens /\ rows[r] = slot => isShieldedMainRow(r)

(* No credential is ever in two rows: every transfer of a token a row       *)
(* already holds ends in that row.                                          *)
OneRowPerToken ==
    \A r, s \in RowIds : rows[r] # Nothing /\ rows[r] = rows[s] => r = s

(* A single-use refresh token goes to the provider once.  The exceptions:   *)
(* its rotated successor was lost, the token was declined as possibly       *)
(* stale, an expired record was dropped under it, or a record was dropped   *)
(* for a newer login under a slot refresh that had read the token.          *)
SentOnce == reused \subseteq burned \cup waived \cup reclaimed

(* While another store's tagged placeholder stands in the slot and no       *)
(* transfer is open here, no row keeps a copy of the token that store took. *)
ForeignCopyRemoved ==
    rpc = "idle" /\ pending = Nothing /\ slot = Foreign =>
        \A r \in RowIds : rows[r] \notin taken \ reclaimed

(* What the rows hold is this store's, once.                                *)
RowsAreOwn == OneRowPerToken /\ ForeignCopyRemoved

Held(l) == \E g \in 0..MaxGen : slot = <<l, g>> \/ \E r \in RowIds : rows[r] = <<l, g>>

Superseded(l) ==
    \E r \in RowIds, t \in Tokens, u \in Tokens :
        /\ rows[r] = t /\ t[1] = l
        /\ rows'[r] = u /\ Identity(u) = Identity(t) /\ Identity(t) # Nothing

(* No step of the plugin lets go of a login: it stays in the slot or in a   *)
(* row until the host overwrites it, a newer login of the same account      *)
(* takes its row, or another store took it over.  A host login that lands   *)
(* between a plugin's locked read of the slot and its write may be lost.    *)
LoginKept ==
    [][\A l \in Logins : Held(l) /\ ~Held(l)' =>
          Environment \/ raced \/ Superseded(l) \/ rpc = "rollback"]_vars

(* No login is left to move: the slot holds none, or one that was declined  *)
(* as possibly stale, and no record of a transfer is open.                  *)
Settled == pending = Nothing /\ (slot \notin Tokens \/ slot = declined)

(* Standing down for each other, the run and the refreshes never stop the   *)
(* move for good: a login that lands in the slot moves into the pool, and   *)
(* an interrupted transfer is finished, dropped or declined, whatever state *)
(* a crash left behind (acquireLock, reclaimExpiredPoolTransfer, plan).     *)
TransferEnds == []<>Settled

=============================================================================
