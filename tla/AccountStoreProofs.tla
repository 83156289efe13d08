-------------------------- MODULE AccountStoreProofs --------------------------
(***************************************************************************)
(* Proofs about AccountStore: who holds which copy of a row's token, for   *)
(* every set of rows, calls and processes and every bound.                 *)
(***************************************************************************)
EXTENDS AccountStore, TLAPS

Loops == {"pass", "select"}
Busy == {"join", "first", "locked", "poll", "send", "final"}
Editing == {"config", "both", "write", "state"}

(* t has what the provider answered, and it is not in the state file yet.   *)
Rotated(t) == task[t].refreshing /\ task[t].phase \in {"save", "merge"}

(* What a call has in hand at each of its places.                           *)
AtWork(t) ==
    /\ task[t].step # "config" => task[t].phase \in Loads
    /\ task[t].refreshing => task[t].phase \in {"save", "merge", "final"}
    /\ task[t].phase = "final" => task[t].refreshing
    /\ task[t].phase \in Busy \cup {"each"} \/ task[t].refreshing => job[t] \in Loops
    /\ task[t].phase \in Editing => job[t] \notin Loops
    /\ task[t].phase \in Busy \/ task[t].refreshing =>
          task[t].account # NoEntry /\ task[t].storage[task[t].row] # NoEntry
    /\ job[t] \in Loops => task[t].rest \subseteq Held(task[t].storage)
    /\ task[t].phase = "send" =>
          /\ task[t].read[task[t].row] # NoEntry
          /\ task[t].read[task[t].row].gen <= due[task[t].row]

Works == (\A t \in Tasks : AtWork(t)) /\ (\A r \in Rows : due[r] < MaxGen)

(* The locks a call holds at each of its places.                            *)
Locked(t) ==
    /\ task[t].phase \in {"locked", "send", "final"} \/ task[t].refreshing =>
          rowLock[task[t].row] = t
    /\ task[t].phase \in {"both", "write", "state"} => cfgLock = t
    /\ task[t].phase \in {"merge", "write", "state"} => stLock = t

Exclusive == \A t \in Tasks : Locked(t)

(* A copy of a row's token that the stored one is at least as new as.       *)
Behind(entry, stored) == entry # NoEntry => stored # NoEntry /\ entry.gen <= stored.gen

(* The copies call t has of row r.                                          *)
Copies(t, r) ==
    /\ Behind(task[t].read[r], state[r])
    /\ (task[t].phase \in Busy \/ task[t].refreshing) /\ task[t].row = r =>
          Behind(task[t].account, state[r])
    /\ IF Rotated(t) /\ task[t].row = r
       THEN state[r] # NoEntry /\ task[t].storage[r].gen = cur[r]
       ELSE task[t].phase \notin {"state", "done"} => Behind(task[t].storage[r], state[r])
    /\ task[t].phase = "state" =>
          IF state[r] # NoEntry
          THEN /\ task[t].storage[r].gen = state[r].gen
               /\ state[r].err => task[t].storage[r].err \/ job[t] = "clear"
          ELSE task[t].storage[r] # NoEntry => task[t].storage[r].gen = cur[r]
    /\ /\ Loaded(t, "locked") \/ Is(t, "send")
       /\ task[t].row = r /\ task[t].read[r] # NoEntry
       => task[t].read[r].gen = cur[r]

(* The state file has the latest token of a row, unless the refresh that    *)
(* rotated it is about to save it.                                          *)
Latest(r) ==
    state[r] # NoEntry =>
        /\ r \in roster
        /\ state[r].gen <= cur[r]
        /\ state[r].gen = cur[r] \/ \E t \in Tasks : Rotated(t) /\ task[t].row = r

Stored == \A r \in Rows \ unsaved : Latest(r) /\ \A t \in Tasks : Copies(t, r)

(* What an edit is about to write keeps every row of the roster, and no     *)
(* other.                                                                   *)
Edits ==
    \A t \in Tasks : task[t].phase = "state" =>
        /\ store
        /\ \A r \in roster : state[r] # NoEntry => task[t].storage[r] # NoEntry
        /\ Held(task[t].storage) \subseteq roster

(* Without a store there is nothing to read.                                *)
Blank ==
    ~store =>
        /\ roster = {} /\ state = EmptyStorage
        /\ \A t \in Tasks : task[t].read = EmptyStorage /\ task[t].storage = EmptyStorage

Custody ==
    TypeOK /\ Works /\ Exclusive /\ Stored /\ Edits /\ Blank /\ NoSpentTokenSent

USE StoreConstants, BoundsAssumption DEF vars, files, locks, provider

-----------------------------------------------------------------------------
(* The operators on rows *)

(* An entry of the state file has a generation, and is not the missing one. *)
LEMMA EntryShape ==
    /\ NoEntry \notin Entries
    /\ \A e \in Entries : e.gen \in 1 .. MaxGen /\ e.err \in BOOLEAN
    /\ \A e \in Entries \cup {NoEntry} : e.gen \in 0 .. MaxGen /\ (e # NoEntry => e \in Entries)
  BY DEF Entries, NoEntry

(* An entry whose backoff is changed keeps its generation.                  *)
LEMMA ErrChange ==
    ASSUME NEW e \in Entries, NEW b \in BOOLEAN
    PROVE  [e EXCEPT !.err = b] \in Entries /\ [e EXCEPT !.err = b].gen = e.gen
                /\ [e EXCEPT !.err = b].err = b
  BY DEF Entries

(* A load returns what the state file has on the rows of the roster read.   *)
LEMMA LoadedRows ==
    ASSUME NEW ids \in SUBSET Rows, state \in Storages
    PROVE  /\ normalizeStorage(mergeConfigAndState(ids, state)) \in Storages
           /\ \A r \in Rows : normalizeStorage(mergeConfigAndState(ids, state))[r]
                                = IF r \in ids THEN state[r] ELSE NoEntry
  BY DEF normalizeStorage, mergeConfigAndState, normalizeAccount, Storages

(* Of two copies the newer one is kept, and the backoff with its token.     *)
LEMMA NewerKept ==
    ASSUME NEW a \in Entries, NEW b \in Entries
    PROVE  LET m == applyNewerTokenState(a, b)
           IN  /\ m \in Entries
               /\ m.gen >= a.gen /\ m.gen >= b.gen /\ (m.gen = a.gen \/ m.gen = b.gen)
               /\ m.gen = a.gen /\ a.err => m.err
  BY EntryShape DEF applyNewerTokenState, selectSameTokenState

(* The union of a snapshot with the store has every row of both.            *)
LEMMA UnionOfRows ==
    ASSUME NEW a \in Storages, NEW b \in Storages
    PROVE  LET m == mergeStorageForSave(a, b)
           IN  /\ m \in Storages
               /\ \A r \in Rows :
                    /\ a[r] = NoEntry => m[r] = b[r]
                    /\ a[r] # NoEntry /\ b[r] = NoEntry => m[r] = a[r]
                    /\ a[r] # NoEntry /\ b[r] # NoEntry => m[r] = applyNewerTokenState(a[r], b[r])
                    /\ a[r] # NoEntry => m[r] # NoEntry
<1>1. \A r \in Rows : a[r] \in Entries \cup {NoEntry} /\ b[r] \in Entries \cup {NoEntry}
  BY DEF Storages
<1>2. \A r \in Rows : a[r] # NoEntry /\ b[r] # NoEntry =>
          applyNewerTokenState(a[r], b[r]) \in Entries
  BY <1>1, EntryShape, NewerKept
<1>3. \A r \in Rows :
        LET m == mergeStorageForSave(a, b)
        IN  /\ a[r] = NoEntry => m[r] = b[r]
            /\ a[r] # NoEntry /\ b[r] = NoEntry => m[r] = a[r]
            /\ a[r] # NoEntry /\ b[r] # NoEntry => m[r] = applyNewerTokenState(a[r], b[r])
  BY DEF mergeStorageForSave, keepNewerCredential
<1>4. \A r \in Rows :
        LET m == mergeStorageForSave(a, b)
        IN  m[r] \in Entries \cup {NoEntry} /\ (a[r] # NoEntry => m[r] # NoEntry)
  BY <1>1, <1>2, <1>3, EntryShape
<1>5. mergeStorageForSave(a, b) = [r \in Rows |-> mergeStorageForSave(a, b)[r]]
  BY DEF mergeStorageForSave
<1>6. mergeStorageForSave(a, b) \in Storages
  BY <1>4, <1>5 DEF Storages
<1> QED BY <1>3, <1>4, <1>6

(* What a save makes of the state file.                                     *)
LEMMA SavedRows ==
    ASSUME NEW a \in Storages, NEW b \in Storages, NEW ids \in SUBSET Rows
    PROVE  LET m == SavedState(a, b, ids)
           IN  /\ m \in Storages
               /\ \A r \in Rows :
                    /\ r \notin readConfigRosterIds => m[r] = NoEntry
                    /\ r \in readConfigRosterIds /\ (r \notin ids \/ b[r] = NoEntry) => m[r] = a[r]
                    /\ r \in readConfigRosterIds /\ r \in ids /\ b[r] # NoEntry /\ a[r] = NoEntry
                         => m[r] = b[r]
                    /\ r \in readConfigRosterIds /\ r \in ids /\ b[r] # NoEntry /\ a[r] # NoEntry
                         => m[r] = applyNewerTokenState(a[r], b[r])
<1>1. \A r \in Rows : a[r] \in Entries \cup {NoEntry} /\ b[r] \in Entries \cup {NoEntry}
  BY DEF Storages
<1>2. \A r \in Rows : a[r] # NoEntry /\ b[r] # NoEntry =>
          applyNewerTokenState(a[r], b[r]) \in Entries
  BY <1>1, EntryShape, NewerKept
<1>3. \A r \in Rows :
        LET m == SavedState(a, b, ids)
        IN  /\ r \notin readConfigRosterIds => m[r] = NoEntry
            /\ r \in readConfigRosterIds /\ (r \notin ids \/ b[r] = NoEntry) => m[r] = a[r]
            /\ r \in readConfigRosterIds /\ r \in ids /\ b[r] # NoEntry /\ a[r] = NoEntry
                 => m[r] = b[r]
            /\ r \in readConfigRosterIds /\ r \in ids /\ b[r] # NoEntry /\ a[r] # NoEntry
                 => m[r] = applyNewerTokenState(a[r], b[r])
  BY DEF SavedState, mergeAccountRuntimeState
<1>4. \A r \in Rows : SavedState(a, b, ids)[r] \in Entries \cup {NoEntry}
  BY <1>1, <1>2, <1>3
<1>5. SavedState(a, b, ids) = [r \in Rows |-> SavedState(a, b, ids)[r]]
  BY DEF SavedState
<1>6. SavedState(a, b, ids) \in Storages
  BY <1>4, <1>5 DEF Storages
<1> QED BY <1>3, <1>6

-----------------------------------------------------------------------------
(* The steps *)

Loading(t) == Start(t) \/ ReadConfig(t) \/ ReadState(t) \/ LoopBegins(t) \/ SnapshotTaken(t)
Looping(t) == NextRow(t) \/ LoopEnds(t)
RefreshStep(t) ==
    FirstRead(t) \/ Poll(t) \/ LockedRead(t) \/ Send(t) \/ SendFails(t) \/ FinalRead(t)
Saving(t) == SaveLocks(t) \/ SaveWrites(t) \/ SaveWithheld(t) \/ SaveTimesOut(t)
Locking(t) == LockConfig(t) \/ LockState(t) \/ LockTimesOut(t) \/ EditWithheld(t)
Writing(t) == mutateAccounts(t) \/ saveAccounts(t) \/ migrateIfNeeded(t) \/ WriteState(t)

(* Splits a step by what it is about.                                       *)
LEMMA StepCases ==
    ASSUME [Next]_vars
    PROVE  \/ \E t \in Tasks : \/ Loading(t) \/ Looping(t) \/ RefreshStep(t)
                               \/ Saving(t) \/ Locking(t) \/ Writing(t)
           \/ \E r \in Rows : Age(r)
           \/ \E p \in Procs : Crash(p)
           \/ UNCHANGED vars
  BY Zenon DEF Next, Loading, Looping, RefreshStep, Saving, Locking, Writing, AllDone

(* The fields of a task.                                                    *)
LEMMA TaskShape ==
    ASSUME TypeOK, NEW t \in Tasks
    PROVE  /\ task[t] \in Tasklets
           /\ task[t].phase \in Phases /\ task[t].step \in {"config", "state", "read"}
           /\ task[t].row \in Rows /\ task[t].account \in Entries \cup {NoEntry}
           /\ task[t].rest \in SUBSET Rows /\ task[t].seen \in SUBSET Rows
           /\ task[t].read \in Storages /\ task[t].storage \in Storages
           /\ task[t].refreshing \in BOOLEAN /\ task[t].changed \in BOOLEAN
           /\ task[t].polls \in 0 .. MaxPolls
  BY DEF TypeOK, Tasklets

(* Call x is back in its loop, with the generation of entry e for its row,  *)
(* or with the one it had.                                                  *)
Returned(x, e) ==
    LET r == task[x].row
    IN  /\ task'[x] \in Tasklets
        /\ task'[x].phase = "each" /\ task'[x].step = "config" /\ ~task'[x].refreshing
        /\ task'[x].row = r /\ task'[x].account = task[x].account
        /\ task'[x].read = task[x].read
        /\ task'[x].rest = task[x].rest \ {r}
        /\ \A s \in Rows \ {r} : task'[x].storage[s] = task[x].storage[s]
        /\ task'[x].storage[r] # NoEntry
        /\ task'[x].storage[r].gen \in {e.gen, task[x].account.gen, task[x].storage[r].gen}

LEMMA ResumedReturns ==
    ASSUME TypeOK, NEW x \in Tasks, NEW outcome \in {"ok", "failed", "removed"},
           NEW e \in Entries, task[x].account # NoEntry,
           task[x].storage[task[x].row] # NoEntry,
           task'[x] = Resumed(x, outcome, e)
    PROVE  Returned(x, e)
<1> DEFINE r == task[x].row
<1> DEFINE back == [At(x, "each") EXCEPT !.rest = @ \ {r}, !.refreshing = FALSE]
<1>1. /\ task[x] \in Tasklets /\ r \in Rows
      /\ task[x].account \in Entries /\ task[x].storage \in Storages /\ task[x].storage[r] \in Entries
      /\ task[x].rest \in SUBSET Rows
  BY TaskShape DEF Storages
<1>2. /\ back \in Tasklets /\ back.phase = "each" /\ back.step = "config" /\ back.refreshing = FALSE
      /\ back.row = r /\ back.account = task[x].account /\ back.read = task[x].read
      /\ back.rest = task[x].rest \ {r} /\ back.storage = task[x].storage
  BY <1>1 DEF At, Tasklets, Phases
<1>3. ASSUME NEW f \in Entries, f.gen \in {e.gen, task[x].account.gen, task[x].storage[r].gen},
             task'[x] = [back EXCEPT !.storage[r] = f, !.changed = TRUE]
      PROVE  Returned(x, e)
  <2> DEFINE new == [task[x].storage EXCEPT ![r] = f]
  <2>1. new \in Storages /\ new[r] = f /\ \A s \in Rows \ {r} : new[s] = task[x].storage[s]
    BY <1>1, <1>3 DEF Storages
  <2>2. task'[x] = [back EXCEPT !.storage = new, !.changed = TRUE]
    BY <1>2, <1>3
  <2>3. /\ task'[x] \in Tasklets /\ task'[x].phase = back.phase /\ task'[x].step = back.step
        /\ task'[x].refreshing = back.refreshing /\ task'[x].row = back.row
        /\ task'[x].account = back.account /\ task'[x].read = back.read
        /\ task'[x].rest = back.rest /\ task'[x].storage = new
    BY <1>2, <2>1, <2>2 DEF Tasklets
  <2> QED BY <1>1, <1>2, <1>3, <2>1, <2>3, EntryShape DEF Returned
<1>4. CASE outcome = "ok"
  <2>1. task'[x] = [back EXCEPT !.storage[r] = e, !.changed = TRUE]
    BY <1>4 DEF Resumed
  <2> QED BY <1>3, <2>1
<1>5. CASE outcome = "removed" /\ job[x] = "select"
  <2>1. task'[x] = back
    BY <1>5 DEF Resumed
  <2> QED BY <1>1, <1>2, <2>1, EntryShape DEF Returned
<1>6. CASE outcome # "ok" /\ ~(outcome = "removed" /\ job[x] = "select")
  <2> DEFINE failed == IF job[x] = "pass" THEN task[x].account ELSE e
  <2>1. task'[x] = [back EXCEPT !.storage[r] = [failed EXCEPT !.err = TRUE], !.changed = TRUE]
    BY <1>6 DEF Resumed
  <2>2. failed \in Entries /\ failed.gen \in {e.gen, task[x].account.gen}
    BY <1>1
  <2>3. [failed EXCEPT !.err = TRUE] \in Entries /\ [failed EXCEPT !.err = TRUE].gen = failed.gen
    BY <2>2, ErrChange
  <2> HIDE DEF failed, back
  <2> QED BY <1>3, <2>1, <2>2, <2>3
<1> QED BY <1>4, <1>5, <1>6

(* The calls that a settled refresh answers: its own and those that joined. *)
LEMMA SettleReturns ==
    ASSUME TypeOK, Works, NEW t \in Tasks, task[t].phase \in Busy \/ task[t].refreshing,
           NEW outcome \in {"ok", "failed", "removed"}, NEW e \in Entries,
           Settle(t, outcome, e)
    PROVE  /\ DOMAIN task' = Tasks /\ task' = [x \in Tasks |-> task'[x]]
           /\ Returned(t, e)
           /\ \A x \in Tasks \ {t} :
                \/ task'[x] = task[x]
                \/ /\ task[x].phase = "join" /\ task[x].row = task[t].row
                   /\ Returned(x, e)
           /\ \A r \in Rows : rowLock'[r] = IF rowLock[r] = t THEN None ELSE rowLock[r]
<1>1. Returned(t, e)
  <2>1. task'[t] = Resumed(t, outcome, e)
    BY DEF Settle
  <2>2. task[t].account # NoEntry /\ task[t].storage[task[t].row] # NoEntry
    BY DEF Works, AtWork
  <2> QED BY <2>1, <2>2, ResumedReturns
<1>2. ASSUME NEW x \in Tasks \ {t}
      PROVE  \/ task'[x] = task[x]
             \/ /\ task[x].phase = "join" /\ task[x].row = task[t].row
                /\ Returned(x, e)
  <2> DEFINE f == IF outcome = "ok" THEN e ELSE task[x].storage[task[x].row]
  <2>1. CASE task'[x] = task[x]
    BY <2>1
  <2>2. CASE task'[x] # task[x]
    <3>1. /\ task[x].phase = "join" /\ task[x].row = task[t].row
          /\ task'[x] = Resumed(x, outcome, f)
      BY <2>2 DEF Settle
    <3>2. task[x].account # NoEntry /\ task[x].storage[task[x].row] # NoEntry
      BY <3>1 DEF Works, AtWork, Busy
    <3>3. f \in Entries
      BY <3>2, TaskShape DEF Storages
    <3>4. Returned(x, f)
      BY <3>1, <3>2, <3>3, ResumedReturns
    <3>5. Returned(x, e)
      BY <3>4 DEF Returned
    <3> QED BY <3>1, <3>5
  <2> QED BY <2>1, <2>2
<1>3. task' = [x \in Tasks |-> task'[x]] /\ DOMAIN task' = Tasks
  BY DEF Settle
<1>4. \A r \in Rows : rowLock'[r] = IF rowLock[r] = t THEN None ELSE rowLock[r]
  BY DEF Settle
<1> QED BY <1>1, <1>2, <1>3, <1>4

-----------------------------------------------------------------------------
(* Types *)

(* Where a call may go, it is well formed.                                  *)
LEMMA Goes ==
    ASSUME TypeOK, NEW t \in Tasks, NEW p \in Phases
    PROVE  /\ At(t, p) \in Tasklets
           /\ Goto(t, p) => task' \in [Tasks -> Tasklets]
<1>1. task[t] \in Tasklets /\ task \in [Tasks -> Tasklets]
  BY DEF TypeOK
<1>2. At(t, p) \in Tasklets
  BY <1>1 DEF At, Tasklets
<1> QED BY <1>1, <1>2 DEF Goto

(* One call has moved.                                                      *)
LEMMA Moves ==
    ASSUME TypeOK, NEW t \in Tasks, NEW x \in Tasklets, task' = [task EXCEPT ![t] = x]
    PROVE  task' \in [Tasks -> Tasklets]
  BY DEF TypeOK

LEMMA LoadingTypes ==
    ASSUME TypeOK, NEW t \in Tasks, Loading(t)
    PROVE  TypeOK'
<1>1. task' \in [Tasks -> Tasklets]
  <2>1. CASE Start(t)
    <3>1. PICK r \in Rows, p \in Phases : task' = [task EXCEPT ![t] = [At(t, p) EXCEPT !.row = r]]
      BY <2>1 DEF Start, Phases
    <3>2. [At(t, p) EXCEPT !.row = r] \in Tasklets
      BY Goes DEF Tasklets
    <3> QED BY <3>1, <3>2, Moves
  <2>2. CASE ReadConfig(t)
    <3>1. task' = [task EXCEPT ![t] = [task[t] EXCEPT !.step = "state", !.seen = roster]]
      BY <2>2, TaskShape DEF ReadConfig, TypeOK
    <3>2. [task[t] EXCEPT !.step = "state", !.seen = roster] \in Tasklets
      BY TaskShape DEF TypeOK, Tasklets
    <3> QED BY <3>1, <3>2, Moves
  <2>3. CASE ReadState(t)
    <3>1. normalizeStorage(mergeConfigAndState(task[t].seen, state)) \in Storages
      BY TaskShape, LoadedRows DEF TypeOK
    <3> DEFINE new == normalizeStorage(mergeConfigAndState(task[t].seen, state))
    <3>2. task' = [task EXCEPT ![t] = [task[t] EXCEPT !.step = "read", !.read = new]]
      BY <2>3, TaskShape DEF ReadState, TypeOK
    <3> HIDE DEF new
    <3>3. [task[t] EXCEPT !.step = "read", !.read = new] \in Tasklets
      BY <3>1, TaskShape DEF Tasklets, new
    <3> QED BY <3>2, <3>3, Moves
  <2>4. CASE LoopBegins(t)
    <3>1. At(t, "each") \in Tasklets /\ Held(task[t].read) \in SUBSET Rows /\ task[t].read \in Storages
      BY Goes, TaskShape DEF Phases, Held
    <3> QED BY <2>4, <3>1 DEF LoopBegins, TypeOK, Tasklets
  <2>5. CASE SnapshotTaken(t)
    <3>1. PICK p \in Phases : task' = [task EXCEPT ![t] = [At(t, p) EXCEPT !.storage = task[t].read]]
      BY <2>5 DEF SnapshotTaken, Phases
    <3>2. At(t, p) \in Tasklets /\ task[t].read \in Storages
      BY Goes, TaskShape
    <3>3. [At(t, p) EXCEPT !.storage = task[t].read] \in Tasklets
      BY <3>2 DEF Tasklets
    <3> QED BY <3>1, <3>3, Moves
  <2> QED BY <2>1, <2>2, <2>3, <2>4, <2>5 DEF Loading
<1>2. UNCHANGED <<files, locks, job, provider, mishaps>>
  BY DEF Loading, Start, ReadConfig, ReadState, LoopBegins, SnapshotTaken
<1> QED BY <1>1, <1>2 DEF TypeOK, locks

LEMMA LoopingTypes ==
    ASSUME TypeOK, NEW t \in Tasks, Looping(t)
    PROVE  TypeOK'
<1>1. task' \in [Tasks -> Tasklets]
  <2>1. CASE NextRow(t)
    <3>1. PICK r \in task[t].rest :
            \/ task' = [task EXCEPT ![t].rest = @ \ {r}]
            \/ \E p \in Phases : task' = [task EXCEPT ![t] =
                   [At(t, p) EXCEPT !.row = r, !.account = task[t].storage[r]]]
      BY <2>1 DEF NextRow, Phases
    <3>2. r \in Rows /\ task[t].storage[r] \in Entries \cup {NoEntry}
      BY TaskShape DEF Storages
    <3>3. CASE task' = [task EXCEPT ![t].rest = @ \ {r}]
      <4>1. task' = [task EXCEPT ![t] = [task[t] EXCEPT !.rest = @ \ {r}]]
        BY <3>3, TaskShape DEF TypeOK
      <4>2. [task[t] EXCEPT !.rest = @ \ {r}] \in Tasklets
        BY TaskShape DEF Tasklets
      <4> QED BY <4>1, <4>2, Moves
    <3>4. ASSUME NEW p \in Phases,
                 task' = [task EXCEPT ![t] =
                   [At(t, p) EXCEPT !.row = r, !.account = task[t].storage[r]]]
          PROVE  task' \in [Tasks -> Tasklets]
      <4> DEFINE entry == task[t].storage[r]
      <4>1. At(t, p) \in Tasklets /\ entry \in Entries \cup {NoEntry}
        BY <3>2, Goes
      <4> HIDE DEF entry
      <4>2. [At(t, p) EXCEPT !.row = r, !.account = entry] \in Tasklets
        BY <3>2, <4>1 DEF Tasklets
      <4> QED BY <3>4, <4>2, Moves DEF entry
    <3> QED BY <3>1, <3>3, <3>4
  <2>2. CASE LoopEnds(t)
    BY <2>2, Goes DEF LoopEnds, Phases
  <2> QED BY <2>1, <2>2 DEF Looping
<1>2. UNCHANGED <<files, locks, job, provider, mishaps>>
  BY DEF Looping, NextRow, LoopEnds
<1> QED BY <1>1, <1>2 DEF TypeOK, locks

(* The locks on the rows of a settled refresh are released.                 *)
LEMMA SettleTypes ==
    ASSUME TypeOK, Works, NEW t \in Tasks, task[t].phase \in Busy \/ task[t].refreshing,
           NEW outcome \in {"ok", "failed", "removed"}, NEW e \in Entries,
           Settle(t, outcome, e)
    PROVE  task' \in [Tasks -> Tasklets] /\ rowLock' \in [Rows -> Tasks \cup {None}]
<1>1. \A x \in Tasks : task'[x] \in Tasklets
  BY SettleReturns, TaskShape DEF Returned
<1>2. task' \in [Tasks -> Tasklets]
  BY <1>1, SettleReturns
<1>3. rowLock' \in [Rows -> Tasks \cup {None}]
  BY DEF Settle, TypeOK
<1> QED BY <1>2, <1>3

LEMMA RefreshTypes ==
    ASSUME TypeOK, Works, NEW t \in Tasks, RefreshStep(t)
    PROVE  TypeOK'
<1>1. /\ \A r \in Rows : task[t].read[r] \in Entries \cup {NoEntry}
      /\ \A r \in Rows : task[t].storage[r] \in Entries \cup {NoEntry}
      /\ task[t].row \in Rows
  BY TaskShape DEF Storages
<1>2. CASE FirstRead(t)
  <2>1. task[t].phase \in Busy /\ task[t].storage[task[t].row] \in Entries
    BY <1>1, <1>2 DEF FirstRead, Loaded, Is, Busy, Works, AtWork
  <2>2. task' \in [Tasks -> Tasklets] /\ rowLock' \in [Rows -> Tasks \cup {None}]
    <3>1. CASE task[t].read[task[t].row] # NoEntry /\ Settle(t, "ok", task[t].read[task[t].row])
      BY <1>1, <2>1, <3>1, SettleTypes
    <3>2. CASE rowLock' = [rowLock EXCEPT ![task[t].row] = t] /\ Goto(t, "locked")
      BY <3>2, <1>1, Goes DEF TypeOK, Phases
    <3>3. CASE task' = [task EXCEPT ![t] = [At(t, "poll") EXCEPT !.polls = MaxPolls]]
               /\ UNCHANGED rowLock
      <4>1. At(t, "poll") \in Tasklets /\ rowLock' \in [Rows -> Tasks \cup {None}]
        BY <3>3, Goes DEF TypeOK, Phases
      <4>2. [At(t, "poll") EXCEPT !.polls = MaxPolls] \in Tasklets
        BY <4>1 DEF Tasklets
      <4> QED BY <3>3, <4>1, <4>2, Moves
    <3> QED BY <1>2, <3>1, <3>2, <3>3 DEF FirstRead
  <2> QED BY <1>2, <2>2 DEF FirstRead, TypeOK
<1>3. CASE Poll(t)
  <2>1. task[t].phase \in Busy /\ task[t].storage[task[t].row] \in Entries
    BY <1>1, <1>3 DEF Poll, Loaded, Is, Busy, Works, AtWork
  <2>2. task' \in [Tasks -> Tasklets] /\ rowLock' \in [Rows -> Tasks \cup {None}]
    <3>1. ASSUME NEW o \in {"ok", "failed"}, task[t].read[task[t].row] # NoEntry,
                 Settle(t, o, task[t].read[task[t].row])
          PROVE  task' \in [Tasks -> Tasklets] /\ rowLock' \in [Rows -> Tasks \cup {None}]
      BY <1>1, <2>1, <3>1, SettleTypes
    <3>2. CASE Settle(t, "failed", task[t].storage[task[t].row])
      BY <2>1, <3>2, SettleTypes
    <3>3. CASE task[t].polls > 0 /\ UNCHANGED rowLock
               /\ task' = [task EXCEPT ![t] = [At(t, "poll") EXCEPT !.polls = @ - 1]]
      <4>1. At(t, "poll").polls = task[t].polls
        BY TaskShape DEF At, Tasklets
      <4>2. task[t].polls - 1 \in 0 .. MaxPolls
        BY <3>3, TaskShape
      <4>3. At(t, "poll") \in Tasklets /\ rowLock' \in [Rows -> Tasks \cup {None}]
        BY <3>3, Goes DEF TypeOK, Phases
      <4>4. [At(t, "poll") EXCEPT !.polls = @ - 1] \in Tasklets
        BY <4>1, <4>2, <4>3 DEF Tasklets
      <4> QED BY <3>3, <4>3, <4>4, Moves
    <3> QED BY <1>3, <3>1, <3>2, <3>3 DEF Poll
  <2> QED BY <1>3, <2>2 DEF Poll, TypeOK
<1>4. CASE LockedRead(t)
  <2>1. task[t].phase \in Busy /\ task[t].storage[task[t].row] \in Entries
    BY <1>1, <1>4 DEF LockedRead, Loaded, Is, Busy, Works, AtWork
  <2>2. task' \in [Tasks -> Tasklets] /\ rowLock' \in [Rows -> Tasks \cup {None}]
    <3>1. CASE task[t].read[task[t].row] # NoEntry /\ Settle(t, "ok", task[t].read[task[t].row])
      BY <1>1, <2>1, <3>1, SettleTypes
    <3>2. CASE Settle(t, "removed", task[t].storage[task[t].row])
      BY <2>1, <3>2, SettleTypes
    <3>3. CASE Goto(t, "send") /\ UNCHANGED rowLock
      BY <3>3, Goes DEF TypeOK, Phases
    <3> QED BY <1>4, <3>1, <3>2, <3>3 DEF LockedRead
  <2> QED BY <1>4, <2>2 DEF LockedRead, TypeOK
<1>5. CASE Send(t)
  <2> DEFINE r == task[t].row
  <2>1. /\ task[t].phase \in Busy /\ task[t].storage[r] \in Entries /\ task[t].read[r] \in Entries
        /\ task[t].read[r].gen <= due[r] /\ due[r] < MaxGen
    BY <1>1, <1>5 DEF Send, Is, Busy, Works, AtWork
  <2>2. CASE /\ task[t].read[r].gen = cur[r]
             /\ cur' = [cur EXCEPT ![r] = @ + 1]
             /\ task' = [task EXCEPT ![t] =
                    [At(t, "save") EXCEPT
                        !.storage[r] = [gen |-> cur[r] + 1, err |-> FALSE],
                        !.refreshing = TRUE]]
             /\ UNCHANGED <<rowLock, sentSpent>>
    <3>1. cur[r] + 1 \in 1 .. MaxGen
      BY <1>1, <2>1, <2>2 DEF TypeOK
    <3>2. [gen |-> cur[r] + 1, err |-> FALSE] \in Entries
      BY <3>1 DEF Entries
    <3>3. At(t, "save") \in Tasklets
      BY Goes DEF Phases
    <3>4. [At(t, "save").storage EXCEPT ![r] = [gen |-> cur[r] + 1, err |-> FALSE]] \in Storages
      BY <1>1, <3>2, <3>3 DEF Storages, Tasklets
    <3>5. task' \in [Tasks -> Tasklets]
      BY <2>2, <3>3, <3>4 DEF TypeOK, Tasklets
    <3>6. cur' \in [Rows -> 0 .. MaxGen]
      BY <1>1, <2>2, <3>1 DEF TypeOK
    <3> QED BY <1>5, <2>2, <3>5, <3>6 DEF Send, TypeOK
  <2>3. CASE Settle(t, "failed", task[t].storage[r]) /\ UNCHANGED cur
    <3>1. task' \in [Tasks -> Tasklets] /\ rowLock' \in [Rows -> Tasks \cup {None}]
      BY <2>1, <2>3, SettleTypes
    <3>2. sentSpent' \subseteq Rows
      BY <1>1, <1>5 DEF Send, TypeOK
    <3> QED BY <1>5, <2>3, <3>1, <3>2 DEF Send, TypeOK
  <2> QED BY <1>5, <2>2, <2>3 DEF Send
<1>6. CASE SendFails(t)
  <2>1. task[t].phase \in Busy /\ task[t].storage[task[t].row] \in Entries
    BY <1>1, <1>6 DEF SendFails, Is, Busy, Works, AtWork
  <2>2. task' \in [Tasks -> Tasklets] /\ rowLock' \in [Rows -> Tasks \cup {None}]
    BY <1>6, <2>1, SettleTypes DEF SendFails
  <2> QED BY <1>6, <2>2 DEF SendFails, Mishap, TypeOK
<1>7. CASE FinalRead(t)
  <2>1. task[t].phase \in Busy /\ task[t].storage[task[t].row] \in Entries
    BY <1>1, <1>7 DEF FinalRead, Loaded, Is, Busy, Works, AtWork
  <2>2. task' \in [Tasks -> Tasklets] /\ rowLock' \in [Rows -> Tasks \cup {None}]
    BY <1>7, <2>1, SettleTypes DEF FinalRead
  <2> QED BY <1>7, <2>2 DEF FinalRead, TypeOK
<1> QED BY <1>2, <1>3, <1>4, <1>5, <1>6, <1>7 DEF RefreshStep

LEMMA SavingTypes ==
    ASSUME TypeOK, Works, NEW t \in Tasks, Saving(t)
    PROVE  TypeOK'
<1>1. task[t].row \in Rows /\ task[t].storage \in Storages
  BY TaskShape
<1>2. CASE SaveLocks(t)
  <2>1. task' \in [Tasks -> Tasklets]
    BY <1>2, Goes DEF SaveLocks, Phases
  <2> QED BY <1>2, <2>1 DEF SaveLocks, TypeOK
<1>3. ASSUME Saved(t) PROVE task' \in [Tasks -> Tasklets]
  BY <1>3, Goes DEF Saved, Phases
<1>4. CASE SaveWrites(t)
  <2>1. state' \in Storages
    <3>1. \A ids \in {{task[t].row}, Rows} : SavedState(state, task[t].storage, ids) \in Storages
      BY <1>1, SavedRows DEF TypeOK
    <3> QED BY <1>4, <3>1 DEF SaveWrites
  <2>2. unsaved' \subseteq Rows
    BY <1>1, <1>4 DEF SaveWrites, TypeOK
  <2>3. task' \in [Tasks -> Tasklets]
    BY <1>3, <1>4 DEF SaveWrites
  <2> QED BY <1>4, <2>1, <2>2, <2>3 DEF SaveWrites, TypeOK
<1>5. CASE SaveWithheld(t)
  <2>1. task' \in [Tasks -> Tasklets]
    BY <1>3, <1>5 DEF SaveWithheld
  <2> QED BY <1>1, <1>5, <2>1 DEF SaveWithheld, Mishap, TypeOK
<1>6. CASE SaveTimesOut(t)
  <2>1. CASE task[t].refreshing /\ Settle(t, "failed", task[t].storage[task[t].row])
    <3>1. task[t].storage[task[t].row] \in Entries
      BY <1>1, <2>1 DEF Works, AtWork, Storages
    <3>2. task' \in [Tasks -> Tasklets] /\ rowLock' \in [Rows -> Tasks \cup {None}]
      BY <2>1, <3>1, SettleTypes
    <3> QED BY <1>1, <1>6, <3>2 DEF SaveTimesOut, Mishap, TypeOK
  <2>2. CASE Goto(t, "done") /\ UNCHANGED <<rowLock, unsaved>>
    <3>1. task' \in [Tasks -> Tasklets]
      BY <2>2, Goes DEF Phases
    <3> QED BY <1>6, <2>2, <3>1 DEF SaveTimesOut, Mishap, TypeOK
  <2> QED BY <1>6, <2>1, <2>2 DEF SaveTimesOut
<1> QED BY <1>2, <1>4, <1>5, <1>6 DEF Saving

LEMMA LockingTypes ==
    ASSUME TypeOK, NEW t \in Tasks, Locking(t)
    PROVE  TypeOK'
<1>1. task' \in [Tasks -> Tasklets]
  BY Goes DEF Locking, LockConfig, LockState, LockTimesOut, EditWithheld, Leave, Phases
<1>2. cfgLock' \in Tasks \cup {None} /\ stLock' \in Tasks \cup {None}
  BY DEF Locking, LockConfig, LockState, LockTimesOut, EditWithheld, Leave, TypeOK
<1>3. mishaps' \in 0 .. MaxMishaps /\ UNCHANGED <<files, rowLock, job, provider>>
  BY DEF Locking, LockConfig, LockState, LockTimesOut, EditWithheld, Mishap, TypeOK
<1> QED BY <1>1, <1>2, <1>3 DEF TypeOK

(* What an edit makes of the store, read under both locks.                  *)
LEMMA MutatedRows ==
    ASSUME TypeOK, NEW t \in Tasks
    PROVE  /\ current \in Storages
           /\ \A r \in Rows : current[r] = IF r \in roster THEN state[r] ELSE NoEntry
           /\ Mutated(t) \in Storages
           /\ \A r \in Rows :
                \/ Mutated(t)[r] = current[r]
                \/ /\ job[t] = "add" /\ r = task[t].row /\ Addable(r)
                   /\ Mutated(t)[r] # NoEntry /\ Mutated(t)[r].gen = cur[r] + 1
                \/ job[t] = "remove" /\ r = task[t].row /\ Mutated(t)[r] = NoEntry
                \/ /\ job[t] = "clear" /\ r = task[t].row /\ current[r] # NoEntry
                   /\ Mutated(t)[r] # NoEntry /\ Mutated(t)[r].gen = current[r].gen
<1> DEFINE r == task[t].row
<1>1. current \in Storages /\ \A s \in Rows : current[s] = IF s \in roster THEN state[s] ELSE NoEntry
  BY LoadedRows DEF current, TypeOK
<1>2. r \in Rows /\ current[r] \in Entries \cup {NoEntry}
  BY <1>1, TaskShape DEF Storages
<1>3. CASE job[t] = "add" /\ Addable(r)
  <2>1. Mutated(t) = [current EXCEPT ![r] = [gen |-> cur[r] + 1, err |-> FALSE]]
    BY <1>3 DEF Mutated
  <2>2. [gen |-> cur[r] + 1, err |-> FALSE] \in Entries
    BY <1>2, <1>3 DEF Entries, Addable, TypeOK
  <2> DEFINE e == [gen |-> cur[r] + 1, err |-> FALSE]
  <2>3. e \in Entries /\ e # NoEntry /\ e.gen = cur[r] + 1
    BY <2>2, EntryShape
  <2> HIDE DEF e
  <2>4. Mutated(t) = [current EXCEPT ![r] = e]
    BY <2>1 DEF e
  <2> QED BY <1>1, <1>2, <1>3, <2>3, <2>4 DEF Storages
<1>4. CASE job[t] = "remove"
  <2>1. Mutated(t) = [current EXCEPT ![r] = NoEntry]
    BY <1>4 DEF Mutated
  <2> QED BY <1>1, <1>2, <1>4, <2>1 DEF Storages
<1>5. CASE job[t] = "clear" /\ current[r] # NoEntry
  <2> DEFINE e == [current[r] EXCEPT !.err = FALSE]
  <2>1. Mutated(t) = [current EXCEPT ![r] = e]
    BY <1>1, <1>2, <1>5 DEF Mutated, Storages
  <2>2. e \in Entries /\ e.gen = current[r].gen
    BY <1>2, <1>5, ErrChange
  <2> HIDE DEF e
  <2> QED BY <1>1, <1>2, <1>5, <2>1, <2>2, EntryShape DEF Storages
<1>6. CASE ~(job[t] = "add" /\ Addable(r)) /\ job[t] # "remove"
           /\ ~(job[t] = "clear" /\ current[r] # NoEntry)
  <2>1. Mutated(t) = current
    BY <1>6 DEF Mutated
  <2> QED BY <1>1, <2>1
<1> QED BY <1>1, <1>3, <1>4, <1>5, <1>6

LEMMA WritingTypes ==
    ASSUME TypeOK, NEW t \in Tasks, Writing(t)
    PROVE  TypeOK'
<1>1. task[t].row \in Rows /\ task[t].storage \in Storages
  BY TaskShape
<1>2. ASSUME NEW next \in Storages, NEW allowDrop, WriteConfig(t, next, allowDrop),
             cur' \in [Rows -> 0 .. MaxGen]
      PROVE  TypeOK'
  <2>1. At(t, "state") \in Tasklets
    BY Goes DEF Phases
  <2>2. [At(t, "state") EXCEPT !.storage = next] \in Tasklets
    BY <2>1 DEF Tasklets
  <2>3. task' \in [Tasks -> Tasklets]
    BY <1>2, <2>2, Moves DEF WriteConfig
  <2>4. roster' \subseteq Rows
    BY <1>2 DEF WriteConfig, Held, buildPreservedAdditions, TypeOK
  <2>5. unsaved' \subseteq Rows
    BY <1>2 DEF WriteConfig, TypeOK
  <2> QED BY <1>2, <2>3, <2>4, <2>5 DEF WriteConfig, TypeOK
<1>3. CASE mutateAccounts(t)
  <2>1. cur' \in [Rows -> 0 .. MaxGen]
    BY <1>1, <1>3 DEF mutateAccounts, Addable, TypeOK
  <2> QED BY <1>2, <1>3, <2>1, MutatedRows DEF mutateAccounts
<1>4. CASE saveAccounts(t)
  <2>1. mergeStorageForSave(current, task[t].storage) \in Storages
    BY <1>1, MutatedRows, UnionOfRows
  <2> QED BY <1>2, <1>4, <2>1 DEF saveAccounts, TypeOK
<1>5. CASE migrateIfNeeded(t)
  <2>1. CASE ~store /\ WriteConfig(t, EmptyStorage, {}) /\ UNCHANGED cur
    <3>1. EmptyStorage \in Storages
      BY DEF EmptyStorage, Storages
    <3> QED BY <1>2, <2>1, <3>1 DEF TypeOK
  <2>2. CASE Leave(t) /\ UNCHANGED <<files, rowLock, job, provider, mishaps>>
    <3>1. task' \in [Tasks -> Tasklets]
      BY <2>2, Goes DEF Leave, Phases
    <3> QED BY <2>2, <3>1 DEF Leave, TypeOK
  <2> QED BY <1>5, <2>1, <2>2 DEF migrateIfNeeded
<1>6. CASE WriteState(t)
  <2>1. task' \in [Tasks -> Tasklets]
    BY <1>6, Goes DEF WriteState, Leave, Phases
  <2> QED BY <1>1, <1>6, <2>1 DEF WriteState, Leave, TypeOK
<1> QED BY <1>3, <1>4, <1>5, <1>6 DEF Writing

LEMMA TypesStep ==
    ASSUME TypeOK, Works, [Next]_vars
    PROVE  TypeOK'
<1>1. ASSUME NEW r \in Rows, Age(r) PROVE TypeOK'
  BY <1>1 DEF Age, TypeOK, locks
<1>2. ASSUME NEW p \in Procs, Crash(p) PROVE TypeOK'
  <2>1. [Fresh EXCEPT !.phase = "done"] \in Tasklets
    <3>1. EmptyStorage \in Storages /\ OldRow \in Rows /\ 0 \in 0 .. MaxPolls
      BY DEF EmptyStorage, Storages
    <3> QED BY <3>1 DEF Fresh, Tasklets, Phases
  <2>2. task' \in [Tasks -> Tasklets]
    BY <1>2, <2>1, TaskShape DEF Crash
  <2>3. unsaved' \subseteq Rows
    BY <1>2, TaskShape DEF Crash, TypeOK
  <2> QED BY <1>2, <2>2, <2>3 DEF Crash, Mishap, TypeOK
<1>3. CASE UNCHANGED vars
  BY <1>3 DEF TypeOK, locks
<1> QED BY <1>1, <1>2, <1>3, StepCases, LoadingTypes, LoopingTypes, RefreshTypes, SavingTypes,
           LockingTypes, WritingTypes

-----------------------------------------------------------------------------
(* What a call has in hand *)

(* A call that goes on keeps what it has.                                   *)
LEMMA AtFields ==
    ASSUME TypeOK, NEW t \in Tasks, NEW p \in Phases
    PROVE  /\ At(t, p).phase = p /\ At(t, p).step = "config" /\ At(t, p).row = task[t].row
           /\ At(t, p).account = task[t].account /\ At(t, p).rest = task[t].rest
           /\ At(t, p).read = task[t].read /\ At(t, p).storage = task[t].storage
           /\ At(t, p).refreshing = task[t].refreshing
           /\ At(t, p) \in Tasklets
<1>1. task[t] \in Tasklets
  BY TaskShape
<1> QED BY <1>1, Goes DEF At, Tasklets

OthersStay(t) == \A x \in Tasks \ {t} : task'[x] = task[x]

(* Call t goes on at phase p with what it has.                              *)
GoesOn(t, p) ==
    /\ OthersStay(t)
    /\ task'[t].phase = p /\ task'[t].step = "config" /\ task'[t].row = task[t].row
    /\ task'[t].account = task[t].account /\ task'[t].rest = task[t].rest
    /\ task'[t].read = task[t].read /\ task'[t].storage = task[t].storage
    /\ task'[t].refreshing = task[t].refreshing

LEMMA GotoGoesOn ==
    ASSUME TypeOK, NEW t \in Tasks, NEW p \in Phases, Goto(t, p)
    PROVE  GoesOn(t, p)
<1>1. task'[t] = At(t, p) /\ OthersStay(t)
  BY DEF Goto, OthersStay, TypeOK
<1> QED BY <1>1, AtFields DEF GoesOn

LEMMA AtWorkKept ==
    ASSUME TypeOK, NEW x \in Tasks, AtWork(x), task'[x] = task[x], job' = job,
           \A r \in Rows : due'[r] >= due[r], \A r \in Rows : due'[r] \in Nat
    PROVE  AtWork(x)'
<1>1. task[x].row \in Rows /\ task[x].read \in Storages
  BY TaskShape
<1>2. due[task[x].row] \in Nat /\ due'[task[x].row] \in Nat
  BY <1>1 DEF TypeOK
<1>3. task[x].read[task[x].row].gen \in Nat
  BY <1>1, EntryShape DEF Storages
<1> QED BY <1>1, <1>2, <1>3 DEF AtWork, Held

LEMMA AtWorkReturned ==
    ASSUME TypeOK, NEW x \in Tasks, AtWork(x), NEW e, Returned(x, e), job' = job,
           task[x].phase \in Busy \/ task[x].refreshing
    PROVE  AtWork(x)'
<1>1. task[x].row \in Rows /\ task[x].rest \in SUBSET Rows
  BY TaskShape
<1>2. /\ task'[x].phase = "each" /\ ~task'[x].refreshing /\ job'[x] = job[x]
      /\ task'[x].rest = task[x].rest \ {task[x].row}
      /\ \A s \in Rows \ {task[x].row} : task'[x].storage[s] = task[x].storage[s]
      /\ task'[x] \in Tasklets
  BY DEF Returned
<1>3. job[x] \in Loops /\ task[x].rest \subseteq Held(task[x].storage)
  BY DEF AtWork
<1>4. task'[x].rest \subseteq Held(task'[x].storage)
  BY <1>1, <1>2, <1>3 DEF Held
<1> HIDE DEF AtWork
<1>5. task'[x].refreshing = FALSE
  BY <1>2 DEF Tasklets
<1>6. task'[x].step = "config"
  BY DEF Returned
<1> QED BY <1>2, <1>3, <1>4, <1>5, <1>6 DEF AtWork, Busy, Editing

(* A settled refresh leaves every call with what it needs.                  *)
LEMMA SettleWorks ==
    ASSUME TypeOK, Works, NEW t \in Tasks, task[t].phase \in Busy \/ task[t].refreshing,
           NEW outcome \in {"ok", "failed", "removed"}, NEW e \in Entries,
           Settle(t, outcome, e), job' = job, due' = due
    PROVE  Works'
<1>1. \A r \in Rows : due'[r] >= due[r] /\ due'[r] \in Nat
  BY DEF TypeOK
<1>2. AtWork(t)'
  BY SettleReturns, AtWorkReturned DEF Works
<1>3. ASSUME NEW x \in Tasks \ {t} PROVE AtWork(x)'
  <2>1. CASE task'[x] = task[x]
    BY <1>1, <2>1, AtWorkKept DEF Works
  <2>2. CASE task[x].phase = "join" /\ Returned(x, e)
    BY <2>2, AtWorkReturned DEF Works, Busy
  <2> QED BY <2>1, <2>2, SettleReturns
<1> QED BY <1>2, <1>3 DEF Works

(* One call has moved, and has what it needs there.                         *)
LEMMA OneWorks ==
    ASSUME TypeOK, Works, NEW t \in Tasks, OthersStay(t), job' = job, due' = due, AtWork(t)'
    PROVE  Works'
<1>1. \A r \in Rows : due'[r] >= due[r] /\ due'[r] \in Nat
  BY DEF TypeOK
<1> QED BY <1>1, AtWorkKept DEF Works, OthersStay

LEMMA LoadingWorks ==
    ASSUME TypeOK, Works, NEW t \in Tasks, Loading(t)
    PROVE  Works'
<1>1. task[t] \in Tasklets /\ AtWork(t)
  BY TaskShape DEF Works
<1>2. OthersStay(t)
  BY DEF Loading, Start, ReadConfig, ReadState, LoopBegins, SnapshotTaken, OthersStay, TypeOK
<1>3. AtWork(t)'
  <2>1. CASE Start(t)
    <3>1. PICK r \in Rows, p \in {"load", "config", "done"} :
             /\ task'[t] = [At(t, p) EXCEPT !.row = r]
             /\ p = "config" => job[t] \notin Loops
      BY <2>1 DEF Start, TypeOK, Loops
    <3>2. /\ task'[t].phase = p /\ task'[t].rest = task[t].rest /\ task'[t].step = "config"
          /\ task'[t].storage = task[t].storage /\ task'[t].refreshing = task[t].refreshing
      BY <3>1, AtFields DEF Phases, Tasklets
    <3>3. task[t].phase = "ready" /\ job' = job
      BY <2>1 DEF Start, Is
    <3> QED BY <1>1, <3>1, <3>2, <3>3 DEF AtWork, Busy, Editing, Held
  <2>2. CASE ReadConfig(t)
    <3>1. task'[t] = [task[t] EXCEPT !.step = "state", !.seen = roster] /\ job' = job /\ due' = due
      BY <2>2, <1>1 DEF ReadConfig, TypeOK
    <3>2. /\ task'[t].phase = task[t].phase /\ task'[t].rest = task[t].rest
          /\ task'[t].row = task[t].row /\ task'[t].account = task[t].account
          /\ task'[t].read = task[t].read
          /\ task'[t].storage = task[t].storage /\ task'[t].refreshing = task[t].refreshing
      BY <1>1, <3>1 DEF Tasklets
    <3>3. task[t].phase \in Loads
      BY <2>2 DEF ReadConfig
    <3> QED BY <1>1, <3>1, <3>2, <3>3 DEF AtWork, Held
  <2>3. CASE ReadState(t)
    <3> DEFINE new == normalizeStorage(mergeConfigAndState(task[t].seen, state))
    <3>1. task'[t] = [task[t] EXCEPT !.step = "read", !.read = new] /\ job' = job
      BY <2>3, <1>1 DEF ReadState, TypeOK
    <3> HIDE DEF new
    <3>2. /\ task'[t].phase = task[t].phase /\ task'[t].rest = task[t].rest
          /\ task'[t].row = task[t].row /\ task'[t].account = task[t].account
          /\ task'[t].storage = task[t].storage /\ task'[t].refreshing = task[t].refreshing
      BY <1>1, <3>1 DEF Tasklets
    <3>3. task[t].phase \in Loads /\ task[t].phase # "send"
      BY <2>3, <1>1 DEF ReadState, AtWork, Loads
    <3> QED BY <1>1, <3>1, <3>2, <3>3 DEF AtWork, Held
  <2>4. CASE LoopBegins(t)
    <3>1. /\ task'[t] = [At(t, "each") EXCEPT !.storage = task[t].read,
                                              !.rest = Held(task[t].read)]
          /\ job' = job /\ job[t] \in Loops /\ task[t].phase = "load"
      BY <2>4 DEF LoopBegins, Loaded, Is, TypeOK, Loops
    <3>2. /\ task'[t].phase = "each" /\ task'[t].rest = Held(task[t].read)
          /\ task'[t].step = "config"
          /\ task'[t].storage = task[t].read /\ task'[t].refreshing = task[t].refreshing
      BY <3>1, AtFields DEF Phases, Tasklets
    <3> QED BY <1>1, <3>1, <3>2 DEF AtWork, Busy, Editing, Held
  <2>5. CASE SnapshotTaken(t)
    <3>1. PICK p \in {"config", "done", "save"} :
             /\ task'[t] = [At(t, p) EXCEPT !.storage = task[t].read]
             /\ job' = job /\ job[t] \notin Loops /\ task[t].phase = "load"
      BY <2>5 DEF SnapshotTaken, Loaded, Is, TypeOK, Loops
    <3>2. /\ task'[t].phase = p /\ task'[t].refreshing = task[t].refreshing
          /\ task'[t].step = "config"
      BY <3>1, AtFields DEF Phases, Tasklets
    <3> QED BY <1>1, <3>1, <3>2 DEF AtWork, Busy, Editing
  <2> QED BY <2>1, <2>2, <2>3, <2>4, <2>5 DEF Loading
<1>4. job' = job /\ due' = due
  BY DEF Loading, Start, ReadConfig, ReadState, LoopBegins, SnapshotTaken
<1> QED BY <1>2, <1>3, <1>4, OneWorks

(* A call that goes on with what it has, to a place that asks for no more.  *)
LEMMA GoesOnWorks ==
    ASSUME TypeOK, Works, NEW t \in Tasks, NEW p \in Phases, GoesOn(t, p),
           job' = job, due' = due,
           task[t].refreshing => p \in {"save", "merge", "final"},
           p = "final" => task[t].refreshing,
           p \in Busy \cup {"each"} => job[t] \in Loops,
           p \in Editing => job[t] \notin Loops,
           p \in Busy => task[t].phase \in Busy \/ task[t].refreshing,
           p = "send" => /\ task[t].read[task[t].row] # NoEntry
                         /\ task[t].read[task[t].row].gen <= due[task[t].row]
    PROVE  Works'
<1>1. task[t] \in Tasklets /\ AtWork(t)
  BY TaskShape DEF Works
<1>2. AtWork(t)'
  BY <1>1 DEF AtWork, GoesOn, Held
<1> QED BY <1>2, OneWorks DEF GoesOn

LEMMA LoopingWorks ==
    ASSUME TypeOK, Works, NEW t \in Tasks, Looping(t)
    PROVE  Works'
<1>1. task[t] \in Tasklets /\ AtWork(t)
  BY TaskShape DEF Works
<1>2. CASE LoopEnds(t)
  <2>1. PICK p \in {"save", "done"} : Goto(t, p)
    BY <1>2 DEF LoopEnds
  <2>2. GoesOn(t, p) /\ p \in Phases
    BY <2>1, GotoGoesOn DEF Phases
  <2>3. task[t].phase = "each" /\ job' = job /\ due' = due
    BY <1>2 DEF LoopEnds, Is
  <2> QED BY <1>1, <2>2, <2>3, GoesOnWorks DEF AtWork, Busy, Editing
<1>3. CASE NextRow(t)
  <2>1. PICK r \in task[t].rest :
          \/ task' = [task EXCEPT ![t].rest = @ \ {r}]
          \/ \E p \in {"join", "first"} : task' = [task EXCEPT ![t] =
                 [At(t, p) EXCEPT !.row = r, !.account = task[t].storage[r]]]
    BY <1>3 DEF NextRow
  <2>2. /\ task[t].phase = "each" /\ job' = job /\ due' = due /\ job[t] \in Loops
        /\ ~task[t].refreshing
    BY <1>1, <1>3 DEF NextRow, Is, AtWork
  <2>3. CASE task' = [task EXCEPT ![t].rest = @ \ {r}]
    <3>1. task'[t] = [task[t] EXCEPT !.rest = @ \ {r}] /\ OthersStay(t)
      BY <2>3 DEF OthersStay, TypeOK
    <3>2. /\ task'[t].phase = "each" /\ task'[t].step = task[t].step
          /\ task'[t].rest = task[t].rest \ {r} /\ task'[t].storage = task[t].storage
          /\ task'[t].refreshing = task[t].refreshing
      BY <1>1, <2>2, <3>1 DEF Tasklets
    <3>3. AtWork(t)'
      BY <1>1, <2>2, <3>2 DEF AtWork, Busy, Editing, Held
    <3> QED BY <2>2, <3>1, <3>3, OneWorks
  <2>4. ASSUME NEW p \in {"join", "first"},
               task' = [task EXCEPT ![t] =
                 [At(t, p) EXCEPT !.row = r, !.account = task[t].storage[r]]]
        PROVE  Works'
    <3> DEFINE entry == task[t].storage[r]
    <3>1. r \in Rows /\ entry \in Entries \cup {NoEntry} /\ entry # NoEntry
      BY <1>1, <2>2, TaskShape DEF AtWork, Held, Storages
    <3>2. p \in Phases /\ At(t, p) \in Tasklets
      BY Goes DEF Phases
    <3>3. task'[t] = [At(t, p) EXCEPT !.row = r, !.account = entry] /\ OthersStay(t)
      BY <2>4 DEF OthersStay, TypeOK
    <3>4. /\ task'[t].phase = p /\ task'[t].step = "config"
          /\ task'[t].row = r /\ task'[t].account = entry
          /\ task'[t].rest = task[t].rest /\ task'[t].storage = task[t].storage
          /\ task'[t].refreshing = task[t].refreshing
      <4> HIDE DEF entry
      <4> QED BY <3>1, <3>2, <3>3, AtFields DEF Tasklets
    <3>5. AtWork(t)'
      BY <1>1, <2>2, <3>1, <3>4 DEF AtWork, Busy, Editing, Held
    <3> QED BY <2>2, <3>3, <3>5, OneWorks
  <2> QED BY <2>1, <2>3, <2>4
<1> QED BY <1>2, <1>3 DEF Looping

LEMMA RefreshWorks ==
    ASSUME TypeOK, Works, NEW t \in Tasks, RefreshStep(t)
    PROVE  Works'
<1>1. /\ \A r \in Rows : task[t].read[r] \in Entries \cup {NoEntry}
      /\ \A r \in Rows : task[t].storage[r] \in Entries \cup {NoEntry}
      /\ task[t].row \in Rows /\ task[t] \in Tasklets
  BY TaskShape DEF Storages
<1>2. AtWork(t) /\ task[t].phase \in Busy /\ job[t] \in Loops
  BY DEF RefreshStep, FirstRead, Poll, LockedRead, Send, SendFails, FinalRead, Loaded, Is, Busy,
         Works, AtWork
<1>3. task[t].storage[task[t].row] \in Entries /\ task[t].account # NoEntry
  BY <1>1, <1>2 DEF AtWork
<1>4. job' = job /\ due' = due
  BY DEF RefreshStep, FirstRead, Poll, LockedRead, Send, SendFails, FinalRead
<1>5. ASSUME NEW o \in {"ok", "failed", "removed"}, NEW e \in Entries, Settle(t, o, e)
      PROVE  Works'
  BY <1>2, <1>4, <1>5, SettleWorks
<1>6. CASE FirstRead(t)
  <2>1. CASE task[t].read[task[t].row] # NoEntry /\ Settle(t, "ok", task[t].read[task[t].row])
    BY <1>1, <1>5, <2>1
  <2>2. CASE Goto(t, "locked")
    <3>1. GoesOn(t, "locked") /\ "locked" \in Phases
      BY <2>2, GotoGoesOn DEF Phases
    <3>2. ~task[t].refreshing
      BY <1>2, <1>6 DEF FirstRead, Loaded, Is, AtWork
    <3> QED BY <1>2, <1>4, <3>1, <3>2, GoesOnWorks DEF Busy, Editing
  <2>3. CASE task' = [task EXCEPT ![t] = [At(t, "poll") EXCEPT !.polls = MaxPolls]]
    <3>1. "poll" \in Phases /\ ~task[t].refreshing
      BY <1>2, <1>6 DEF FirstRead, Loaded, Is, AtWork, Phases
    <3>2. task'[t] = [At(t, "poll") EXCEPT !.polls = MaxPolls] /\ OthersStay(t)
      BY <2>3 DEF OthersStay, TypeOK
    <3>3. GoesOn(t, "poll")
      BY <3>1, <3>2, AtFields DEF GoesOn, Tasklets
    <3> QED BY <1>2, <1>4, <3>1, <3>3, GoesOnWorks DEF Busy, Editing
  <2> QED BY <1>6, <2>1, <2>2, <2>3 DEF FirstRead
<1>7. CASE Poll(t)
  <2>1. ASSUME NEW o \in {"ok", "failed"}, task[t].read[task[t].row] # NoEntry,
               Settle(t, o, task[t].read[task[t].row])
        PROVE  Works'
    BY <1>1, <1>5, <2>1
  <2>2. CASE Settle(t, "failed", task[t].storage[task[t].row])
    BY <1>3, <1>5, <2>2
  <2>3. CASE task' = [task EXCEPT ![t] = [At(t, "poll") EXCEPT !.polls = @ - 1]]
    <3>1. "poll" \in Phases /\ ~task[t].refreshing
      BY <1>2, <1>7 DEF Poll, Loaded, Is, AtWork, Phases
    <3>2. task'[t] = [At(t, "poll") EXCEPT !.polls = @ - 1] /\ OthersStay(t)
      BY <2>3 DEF OthersStay, TypeOK
    <3>3. GoesOn(t, "poll")
      BY <3>1, <3>2, AtFields DEF GoesOn, Tasklets
    <3> QED BY <1>2, <1>4, <3>1, <3>3, GoesOnWorks DEF Busy, Editing
  <2> QED BY <1>7, <2>1, <2>2, <2>3 DEF Poll
<1>8. CASE LockedRead(t)
  <2>1. CASE task[t].read[task[t].row] # NoEntry /\ Settle(t, "ok", task[t].read[task[t].row])
    BY <1>1, <1>5, <2>1
  <2>2. CASE Settle(t, "removed", task[t].storage[task[t].row])
    BY <1>3, <1>5, <2>2
  <2>3. CASE /\ Goto(t, "send") /\ task[t].read[task[t].row] # NoEntry
             /\ tokenNeedsRefresh(task[t].row, task[t].read[task[t].row])
    <3>1. GoesOn(t, "send") /\ "send" \in Phases
      BY <2>3, GotoGoesOn DEF Phases
    <3>2. ~task[t].refreshing
      BY <1>2, <1>8 DEF LockedRead, Loaded, Is, AtWork
    <3> QED BY <1>2, <1>4, <2>3, <3>1, <3>2, GoesOnWorks DEF Busy, Editing, tokenNeedsRefresh
  <2> QED BY <1>8, <2>1, <2>2, <2>3 DEF LockedRead
<1>9. CASE Send(t)
  <2> DEFINE r == task[t].row
  <2>1. CASE task' = [task EXCEPT ![t] =
                    [At(t, "save") EXCEPT
                        !.storage[r] = [gen |-> cur[r] + 1, err |-> FALSE],
                        !.refreshing = TRUE]]
    <3> DEFINE e == [gen |-> cur[r] + 1, err |-> FALSE]
    <3>1. e # NoEntry /\ "save" \in Phases
      BY <1>1 DEF NoEntry, Phases, TypeOK
    <3> HIDE DEF e
    <3>2. task'[t] = [At(t, "save") EXCEPT !.storage[r] = e, !.refreshing = TRUE] /\ OthersStay(t)
      BY <2>1 DEF OthersStay, TypeOK, e
    <3>3. At(t, "save") \in Tasklets
      BY <3>1, Goes
    <3>4. /\ task'[t].phase = "save" /\ task'[t].step = "config"
          /\ task'[t].row = r /\ task'[t].account = task[t].account
          /\ task'[t].rest = task[t].rest
          /\ task'[t].storage = [task[t].storage EXCEPT ![r] = e]
      BY <3>1, <3>2, <3>3, AtFields DEF Tasklets
    <3>5. \A s \in Rows : task'[t].storage[s] = IF s = r THEN e ELSE task[t].storage[s]
      BY <1>1, <3>4 DEF Tasklets, Storages
    <3>6. AtWork(t)'
      BY <1>1, <1>2, <1>3, <1>4, <3>1, <3>4, <3>5 DEF AtWork, Busy, Editing, Held
    <3> QED BY <1>4, <3>2, <3>6, OneWorks
  <2>2. CASE Settle(t, "failed", task[t].storage[r])
    BY <1>3, <1>5, <2>2
  <2> QED BY <1>9, <2>1, <2>2 DEF Send
<1>10. CASE SendFails(t) \/ FinalRead(t)
  BY <1>3, <1>5, <1>10 DEF SendFails, FinalRead
<1> QED BY <1>6, <1>7, <1>8, <1>9, <1>10 DEF RefreshStep

LEMMA SavingWorks ==
    ASSUME TypeOK, Works, NEW t \in Tasks, Saving(t)
    PROVE  Works'
<1>1. task[t] \in Tasklets /\ AtWork(t) /\ task[t].refreshing \in BOOLEAN
  BY TaskShape DEF Works
<1>2. job' = job /\ due' = due
  BY DEF Saving, SaveLocks, SaveWrites, SaveWithheld, SaveTimesOut
<1>3. CASE SaveLocks(t)
  <2>1. GoesOn(t, "merge") /\ "merge" \in Phases
    BY <1>3, GotoGoesOn DEF SaveLocks, Phases
  <2> QED BY <1>2, <2>1, GoesOnWorks DEF Busy, Editing
<1>4. CASE (SaveWrites(t) \/ SaveWithheld(t)) /\ task[t].refreshing
  <2>1. Goto(t, "final")
    BY <1>4 DEF SaveWrites, SaveWithheld, Saved
  <2>2. GoesOn(t, "final") /\ "final" \in Phases
    BY <2>1, GotoGoesOn DEF Phases
  <2>3. job[t] \in Loops
    BY <1>1, <1>4 DEF AtWork
  <2> QED BY <1>2, <1>4, <2>2, <2>3, GoesOnWorks DEF Busy, Editing
<1>5. CASE (SaveWrites(t) \/ SaveWithheld(t) \/ (SaveTimesOut(t) /\ Goto(t, "done"))) /\ ~task[t].refreshing
  <2>1. Goto(t, "done")
    BY <1>5 DEF SaveWrites, SaveWithheld, Saved
  <2>2. GoesOn(t, "done") /\ "done" \in Phases
    BY <2>1, GotoGoesOn DEF Phases
  <2> QED BY <1>2, <1>5, <2>2, GoesOnWorks DEF Busy, Editing
<1>6. CASE SaveTimesOut(t) /\ task[t].refreshing
  <2>1. Settle(t, "failed", task[t].storage[task[t].row])
    BY <1>6 DEF SaveTimesOut
  <2>2. task[t].storage[task[t].row] \in Entries
    BY <1>1, <1>6, TaskShape DEF AtWork, Storages
  <2> QED BY <1>2, <1>6, <2>1, <2>2, SettleWorks
<1> QED BY <1>1, <1>3, <1>4, <1>5, <1>6 DEF Saving, SaveTimesOut

(* A call under the locks of an edit, and one that leaves it.               *)
LEMMA LeavesWorks ==
    ASSUME TypeOK, Works, NEW t \in Tasks, NEW p \in Editing \cup {"done"}, Goto(t, p),
           task[t].phase \in Editing, job' = job, due' = due
    PROVE  Works'
<1>1. job[t] \notin Loops /\ ~task[t].refreshing
  BY DEF Works, AtWork, Editing
<1>2. GoesOn(t, p) /\ p \in Phases
  BY GotoGoesOn DEF Phases, Editing
<1> QED BY <1>1, <1>2, GoesOnWorks DEF Busy, Editing

LEMMA LockingWorks ==
    ASSUME TypeOK, Works, NEW t \in Tasks, Locking(t)
    PROVE  Works'
<1>1. job' = job /\ due' = due /\ task[t].phase \in Editing
  BY DEF Locking, LockConfig, LockState, LockTimesOut, EditWithheld, Is, Editing
<1>2. \E p \in Editing \cup {"done"} : Goto(t, p)
  BY DEF Locking, LockConfig, LockState, LockTimesOut, EditWithheld, Leave, Editing
<1> QED BY <1>1, <1>2, LeavesWorks

(* The config file is written with the rows of `next`.                      *)
LEMMA ConfigWritten ==
    ASSUME TypeOK, NEW t \in Tasks, NEW next \in Storages, NEW allowDrop,
           WriteConfig(t, next, allowDrop)
    PROVE  /\ OthersStay(t)
           /\ task'[t].phase = "state" /\ task'[t].step = "config"
           /\ task'[t].row = task[t].row /\ task'[t].account = task[t].account
           /\ task'[t].rest = task[t].rest /\ task'[t].read = task[t].read
           /\ task'[t].storage = next /\ task'[t].refreshing = task[t].refreshing
<1>1. task'[t] = [At(t, "state") EXCEPT !.storage = next] /\ OthersStay(t)
  BY DEF WriteConfig, OthersStay, TypeOK
<1>2. "state" \in Phases
  BY DEF Phases
<1> QED BY <1>1, <1>2, AtFields DEF Tasklets

LEMMA WritingWorks ==
    ASSUME TypeOK, Works, NEW t \in Tasks, Writing(t)
    PROVE  Works'
<1>1. job' = job /\ due' = due /\ task[t].phase \in Editing
  BY DEF Writing, mutateAccounts, saveAccounts, migrateIfNeeded, WriteState, WriteConfig, Is, Editing
<1>2. job[t] \notin Loops /\ ~task[t].refreshing /\ AtWork(t)
  BY <1>1 DEF Works, AtWork, Editing
<1>3. ASSUME NEW next \in Storages, NEW allowDrop, WriteConfig(t, next, allowDrop)
      PROVE  Works'
  <2>1. AtWork(t)'
    BY <1>1, <1>2, <1>3, ConfigWritten DEF AtWork, Busy, Editing
  <2> QED BY <1>1, <1>3, <2>1, ConfigWritten, OneWorks
<1>4. mergeStorageForSave(current, task[t].storage) \in Storages /\ Mutated(t) \in Storages
  BY TaskShape, MutatedRows, UnionOfRows
<1>5. EmptyStorage \in Storages
  BY DEF EmptyStorage, Storages
<1>6. CASE Goto(t, "done")
  BY <1>1, <1>6, LeavesWorks
<1> QED BY <1>3, <1>4, <1>5, <1>6
      DEF Writing, mutateAccounts, saveAccounts, migrateIfNeeded, WriteState, Leave

LEMMA WorksStep ==
    ASSUME TypeOK, Works, [Next]_vars
    PROVE  Works'
<1>1. ASSUME NEW r \in Rows, Age(r) PROVE Works'
  <2>1. \A s \in Rows : due'[s] >= due[s] /\ due'[s] \in Nat /\ due'[s] < MaxGen
    BY <1>1 DEF Age, TypeOK, Works
  <2>2. \A x \in Tasks : AtWork(x)'
    BY <1>1, <2>1, AtWorkKept DEF Age, Works
  <2> QED BY <2>1, <2>2 DEF Works
<1>2. ASSUME NEW p \in Procs, Crash(p) PROVE Works'
  <2>1. ASSUME NEW x \in Tasks PROVE AtWork(x)'
    <3>1. CASE task'[x] = task[x]
      <4>1. \A r \in Rows : due'[r] >= due[r] /\ due'[r] \in Nat
        BY <1>2 DEF Crash, TypeOK
      <4> QED BY <1>2, <3>1, <4>1, AtWorkKept DEF Crash, Works
    <3>2. CASE task'[x] = [Fresh EXCEPT !.phase = "done"]
      <4>1. /\ task'[x].phase = "done" /\ task'[x].step = "config" /\ ~task'[x].refreshing
            /\ task'[x].rest = {}
        BY <3>2 DEF Fresh
      <4> QED BY <4>1 DEF AtWork, Busy, Editing
    <3> QED BY <1>2, <3>1, <3>2 DEF Crash
  <2> QED BY <1>2, <2>1 DEF Crash, Works
<1>3. CASE UNCHANGED vars
  BY <1>3 DEF Works, AtWork, Held
<1> QED BY <1>1, <1>2, <1>3, StepCases, LoadingWorks, LoopingWorks, RefreshWorks, SavingWorks,
           LockingWorks, WritingWorks

-----------------------------------------------------------------------------
(* Locks *)

(* The locks of the calls other than t stay with them.                      *)
OthersKeepLocks(t) ==
    \A x \in Tasks \ {t} :
        /\ \A r \in Rows : rowLock[r] = x => rowLock'[r] = x
        /\ cfgLock = x => cfgLock' = x
        /\ stLock = x => stLock' = x

LEMMA OneLocks ==
    ASSUME TypeOK, Exclusive, NEW t \in Tasks, OthersStay(t), OthersKeepLocks(t), Locked(t)'
    PROVE  Exclusive'
<1>1. ASSUME NEW x \in Tasks \ {t} PROVE Locked(x)'
  <2>1. Locked(x) /\ task'[x] = task[x] /\ task[x].row \in Rows
    BY TaskShape DEF Exclusive, OthersStay
  <2> QED BY <2>1 DEF Locked, OthersKeepLocks
<1> QED BY <1>1 DEF Exclusive

LEMMA SettleLocks ==
    ASSUME TypeOK, Works, Exclusive, NEW t \in Tasks, task[t].phase \in Busy \/ task[t].refreshing,
           NEW outcome \in {"ok", "failed", "removed"}, NEW e \in Entries,
           Settle(t, outcome, e), cfgLock' = cfgLock, stLock' = stLock
    PROVE  Exclusive'
<1>1. ASSUME NEW x \in Tasks, Returned(x, e) PROVE Locked(x)'
  BY <1>1 DEF Returned, Locked
<1>2. ASSUME NEW x \in Tasks \ {t}, task'[x] = task[x] PROVE Locked(x)'
  <2>1. Locked(x) /\ task[x].row \in Rows
    BY TaskShape DEF Exclusive
  <2>2. \A r \in Rows : rowLock[r] = x => rowLock'[r] = x
    BY SettleReturns
  <2> QED BY <1>2, <2>1, <2>2 DEF Locked
<1> QED BY <1>1, <1>2, SettleReturns DEF Exclusive

(* Where a call that loads or loops goes on.                                *)
LEMMA LoadingLands ==
    ASSUME TypeOK, Works, NEW t \in Tasks, Loading(t) \/ Looping(t)
    PROVE  /\ OthersStay(t)
           /\ \/ /\ task'[t].phase \in {"load", "config", "done", "each", "save", "join", "first"}
                 /\ ~task'[t].refreshing
              \/ /\ task'[t].phase = task[t].phase /\ task'[t].row = task[t].row
                 /\ task'[t].refreshing = task[t].refreshing
                 /\ task[t].phase \in Loads \cup {"each"}
<1>1. task[t] \in Tasklets /\ AtWork(t) /\ task[t].row \in Rows
  BY TaskShape DEF Works
<1>2. OthersStay(t)
  BY DEF Loading, Looping, Start, ReadConfig, ReadState, LoopBegins, SnapshotTaken, NextRow, LoopEnds,
         Goto, OthersStay, TypeOK
<1>3. \/ /\ task'[t].phase \in {"load", "config", "done", "each", "save", "join", "first"}
         /\ ~task'[t].refreshing
      \/ /\ task'[t].phase = task[t].phase /\ task'[t].row = task[t].row
         /\ task'[t].refreshing = task[t].refreshing
         /\ task[t].phase \in Loads \cup {"each"}
  <2>1. CASE Start(t)
    <3>1. PICK r \in Rows, p \in {"load", "config", "done"} : task'[t] = [At(t, p) EXCEPT !.row = r]
      BY <2>1 DEF Start, TypeOK
    <3>2. ~task[t].refreshing
      BY <1>1, <2>1 DEF Start, Is, AtWork
    <3> QED BY <3>1, <3>2, AtFields DEF Phases, Tasklets
  <2>2. CASE ReadConfig(t) \/ ReadState(t)
    <3>1. task[t].phase \in Loads
      BY <1>1, <2>2 DEF ReadConfig, ReadState, AtWork
    <3> QED BY <1>1, <2>2, <3>1 DEF ReadConfig, ReadState, TypeOK, Tasklets
  <2>3. CASE LoopBegins(t)
    <3>1. task'[t] = [At(t, "each") EXCEPT !.storage = task[t].read, !.rest = Held(task[t].read)]
      BY <2>3 DEF LoopBegins, TypeOK
    <3>2. ~task[t].refreshing
      BY <1>1, <2>3 DEF LoopBegins, Loaded, Is, AtWork
    <3> QED BY <3>1, <3>2, AtFields DEF Phases, Tasklets
  <2>4. CASE SnapshotTaken(t)
    <3>1. PICK p \in {"config", "done", "save"} :
             task'[t] = [At(t, p) EXCEPT !.storage = task[t].read]
      BY <2>4 DEF SnapshotTaken, TypeOK
    <3>2. ~task[t].refreshing
      BY <1>1, <2>4 DEF SnapshotTaken, Loaded, Is, AtWork
    <3> QED BY <3>1, <3>2, AtFields DEF Phases, Tasklets
  <2>5. CASE LoopEnds(t)
    <3>1. PICK p \in {"save", "done"} : Goto(t, p)
      BY <2>5 DEF LoopEnds
    <3>2. GoesOn(t, p) /\ ~task[t].refreshing
      BY <1>1, <2>5, <3>1, GotoGoesOn DEF Phases, LoopEnds, Is, AtWork
    <3> QED BY <3>2 DEF GoesOn
  <2>6. CASE NextRow(t)
    <3>1. PICK r \in task[t].rest :
            \/ task'[t] = [task[t] EXCEPT !.rest = @ \ {r}]
            \/ \E p \in {"join", "first"} :
                  task'[t] = [At(t, p) EXCEPT !.row = r, !.account = task[t].storage[r]]
      BY <2>6 DEF NextRow, TypeOK
    <3>2. ~task[t].refreshing
      BY <1>1, <2>6 DEF NextRow, Is, AtWork
    <3>3. CASE task'[t] = [task[t] EXCEPT !.rest = @ \ {r}]
      BY <1>1, <2>6, <3>3 DEF Tasklets, NextRow, Is
    <3>4. ASSUME NEW p \in {"join", "first"},
                 task'[t] = [At(t, p) EXCEPT !.row = r, !.account = task[t].storage[r]]
          PROVE  task'[t].phase = p /\ ~task'[t].refreshing
      BY <3>2, <3>4, AtFields DEF Phases, Tasklets
    <3> QED BY <3>1, <3>3, <3>4
  <2> QED BY <2>1, <2>2, <2>3, <2>4, <2>5, <2>6 DEF Loading, Looping
<1> QED BY <1>2, <1>3

LEMMA LoadingLocks ==
    ASSUME TypeOK, Works, Exclusive, NEW t \in Tasks, Loading(t) \/ Looping(t)
    PROVE  Exclusive'
<1>1. Locked(t) /\ task[t].row \in Rows
  BY TaskShape DEF Exclusive
<1>2. UNCHANGED locks
  BY DEF Loading, Looping, Start, ReadConfig, ReadState, LoopBegins, SnapshotTaken, NextRow, LoopEnds
<1>3. Locked(t)'
  BY <1>1, <1>2, LoadingLands DEF Locked
<1> QED BY <1>2, <1>3, LoadingLands, OneLocks DEF OthersKeepLocks

LEMMA RefreshLocks ==
    ASSUME TypeOK, Works, Exclusive, NEW t \in Tasks, RefreshStep(t)
    PROVE  Exclusive'
<1>1. /\ \A r \in Rows : task[t].read[r] \in Entries \cup {NoEntry}
      /\ \A r \in Rows : task[t].storage[r] \in Entries \cup {NoEntry}
      /\ task[t].row \in Rows /\ task[t] \in Tasklets /\ AtWork(t) /\ Locked(t)
  BY TaskShape DEF Storages, Works, Exclusive
<1>2. task[t].phase \in Busy
  BY DEF RefreshStep, FirstRead, Poll, LockedRead, Send, SendFails, FinalRead, Loaded, Is, Busy
<1>3. task[t].storage[task[t].row] \in Entries
  BY <1>1, <1>2 DEF AtWork
<1>4. cfgLock' = cfgLock /\ stLock' = stLock
  BY DEF RefreshStep, FirstRead, Poll, LockedRead, Send, SendFails, FinalRead
<1>5. ASSUME NEW o \in {"ok", "failed", "removed"}, NEW e \in Entries, Settle(t, o, e)
      PROVE  Exclusive'
  BY <1>2, <1>4, <1>5, SettleLocks
<1>6. ASSUME NEW p \in {"locked", "send"}, Goto(t, p), rowLock'[task[t].row] = t, OthersKeepLocks(t)
      PROVE  Exclusive'
  <2>1. GoesOn(t, p)
    BY <1>6, GotoGoesOn DEF Phases
  <2>2. Locked(t)'
    BY <1>6, <2>1 DEF GoesOn, Locked
  <2> QED BY <1>6, <2>1, <2>2, OneLocks DEF GoesOn
<1>7. ASSUME NEW n, task' = [task EXCEPT ![t] = [At(t, "poll") EXCEPT !.polls = n]],
             UNCHANGED rowLock, ~task[t].refreshing
      PROVE  Exclusive'
  <2>1. task'[t] = [At(t, "poll") EXCEPT !.polls = n] /\ OthersStay(t)
    BY <1>7 DEF OthersStay, TypeOK
  <2>2. task'[t].phase = "poll" /\ ~task'[t].refreshing
    BY <1>7, <2>1, AtFields DEF Phases, Tasklets
  <2> QED BY <1>4, <1>7, <2>1, <2>2, OneLocks DEF Locked, OthersKeepLocks
<1>8. CASE FirstRead(t)
  <2>1. CASE task[t].read[task[t].row] # NoEntry /\ Settle(t, "ok", task[t].read[task[t].row])
    BY <1>1, <1>5, <2>1
  <2>2. CASE /\ rowLock[task[t].row] = None
             /\ rowLock' = [rowLock EXCEPT ![task[t].row] = t] /\ Goto(t, "locked")
    <3>1. rowLock'[task[t].row] = t /\ OthersKeepLocks(t)
      BY <1>1, <1>4, <2>2 DEF TypeOK, OthersKeepLocks
    <3> QED BY <1>6, <2>2, <3>1
  <2>3. CASE /\ task' = [task EXCEPT ![t] = [At(t, "poll") EXCEPT !.polls = MaxPolls]]
             /\ UNCHANGED rowLock
    BY <1>1, <1>7, <1>8, <2>3 DEF FirstRead, Loaded, Is, AtWork
  <2> QED BY <1>8, <2>1, <2>2, <2>3 DEF FirstRead
<1>9. CASE Poll(t)
  <2>1. ASSUME NEW o \in {"ok", "failed"}, task[t].read[task[t].row] # NoEntry,
               Settle(t, o, task[t].read[task[t].row])
        PROVE  Exclusive'
    BY <1>1, <1>5, <2>1
  <2>2. CASE Settle(t, "failed", task[t].storage[task[t].row])
    BY <1>3, <1>5, <2>2
  <2>3. CASE /\ task' = [task EXCEPT ![t] = [At(t, "poll") EXCEPT !.polls = @ - 1]]
             /\ UNCHANGED rowLock
    BY <1>1, <1>7, <1>9, <2>3 DEF Poll, Loaded, Is, AtWork
  <2> QED BY <1>9, <2>1, <2>2, <2>3 DEF Poll
<1>10. CASE LockedRead(t)
  <2>1. CASE task[t].read[task[t].row] # NoEntry /\ Settle(t, "ok", task[t].read[task[t].row])
    BY <1>1, <1>5, <2>1
  <2>2. CASE Settle(t, "removed", task[t].storage[task[t].row])
    BY <1>3, <1>5, <2>2
  <2>3. CASE Goto(t, "send") /\ UNCHANGED rowLock
    <3>1. rowLock[task[t].row] = t
      BY <1>1, <1>10 DEF LockedRead, Loaded, Is, Locked
    <3> QED BY <1>4, <1>6, <2>3, <3>1 DEF OthersKeepLocks
  <2> QED BY <1>10, <2>1, <2>2, <2>3 DEF LockedRead
<1>11. CASE Send(t)
  <2> DEFINE r == task[t].row
  <2>1. CASE /\ task' = [task EXCEPT ![t] =
                    [At(t, "save") EXCEPT
                        !.storage[r] = [gen |-> cur[r] + 1, err |-> FALSE],
                        !.refreshing = TRUE]]
             /\ UNCHANGED rowLock
    <3> DEFINE e == [gen |-> cur[r] + 1, err |-> FALSE]
    <3> HIDE DEF e
    <3>1. task'[t] = [At(t, "save") EXCEPT !.storage[r] = e, !.refreshing = TRUE] /\ OthersStay(t)
      BY <2>1 DEF OthersStay, TypeOK, e
    <3>2. task'[t].phase = "save" /\ task'[t].row = r
      BY <3>1, AtFields DEF Phases, Tasklets
    <3>3. rowLock[r] = t
      BY <1>1, <1>11 DEF Send, Is, Locked
    <3>4. Locked(t)'
      BY <2>1, <3>2, <3>3 DEF Locked
    <3> QED BY <1>4, <2>1, <3>1, <3>4, OneLocks DEF OthersKeepLocks
  <2>2. CASE Settle(t, "failed", task[t].storage[r])
    BY <1>3, <1>5, <2>2
  <2> QED BY <1>11, <2>1, <2>2 DEF Send
<1>12. CASE SendFails(t) \/ FinalRead(t)
  BY <1>3, <1>5, <1>12 DEF SendFails, FinalRead
<1> QED BY <1>8, <1>9, <1>10, <1>11, <1>12 DEF RefreshStep

LEMMA SavingLocks ==
    ASSUME TypeOK, Works, Exclusive, NEW t \in Tasks, Saving(t)
    PROVE  Exclusive'
<1>1. task[t] \in Tasklets /\ AtWork(t) /\ Locked(t) /\ task[t].row \in Rows
  BY TaskShape DEF Works, Exclusive
<1>2. CASE SaveTimesOut(t) /\ Settle(t, "failed", task[t].storage[task[t].row])
           /\ task[t].refreshing
  <2>1. task[t].storage[task[t].row] \in Entries
    BY <1>1, <1>2, TaskShape DEF AtWork, Storages
  <2> QED BY <1>2, <2>1, SettleLocks DEF SaveTimesOut
<1>3. CASE SaveLocks(t)
  <2>1. GoesOn(t, "merge")
    BY <1>3, GotoGoesOn DEF SaveLocks, Phases
  <2>2. OthersKeepLocks(t) /\ rowLock' = rowLock /\ stLock' = t
    BY <1>3 DEF SaveLocks, OthersKeepLocks
  <2>3. Locked(t)'
    BY <1>1, <2>1, <2>2 DEF Locked, GoesOn
  <2> QED BY <2>1, <2>2, <2>3, OneLocks DEF GoesOn
<1>4. ASSUME NEW p \in {"final", "done"}, Goto(t, p), rowLock' = rowLock, cfgLock' = cfgLock,
             stLock' \in {stLock, None}, stLock' # stLock => stLock = t,
             p = "final" => task[t].refreshing
      PROVE  Exclusive'
  <2>1. GoesOn(t, p)
    BY <1>4, GotoGoesOn DEF Phases
  <2>2. OthersKeepLocks(t)
    BY <1>4 DEF OthersKeepLocks
  <2>3. Locked(t)'
    BY <1>1, <1>4, <2>1 DEF Locked, GoesOn
  <2> QED BY <2>1, <2>2, <2>3, OneLocks DEF GoesOn
<1>5. CASE SaveWrites(t) \/ SaveWithheld(t)
  <2>1. stLock = t
    BY <1>1, <1>5 DEF SaveWrites, SaveWithheld, Is, Locked
  <2>2. PICK p \in {"final", "done"} : Goto(t, p) /\ (p = "final" => task[t].refreshing)
    BY <1>5 DEF SaveWrites, SaveWithheld, Saved
  <2> QED BY <1>4, <1>5, <2>1, <2>2 DEF SaveWrites, SaveWithheld
<1>6. CASE SaveTimesOut(t) /\ Goto(t, "done") /\ UNCHANGED rowLock
  BY <1>4, <1>6 DEF SaveTimesOut
<1> QED BY <1>2, <1>3, <1>5, <1>6 DEF Saving, SaveTimesOut

(* An edit takes its locks one by one and gives them back together.         *)
LEMMA EditingLocks ==
    ASSUME TypeOK, Works, Exclusive, NEW t \in Tasks, Locking(t) \/ Writing(t)
    PROVE  Exclusive'
<1>1. task[t] \in Tasklets /\ AtWork(t) /\ Locked(t) /\ task[t].row \in Rows
  BY TaskShape DEF Works, Exclusive
<1>2. ~task[t].refreshing
  BY <1>1 DEF Locking, Writing, LockConfig, LockState, LockTimesOut, EditWithheld,
              mutateAccounts, saveAccounts, migrateIfNeeded, WriteState, Is, AtWork
<1>3. ASSUME Leave(t), rowLock' = rowLock PROVE Exclusive'
  <2>1. GoesOn(t, "done")
    BY <1>3, GotoGoesOn DEF Leave, Phases
  <2>2. OthersKeepLocks(t)
    BY <1>3 DEF Leave, OthersKeepLocks
  <2>3. Locked(t)'
    BY <1>2, <2>1 DEF Locked, GoesOn
  <2> QED BY <2>1, <2>2, <2>3, OneLocks DEF GoesOn
<1>4. ASSUME LockConfig(t) \/ LockState(t) PROVE Exclusive'
  <2>1. PICK p \in {"both", "write"} : Goto(t, p) /\ p = IF LockConfig(t) THEN "both" ELSE "write"
    BY <1>4 DEF LockConfig, LockState
  <2>2. GoesOn(t, p)
    BY <2>1, GotoGoesOn DEF Phases
  <2>3. OthersKeepLocks(t)
    BY <1>4 DEF LockConfig, LockState, OthersKeepLocks
  <2>4. Locked(t)'
    BY <1>1, <1>2, <1>4, <2>1, <2>2 DEF Locked, GoesOn, LockConfig, LockState, Is
  <2> QED BY <2>2, <2>3, <2>4, OneLocks DEF GoesOn
<1>5. ASSUME NEW next \in Storages, NEW allowDrop, WriteConfig(t, next, allowDrop),
             task[t].phase = "write"
      PROVE  Exclusive'
  <2>1. UNCHANGED locks /\ OthersStay(t)
    BY <1>5, ConfigWritten DEF WriteConfig
  <2>2. Locked(t)'
    BY <1>1, <1>2, <1>5, <2>1, ConfigWritten DEF Locked
  <2> QED BY <2>1, <2>2, OneLocks DEF OthersKeepLocks
<1>6. mergeStorageForSave(current, task[t].storage) \in Storages /\ Mutated(t) \in Storages
  BY TaskShape, MutatedRows, UnionOfRows
<1>7. EmptyStorage \in Storages
  BY DEF EmptyStorage, Storages
<1>8. CASE Locking(t)
  BY <1>3, <1>4, <1>8 DEF Locking, LockTimesOut, EditWithheld
<1>9. CASE Writing(t)
  BY <1>3, <1>5, <1>6, <1>7, <1>9
     DEF Writing, mutateAccounts, saveAccounts, migrateIfNeeded, WriteState, Is
<1> QED BY <1>8, <1>9

LEMMA LocksStep ==
    ASSUME TypeOK, Works, Exclusive, [Next]_vars
    PROVE  Exclusive'
<1>1. ASSUME NEW r \in Rows, Age(r) PROVE Exclusive'
  BY <1>1 DEF Age, Exclusive, Locked
<1>2. ASSUME NEW p \in Procs, Crash(p) PROVE Exclusive'
  <2>1. ASSUME NEW x \in Tasks PROVE Locked(x)'
    <3>1. CASE Home[x] # p
      <4>1. /\ task'[x] = task[x] /\ (cfgLock = x => cfgLock' = x) /\ (stLock = x => stLock' = x)
            /\ \A r \in Rows : rowLock[r] = x => rowLock'[r] = x
        BY <1>2, <3>1 DEF Crash
      <4>2. Locked(x) /\ task[x].row \in Rows
        BY TaskShape DEF Exclusive
      <4> QED BY <4>1, <4>2 DEF Locked
    <3>2. CASE Home[x] = p
      <4>1. task'[x] = [Fresh EXCEPT !.phase = "done"]
        BY <1>2, <3>2 DEF Crash
      <4>2. task'[x].phase = "done" /\ ~task'[x].refreshing
        BY <4>1 DEF Fresh
      <4> QED BY <4>2 DEF Locked
    <3> QED BY <3>1, <3>2
  <2> QED BY <2>1 DEF Exclusive
<1>3. CASE UNCHANGED vars
  BY <1>3 DEF Exclusive, Locked
<1> QED BY <1>1, <1>2, <1>3, StepCases, LoadingLocks, RefreshLocks, SavingLocks, EditingLocks

-----------------------------------------------------------------------------
(* The copies of a token *)

(* The stored token of row r is there still, and no older.                  *)
Grows(r) == state[r] # NoEntry => state'[r] # NoEntry /\ state[r].gen <= state'[r].gen

LEMMA BehindGrows ==
    ASSUME NEW e \in Entries \cup {NoEntry}, NEW a \in Entries \cup {NoEntry},
           NEW b \in Entries \cup {NoEntry}, Behind(e, a),
           a # NoEntry => b # NoEntry /\ a.gen <= b.gen
    PROVE  Behind(e, b)
<1>1. e.gen \in Nat /\ a.gen \in Nat /\ b.gen \in Nat
  BY EntryShape
<1> QED BY <1>1 DEF Behind

(* The copies of a call that does not move stay what they are.              *)
LEMMA CopiesKept ==
    ASSUME TypeOK, TypeOK', NEW x \in Tasks, NEW r \in Rows, Copies(x, r),
           task'[x] = task[x], job' = job, Grows(r),
           state'[r] = state[r] \/ task[x].phase # "state",
           \/ cur'[r] = cur[r]
           \/ /\ ~(Rotated(x) /\ task[x].row = r)
              /\ task[x].phase = "state" => state[r] # NoEntry
              /\ ~((Loaded(x, "locked") \/ Is(x, "send")) /\ task[x].row = r
                   /\ task[x].read[r] # NoEntry)
    PROVE  Copies(x, r)'
<1>1. /\ task[x].read[r] \in Entries \cup {NoEntry} /\ task[x].storage[r] \in Entries \cup {NoEntry}
      /\ task[x].account \in Entries \cup {NoEntry}
      /\ state[r] \in Entries \cup {NoEntry} /\ state'[r] \in Entries \cup {NoEntry}
  BY TaskShape DEF TypeOK, Storages
<1>2. \A e \in Entries \cup {NoEntry} : Behind(e, state[r]) => Behind(e, state'[r])
  BY <1>1, BehindGrows DEF Grows
<1>3. Behind(task'[x].read[r], state'[r])
  BY <1>1, <1>2 DEF Copies
<1>4. (task'[x].phase \in Busy \/ task'[x].refreshing) /\ task'[x].row = r =>
          Behind(task'[x].account, state'[r])
  BY <1>1, <1>2 DEF Copies
<1>5. IF Rotated(x)' /\ task'[x].row = r
      THEN state'[r] # NoEntry /\ task'[x].storage[r].gen = cur'[r]
      ELSE task'[x].phase \notin {"state", "done"} => Behind(task'[x].storage[r], state'[r])
  <2>1. Rotated(x)' <=> Rotated(x)
    BY DEF Rotated
  <2> QED BY <1>1, <1>2, <2>1 DEF Copies, Grows
<1>6. task'[x].phase = "state" =>
          IF state'[r] # NoEntry
          THEN /\ task'[x].storage[r].gen = state'[r].gen
               /\ state'[r].err => task'[x].storage[r].err \/ job'[x] = "clear"
          ELSE task'[x].storage[r] # NoEntry => task'[x].storage[r].gen = cur'[r]
  BY DEF Copies
<1>7. /\ Loaded(x, "locked")' \/ Is(x, "send")'
      /\ task'[x].row = r /\ task'[x].read[r] # NoEntry
      => task'[x].read[r].gen = cur'[r]
  BY DEF Copies, Loaded, Is
<1> QED BY <1>3, <1>4, <1>5, <1>6, <1>7 DEF Copies

(* One call has moved, and neither the files nor the provider have.         *)
LEMMA OneStored ==
    ASSUME TypeOK, TypeOK', Stored, NEW t \in Tasks, OthersStay(t), job' = job,
           state' = state, cur' = cur, roster' = roster, unsaved \subseteq unsaved',
           Rotated(t) => \/ task[t].row \in unsaved'
                         \/ Rotated(t)' /\ task'[t].row = task[t].row,
           \A r \in Rows \ unsaved' : Copies(t, r) => Copies(t, r)'
    PROVE  Stored'
<1>1. SUFFICES ASSUME NEW r \in Rows \ unsaved'
               PROVE  Latest(r)' /\ \A x \in Tasks : Copies(x, r)'
  BY DEF Stored
<1>2. Latest(r) /\ \A x \in Tasks : Copies(x, r)
  BY DEF Stored
<1>3. ASSUME NEW x \in Tasks, Rotated(x), task[x].row = r
      PROVE  Rotated(x)' /\ task'[x].row = r
  BY <1>3 DEF OthersStay, Rotated
<1>4. Latest(r)'
  BY <1>2, <1>3 DEF Latest
<1>5. ASSUME NEW x \in Tasks \ {t} PROVE Copies(x, r)'
  <2>1. Grows(r)
    BY EntryShape DEF Grows, TypeOK, Storages
  <2> QED BY <1>2, <2>1, CopiesKept DEF OthersStay
<1> QED BY <1>2, <1>4, <1>5

(* A call that goes on with the copies it has.                              *)
LEMMA GoesOnStored ==
    ASSUME TypeOK, TypeOK', Stored, NEW t \in Tasks, NEW p \in Phases \ {"state"}, GoesOn(t, p),
           job' = job, state' = state, cur' = cur, roster' = roster, unsaved \subseteq unsaved',
           task[t].phase # "done", task[t].phase = "state" => p = "done",
           Rotated(t) => task[t].row \in unsaved' \/ p \in {"save", "merge"},
           task[t].refreshing /\ p \in {"save", "merge"} => task[t].phase \in {"save", "merge"},
           p \in Busy => task[t].phase \in Busy \/ task[t].refreshing,
           p = "send" => Loaded(t, "locked")
    PROVE  Stored'
<1>1. ASSUME NEW r \in Rows \ unsaved', Copies(t, r) PROVE Copies(t, r)'
  <2>1. /\ task'[t].phase = p /\ task'[t].row = task[t].row /\ task'[t].account = task[t].account
        /\ task'[t].read = task[t].read /\ task'[t].storage = task[t].storage
        /\ task'[t].refreshing = task[t].refreshing /\ ~Loaded(t, "locked")'
    BY DEF GoesOn, Loaded, Is
  <2>2. Rotated(t)' /\ task'[t].row = r <=> Rotated(t) /\ task[t].row = r
    BY <2>1 DEF Rotated
  <2>3. Is(t, "send")' => Loaded(t, "locked")
    BY <2>1 DEF Is
  <2> QED BY <1>1, <2>1, <2>2, <2>3 DEF Copies
<1>2. Rotated(t) => \/ task[t].row \in unsaved'
                    \/ Rotated(t)' /\ task'[t].row = task[t].row
  BY DEF GoesOn, Rotated
<1> QED BY <1>1, <1>2, OneStored DEF GoesOn

(* A settled refresh gives its callers a copy that is stored.               *)
LEMMA SettleStored ==
    ASSUME TypeOK, TypeOK', Works, Stored, NEW t \in Tasks,
           task[t].phase \in Busy \/ task[t].refreshing,
           NEW outcome \in {"ok", "failed", "removed"}, NEW e \in Entries,
           Settle(t, outcome, e), job' = job, state' = state, cur' = cur, roster' = roster,
           unsaved \subseteq unsaved',
           task[t].row \in unsaved' \/ (~Rotated(t) /\ Behind(e, state[task[t].row]))
    PROVE  Stored'
<1>1. SUFFICES ASSUME NEW r \in Rows \ unsaved'
               PROVE  Latest(r)' /\ \A x \in Tasks : Copies(x, r)'
  BY DEF Stored
<1>2. Latest(r) /\ \A x \in Tasks : Copies(x, r)
  BY DEF Stored
<1>3. Grows(r)
  BY EntryShape DEF Grows, TypeOK, Storages
<1>4. ASSUME NEW x \in Tasks, Rotated(x), task[x].row = r
      PROVE  Rotated(x)' /\ task'[x].row = r
  <2>1. x # t /\ task[x].phase # "join"
    BY <1>4 DEF Rotated
  <2>2. task'[x] = task[x]
    BY <2>1, SettleReturns
  <2> QED BY <1>4, <2>2 DEF Rotated
<1>5. Latest(r)'
  BY <1>2, <1>4 DEF Latest
<1>6. ASSUME NEW x \in Tasks, Returned(x, e), task[x].phase \in Busy \/ task[x].refreshing,
             task[x].row = r => ~Rotated(x) /\ Behind(e, state[r])
      PROVE  Copies(x, r)'
  <2>1. /\ task'[x].phase = "each" /\ ~task'[x].refreshing /\ task'[x].read = task[x].read
        /\ task'[x].row = task[x].row
    BY <1>6 DEF Returned
  <2>2. /\ task[x].account # NoEntry /\ task[x].storage[task[x].row] # NoEntry
        /\ task[x].phase \notin {"state", "done"}
    BY <1>6 DEF Works, AtWork, Busy
  <2>3. Behind(task[x].storage[r], state[r])
    BY <1>2, <1>6, <2>2 DEF Copies
  <2>4. Behind(task'[x].storage[r], state[r])
    <3>1. CASE task[x].row # r
      <4>1. task'[x].storage[r] = task[x].storage[r]
        BY <1>6, <3>1 DEF Returned
      <4> QED BY <2>3, <4>1
    <3>2. CASE task[x].row = r
      <4>1. Behind(e, state[r]) /\ Behind(task[x].account, state[r])
        BY <1>2, <1>6, <3>2 DEF Copies
      <4>2. task'[x].storage[r].gen \in {e.gen, task[x].account.gen, task[x].storage[r].gen}
        BY <1>6, <3>2 DEF Returned
      <4>3. e # NoEntry
        BY EntryShape
      <4> QED BY <2>2, <2>3, <3>2, <4>1, <4>2, <4>3 DEF Behind
    <3> QED BY <3>1, <3>2
  <2> QED BY <1>2, <2>1, <2>4 DEF Copies, Rotated, Loaded, Is, Busy
<1>7. Copies(t, r)'
  BY <1>6, SettleReturns
<1>8. ASSUME NEW x \in Tasks \ {t} PROVE Copies(x, r)'
  <2>1. CASE task'[x] = task[x]
    BY <1>2, <1>3, <2>1, CopiesKept
  <2>2. CASE task[x].phase = "join" /\ task[x].row = task[t].row /\ Returned(x, e)
    BY <1>6, <2>2 DEF Busy, Rotated
  <2> QED BY <2>1, <2>2, SettleReturns
<1> QED BY <1>5, <1>7, <1>8

(* Of the calls that refresh a row or are about to save what they rotated,  *)
(* only the one that holds the row's lock does.                             *)
LEMMA OneAtRow ==
    ASSUME Exclusive, NEW x \in Tasks, NEW y \in Tasks, task[x].row = task[y].row,
           Rotated(x) \/ task[x].phase \in {"locked", "send"},
           Rotated(y) \/ task[y].phase \in {"locked", "send"}
    PROVE  x = y
  BY DEF Exclusive, Locked, Rotated

LEMMA LoadingStored ==
    ASSUME TypeOK, TypeOK', Works, Exclusive, Stored, NEW t \in Tasks, Loading(t)
    PROVE  Stored'
<1>1. task[t] \in Tasklets /\ AtWork(t) /\ task[t].row \in Rows /\ task[t].read \in Storages
  BY TaskShape DEF Works
<1>2. job' = job /\ state' = state /\ cur' = cur /\ roster' = roster /\ unsaved' = unsaved
  BY DEF Loading, Start, ReadConfig, ReadState, LoopBegins, SnapshotTaken
<1>3. OthersStay(t)
  BY DEF Loading, Start, ReadConfig, ReadState, LoopBegins, SnapshotTaken, OthersStay, TypeOK
<1>4. ~Rotated(t)
  BY <1>1 DEF Loading, Start, ReadConfig, ReadState, LoopBegins, SnapshotTaken, Loaded, Is, Rotated,
              AtWork, Loads
<1>5. ASSUME NEW r \in Rows \ unsaved', Copies(t, r) PROVE Copies(t, r)'
  <2>1. CASE Start(t)
    <3>1. PICK s \in Rows, p \in {"load", "config", "done"} : task'[t] = [At(t, p) EXCEPT !.row = s]
      BY <2>1 DEF Start, TypeOK
    <3>2. /\ task'[t].phase = p /\ task'[t].read = task[t].read /\ task'[t].step = "config"
          /\ task'[t].storage = task[t].storage /\ task'[t].refreshing = task[t].refreshing
      BY <3>1, AtFields DEF Phases, Tasklets
    <3>3. task[t].phase = "ready" /\ ~task[t].refreshing
      BY <1>1, <2>1 DEF Start, Is, AtWork
    <3> QED BY <1>2, <1>4, <1>5, <3>1, <3>2, <3>3 DEF Copies, Rotated, Loaded, Is, Busy
  <2>2. CASE ReadConfig(t)
    <3>1. task'[t] = [task[t] EXCEPT !.step = "state", !.seen = roster]
      BY <2>2, <1>1 DEF ReadConfig, TypeOK
    <3>2. /\ task'[t].phase = task[t].phase /\ task'[t].step = "state"
          /\ task'[t].row = task[t].row /\ task'[t].account = task[t].account
          /\ task'[t].read = task[t].read
          /\ task'[t].storage = task[t].storage /\ task'[t].refreshing = task[t].refreshing
      BY <1>1, <3>1 DEF Tasklets
    <3>3. task[t].phase \in Loads
      BY <2>2 DEF ReadConfig
    <3> QED BY <1>2, <1>4, <1>5, <3>2, <3>3 DEF Copies, Rotated, Loaded, Is, Loads
  <2>3. CASE ReadState(t)
    <3> DEFINE new == normalizeStorage(mergeConfigAndState(task[t].seen, state))
    <3>1. task'[t] = [task[t] EXCEPT !.step = "read", !.read = new]
      BY <2>3, <1>1 DEF ReadState, TypeOK
    <3>2. new[r] = state[r] \/ new[r] = NoEntry
      BY TaskShape, LoadedRows DEF TypeOK
    <3> HIDE DEF new
    <3>3. /\ task'[t].phase = task[t].phase /\ task'[t].read = new
          /\ task'[t].row = task[t].row /\ task'[t].account = task[t].account
          /\ task'[t].storage = task[t].storage /\ task'[t].refreshing = task[t].refreshing
      BY <1>1, <3>1 DEF Tasklets
    <3>4. task[t].phase \in Loads
      BY <1>1, <2>3 DEF ReadState, AtWork
    <3>5. state[r].gen \in Nat
      BY EntryShape DEF TypeOK, Storages
    <3>6. Behind(task'[t].read[r], state'[r])
      BY <1>2, <3>2, <3>3, <3>5 DEF Behind
    <3>7. task[t].phase = "locked" /\ task[t].row = r /\ new[r] # NoEntry => new[r].gen = cur[r]
      <4>1. SUFFICES ASSUME task[t].phase = "locked", task[t].row = r, new[r] # NoEntry
                     PROVE  new[r].gen = cur[r]
        OBVIOUS
      <4>2. new[r] = state[r] /\ Latest(r)
        BY <1>2, <3>2, <4>1 DEF Stored
      <4>3. ASSUME NEW x \in Tasks, Rotated(x), task[x].row = r PROVE FALSE
        BY <1>4, <4>1, <4>3, OneAtRow
      <4> QED BY <4>1, <4>2, <4>3 DEF Latest
    <3> QED BY <1>2, <1>4, <1>5, <3>3, <3>4, <3>6, <3>7 DEF Copies, Rotated, Loaded, Is, Loads
  <2>4. CASE LoopBegins(t)
    <3>1. task'[t] = [At(t, "each") EXCEPT !.storage = task[t].read, !.rest = Held(task[t].read)]
      BY <2>4 DEF LoopBegins, TypeOK
    <3>2. /\ task'[t].phase = "each" /\ task'[t].read = task[t].read
          /\ task'[t].storage = task[t].read /\ task'[t].refreshing = task[t].refreshing
      BY <3>1, AtFields DEF Phases, Tasklets
    <3>3. ~task[t].refreshing
      BY <1>1, <2>4 DEF LoopBegins, Loaded, Is, AtWork
    <3> QED BY <1>2, <1>5, <3>2, <3>3 DEF Copies, Rotated, Loaded, Is, Busy
  <2>5. CASE SnapshotTaken(t)
    <3>1. PICK p \in {"config", "done", "save"} :
             task'[t] = [At(t, p) EXCEPT !.storage = task[t].read]
      BY <2>5 DEF SnapshotTaken, TypeOK
    <3>2. /\ task'[t].phase = p /\ task'[t].read = task[t].read
          /\ task'[t].storage = task[t].read /\ task'[t].refreshing = task[t].refreshing
      BY <3>1, AtFields DEF Phases, Tasklets
    <3>3. ~task[t].refreshing
      BY <1>1, <2>5 DEF SnapshotTaken, Loaded, Is, AtWork
    <3> QED BY <1>2, <1>5, <3>2, <3>3 DEF Copies, Rotated, Loaded, Is, Busy
  <2> QED BY <2>1, <2>2, <2>3, <2>4, <2>5 DEF Loading
<1> QED BY <1>2, <1>3, <1>4, <1>5, OneStored

LEMMA LoopingStored ==
    ASSUME TypeOK, TypeOK', Works, Stored, NEW t \in Tasks, Looping(t)
    PROVE  Stored'
<1>1. task[t] \in Tasklets /\ AtWork(t) /\ task[t].phase = "each" /\ ~task[t].refreshing
  BY TaskShape DEF Works, AtWork, Looping, NextRow, LoopEnds, Is
<1>2. job' = job /\ state' = state /\ cur' = cur /\ roster' = roster /\ unsaved' = unsaved
  BY DEF Looping, NextRow, LoopEnds
<1>3. CASE LoopEnds(t)
  <2>1. PICK p \in {"save", "done"} : Goto(t, p)
    BY <1>3 DEF LoopEnds
  <2>2. GoesOn(t, p) /\ p \in Phases \ {"state"}
    BY <2>1, GotoGoesOn DEF Phases
  <2> QED BY <1>1, <1>2, <2>2, GoesOnStored DEF Rotated, Busy
<1>4. CASE NextRow(t)
  <2>1. PICK s \in task[t].rest :
          \/ task' = [task EXCEPT ![t].rest = @ \ {s}]
          \/ \E p \in {"join", "first"} : task' = [task EXCEPT ![t] =
                 [At(t, p) EXCEPT !.row = s, !.account = task[t].storage[s]]]
    BY <1>4 DEF NextRow
  <2>2. OthersStay(t)
    BY <1>4 DEF NextRow, OthersStay, TypeOK
  <2>3. ASSUME NEW r \in Rows \ unsaved', Copies(t, r) PROVE Copies(t, r)'
    <3>1. CASE task' = [task EXCEPT ![t].rest = @ \ {s}]
      <4>1. task'[t] = [task[t] EXCEPT !.rest = @ \ {s}]
        BY <3>1 DEF TypeOK
      <4>2. /\ task'[t].phase = "each" /\ task'[t].row = task[t].row
            /\ task'[t].account = task[t].account /\ task'[t].read = task[t].read
            /\ task'[t].storage = task[t].storage /\ task'[t].refreshing = task[t].refreshing
        BY <1>1, <4>1 DEF Tasklets
      <4> QED BY <1>1, <1>2, <2>3, <4>2 DEF Copies, Rotated, Loaded, Is, Busy
    <3>2. ASSUME NEW p \in {"join", "first"},
                 task' = [task EXCEPT ![t] =
                   [At(t, p) EXCEPT !.row = s, !.account = task[t].storage[s]]]
          PROVE  Copies(t, r)'
      <4> DEFINE entry == task[t].storage[s]
      <4>1. s \in Rows /\ entry \in Entries \cup {NoEntry}
        BY TaskShape DEF Storages
      <4>2. task'[t] = [At(t, p) EXCEPT !.row = s, !.account = entry]
        BY <3>2 DEF TypeOK
      <4>3. Behind(task[t].storage[r], state[r])
        BY <1>1, <2>3 DEF Copies, Rotated
      <4>4. s = r => Behind(entry, state[r])
        BY <4>3
      <4> HIDE DEF entry
      <4>5. /\ task'[t].phase = p /\ task'[t].step = "config"
            /\ task'[t].row = s /\ task'[t].account = entry /\ task'[t].read = task[t].read
            /\ task'[t].storage = task[t].storage /\ task'[t].refreshing = task[t].refreshing
        BY <4>1, <4>2, AtFields DEF Phases, Tasklets
      <4> QED BY <1>1, <1>2, <2>3, <4>3, <4>4, <4>5 DEF Copies, Rotated, Loaded, Is
    <3> QED BY <2>1, <3>1, <3>2
  <2> QED BY <1>1, <1>2, <2>2, <2>3, OneStored DEF Rotated
<1> QED BY <1>3, <1>4 DEF Looping

(* The provider answers t with the token that becomes the latest.           *)
Rotates(t) ==
    LET r == task[t].row
    IN  /\ task[t].read[r].gen = cur[r]
        /\ cur' = [cur EXCEPT ![r] = @ + 1]
        /\ task' = [task EXCEPT ![t] =
              [At(t, "save") EXCEPT !.storage[r] = [gen |-> cur[r] + 1, err |-> FALSE],
                                    !.refreshing = TRUE]]

LEMMA RotatesGives ==
    ASSUME TypeOK, NEW t \in Tasks, Rotates(t), cur[task[t].row] < MaxGen
    PROVE  LET q == task[t].row
           IN  /\ OthersStay(t)
               /\ task'[t].phase = "save" /\ task'[t].step = "config" /\ task'[t].refreshing
               /\ task'[t].row = q /\ task'[t].account = task[t].account
               /\ task'[t].read = task[t].read
               /\ task'[t].storage[q].gen = cur[q] + 1
               /\ \A r \in Rows \ {q} : task'[t].storage[r] = task[t].storage[r]
               /\ cur'[q] = cur[q] + 1 /\ \A r \in Rows \ {q} : cur'[r] = cur[r]
<1> DEFINE q == task[t].row
<1>1. q \in Rows /\ task[t].storage \in Storages /\ cur \in [Rows -> 0 .. MaxGen]
  BY TaskShape DEF TypeOK
<1>2. PICK e : e = [gen |-> cur[q] + 1, err |-> FALSE]
  OBVIOUS
<1>3. PICK a : a = At(t, "save")
  OBVIOUS
<1>4. PICK new : new = [task[t].storage EXCEPT ![q] = e]
  OBVIOUS
<1>5. /\ a \in Tasklets /\ a.phase = "save" /\ a.step = "config" /\ a.row = q
      /\ a.account = task[t].account /\ a.read = task[t].read /\ a.storage = task[t].storage
  BY <1>3, AtFields DEF Phases
<1>6. task'[t] = [a EXCEPT !.storage = new, !.refreshing = TRUE] /\ OthersStay(t)
  BY <1>2, <1>3, <1>4, <1>5 DEF Rotates, OthersStay, TypeOK
<1>7. e \in Entries /\ e.gen = cur[q] + 1
  BY <1>1, <1>2 DEF Entries
<1>8. new \in Storages /\ new[q] = e /\ \A r \in Rows \ {q} : new[r] = task[t].storage[r]
  BY <1>1, <1>4, <1>7 DEF Storages
<1>9. /\ task'[t].phase = "save" /\ task'[t].step = "config" /\ task'[t].refreshing = TRUE
      /\ task'[t].row = q /\ task'[t].account = task[t].account
      /\ task'[t].read = task[t].read /\ task'[t].storage = new
  BY <1>5, <1>6 DEF Tasklets
<1>10. cur'[q] = cur[q] + 1 /\ \A r \in Rows \ {q} : cur'[r] = cur[r]
  BY <1>1 DEF Rotates
<1> QED BY <1>6, <1>7, <1>8, <1>9, <1>10

(* The answer of the provider is the latest token, and its holder is to     *)
(* save it.                                                                 *)
LEMMA SendStored ==
    ASSUME TypeOK, TypeOK', Works, Exclusive, Stored, NEW t \in Tasks, Is(t, "send"),
           Rotates(t), job' = job, state' = state, roster' = roster, unsaved' = unsaved
    PROVE  Stored'
<1> DEFINE q == task[t].row
<1>1. /\ task[t] \in Tasklets /\ AtWork(t) /\ q \in Rows /\ task[t].phase = "send"
      /\ task[t].read[q] # NoEntry
  BY TaskShape DEF Works, AtWork, Is
<1>2. cur[q] < MaxGen
  <2>1. task[t].read[q].gen <= due[q] /\ due[q] < MaxGen /\ task[t].read[q].gen = cur[q]
    BY <1>1 DEF Works, AtWork, Rotates
  <2> QED BY <1>1, <2>1 DEF TypeOK
<1>3. OthersStay(t) /\ cur'[q] = cur[q] + 1 /\ \A r \in Rows \ {q} : cur'[r] = cur[r]
  BY <1>2, RotatesGives
<1>4. /\ task'[t].phase = "save" /\ task'[t].step = "config" /\ task'[t].refreshing
      /\ task'[t].row = q /\ task'[t].account = task[t].account
      /\ task'[t].read = task[t].read
  BY <1>2, RotatesGives
<1>5. /\ task'[t].storage[q].gen = cur[q] + 1
      /\ \A r \in Rows \ {q} : task'[t].storage[r] = task[t].storage[r]
  BY <1>2, RotatesGives
<1>6. Rotated(t)' /\ ~Rotated(t)
  BY <1>1, <1>4 DEF Rotated
<1>7. SUFFICES ASSUME NEW r \in Rows \ unsaved'
               PROVE  Latest(r)' /\ \A x \in Tasks : Copies(x, r)'
  BY DEF Stored
<1>8. Latest(r) /\ \A x \in Tasks : Copies(x, r)
  BY <1>7 DEF Stored
<1>9. Latest(r)'
  <2>1. CASE r = q
    <3>1. state[r].gen \in Nat /\ cur[r] \in Nat
      BY EntryShape DEF TypeOK, Storages
    <3> QED BY <1>3, <1>4, <1>6, <1>8, <2>1, <3>1 DEF Latest
  <2>2. CASE r # q
    <3>1. ASSUME NEW x \in Tasks, Rotated(x), task[x].row = r PROVE Rotated(x)' /\ task'[x].row = r
      BY <1>3, <1>6, <3>1 DEF OthersStay, Rotated
    <3> QED BY <1>3, <1>8, <2>2, <3>1 DEF Latest
  <2> QED BY <2>1, <2>2
<1>10. Copies(t, r)'
  <2>1. r = q => state[r] # NoEntry /\ Behind(task[t].account, state[r])
    BY <1>1, <1>8 DEF Copies, Behind, Busy
  <2>2. r # q => Behind(task[t].storage[r], state[r])
    BY <1>1, <1>8 DEF Copies
  <2>3. Behind(task[t].read[r], state[r])
    BY <1>8 DEF Copies
  <2> QED BY <1>3, <1>4, <1>5, <1>6, <2>1, <2>2, <2>3 DEF Copies, Loaded, Is
<1>11. ASSUME NEW x \in Tasks \ {t} PROVE Copies(x, r)'
  <2>1. Grows(r) /\ task'[x] = task[x]
    BY <1>3, EntryShape DEF Grows, TypeOK, Storages, OthersStay
  <2>2. CASE r # q
    BY <1>3, <1>8, <2>1, <2>2, CopiesKept
  <2>3. CASE r = q
    <3>1. ~(task[x].row = r /\ (Rotated(x) \/ task[x].phase \in {"locked", "send"}))
      BY <1>1, <2>3, OneAtRow
    <3>2. state[r] # NoEntry
      BY <1>1, <1>8, <2>3 DEF Copies, Behind
    <3> QED BY <1>8, <2>1, <3>1, <3>2, CopiesKept DEF Loaded, Is
  <2> QED BY <2>2, <2>3
<1> QED BY <1>9, <1>10, <1>11

LEMMA PollGoesOn ==
    ASSUME TypeOK, NEW t \in Tasks, NEW n,
           task' = [task EXCEPT ![t] = [At(t, "poll") EXCEPT !.polls = n]]
    PROVE  GoesOn(t, "poll")
<1>1. task'[t] = [At(t, "poll") EXCEPT !.polls = n] /\ OthersStay(t)
  BY DEF OthersStay, TypeOK
<1> QED BY <1>1, AtFields DEF GoesOn, Phases, Tasklets

LEMMA RefreshStored ==
    ASSUME TypeOK, TypeOK', Works, Exclusive, Stored, NEW t \in Tasks, RefreshStep(t)
    PROVE  Stored'
<1> DEFINE q == task[t].row
<1>1. /\ task[t].read[q] \in Entries \cup {NoEntry} /\ task[t].storage[q] \in Entries \cup {NoEntry}
      /\ q \in Rows /\ task[t] \in Tasklets /\ AtWork(t)
  BY TaskShape DEF Storages, Works
<1>2. task[t].phase \in Busy /\ ~Rotated(t)
  BY DEF RefreshStep, FirstRead, Poll, LockedRead, Send, SendFails, FinalRead, Loaded, Is, Busy,
         Rotated
<1>3. task[t].storage[q] \in Entries
  BY <1>1, <1>2 DEF AtWork
<1>4. job' = job /\ state' = state /\ roster' = roster /\ unsaved' = unsaved
  BY DEF RefreshStep, FirstRead, Poll, LockedRead, Send, SendFails, FinalRead
<1>5. q \notin unsaved =>
          Behind(task[t].read[q], state[q]) /\ Behind(task[t].storage[q], state[q])
  <2>1. HAVE q \notin unsaved
  <2>2. Copies(t, q) /\ task[t].phase \notin {"state", "done"}
    BY <1>1, <1>2, <2>1 DEF Stored, Busy
  <2> QED BY <1>2, <2>2 DEF Copies
<1>6. ASSUME NEW o \in {"ok", "failed", "removed"}, NEW e \in {task[t].read[q], task[t].storage[q]},
             e # NoEntry, Settle(t, o, e), cur' = cur
      PROVE  Stored'
  BY <1>1, <1>2, <1>4, <1>5, <1>6, SettleStored
<1>7. ASSUME NEW p \in {"locked", "poll", "send"}, GoesOn(t, p), cur' = cur,
             ~task[t].refreshing, p = "send" => Loaded(t, "locked")
      PROVE  Stored'
  <2>1. p \in Phases \ {"state"} /\ task[t].phase \notin {"state", "done"}
    BY <1>2 DEF Phases, Busy
  <2> QED BY <1>2, <1>4, <1>7, <2>1, GoesOnStored
<1>8. CASE FirstRead(t)
  <2>1. ~task[t].refreshing /\ cur' = cur
    BY <1>1, <1>8 DEF FirstRead, Loaded, Is, AtWork
  <2>2. CASE task[t].read[q] # NoEntry /\ Settle(t, "ok", task[t].read[q])
    BY <1>6, <2>1, <2>2
  <2>3. CASE Goto(t, "locked")
    <3>1. GoesOn(t, "locked")
      BY <2>3, GotoGoesOn DEF Phases
    <3> QED BY <1>7, <2>1, <3>1
  <2>4. CASE task' = [task EXCEPT ![t] = [At(t, "poll") EXCEPT !.polls = MaxPolls]]
    BY <1>7, <2>1, <2>4, PollGoesOn
  <2> QED BY <1>8, <2>2, <2>3, <2>4 DEF FirstRead
<1>9. CASE Poll(t)
  <2>1. ~task[t].refreshing /\ cur' = cur
    BY <1>1, <1>9 DEF Poll, Loaded, Is, AtWork
  <2>2. ASSUME NEW o \in {"ok", "failed"}, task[t].read[q] # NoEntry, Settle(t, o, task[t].read[q])
        PROVE  Stored'
    BY <1>6, <2>1, <2>2
  <2>3. CASE Settle(t, "failed", task[t].storage[q])
    <3>1. task[t].storage[q] # NoEntry
      BY <1>3, EntryShape
    <3> QED BY <1>6, <2>1, <2>3, <3>1
  <2>4. CASE task' = [task EXCEPT ![t] = [At(t, "poll") EXCEPT !.polls = @ - 1]]
    <3>1. PICK n : n = At(t, "poll").polls - 1
      OBVIOUS
    <3>2. task' = [task EXCEPT ![t] = [At(t, "poll") EXCEPT !.polls = n]]
      BY <2>4, <3>1
    <3> QED BY <1>7, <2>1, <3>2, PollGoesOn
  <2> QED BY <1>9, <2>2, <2>3, <2>4 DEF Poll
<1>10. CASE LockedRead(t)
  <2>1. ~task[t].refreshing /\ cur' = cur /\ Loaded(t, "locked")
    BY <1>1, <1>10 DEF LockedRead, Loaded, Is, AtWork
  <2>2. CASE task[t].read[q] # NoEntry /\ Settle(t, "ok", task[t].read[q])
    BY <1>6, <2>1, <2>2
  <2>3. CASE Settle(t, "removed", task[t].storage[q])
    <3>1. task[t].storage[q] # NoEntry
      BY <1>3, EntryShape
    <3> QED BY <1>6, <2>1, <2>3, <3>1
  <2>4. CASE Goto(t, "send")
    <3>1. GoesOn(t, "send")
      BY <2>4, GotoGoesOn DEF Phases
    <3> QED BY <1>7, <2>1, <3>1
  <2> QED BY <1>10, <2>2, <2>3, <2>4 DEF LockedRead
<1>11. task[t].storage[q] # NoEntry
  BY <1>3, EntryShape
<1>12. CASE Send(t)
  <2>1. CASE Rotates(t)
    BY <1>4, <1>12, <2>1, SendStored DEF Send
  <2>2. CASE Settle(t, "failed", task[t].storage[q]) /\ UNCHANGED cur
    BY <1>6, <1>11, <2>2
  <2> QED BY <1>12, <2>1, <2>2 DEF Send, Rotates
<1>13. CASE SendFails(t)
  BY <1>6, <1>11, <1>13 DEF SendFails
<1>14. CASE FinalRead(t)
  BY <1>6, <1>11, <1>14 DEF FinalRead
<1> QED BY <1>8, <1>9, <1>10, <1>12, <1>13, <1>14 DEF RefreshStep

(* A save that waits, is withheld or times out.                             *)
LEMMA SavingStored ==
    ASSUME TypeOK, TypeOK', Works, Stored, NEW t \in Tasks,
           SaveLocks(t) \/ SaveWithheld(t) \/ SaveTimesOut(t)
    PROVE  Stored'
<1>1. task[t] \in Tasklets /\ AtWork(t) /\ task[t].phase \in {"save", "merge"}
  BY TaskShape DEF Works, SaveLocks, SaveWithheld, SaveTimesOut, Is
<1>2. job' = job /\ state' = state /\ cur' = cur /\ roster' = roster
  BY DEF SaveLocks, SaveWithheld, SaveTimesOut
<1>3. CASE SaveLocks(t)
  <2>1. GoesOn(t, "merge") /\ "merge" \in Phases \ {"state"} /\ unsaved' = unsaved
    BY <1>3, GotoGoesOn DEF SaveLocks, Phases
  <2> QED BY <1>1, <1>2, <2>1, GoesOnStored DEF Busy
<1>4. CASE SaveWithheld(t)
  <2>1. PICK p \in {"final", "done"} : Goto(t, p) /\ (p = "final" => task[t].refreshing)
    BY <1>4 DEF SaveWithheld, Saved
  <2>2. GoesOn(t, p) /\ p \in Phases \ {"state"}
    BY <2>1, GotoGoesOn DEF Phases
  <2>3. unsaved \subseteq unsaved' /\ (task[t].refreshing => task[t].row \in unsaved')
    BY <1>4 DEF SaveWithheld
  <2> QED BY <1>1, <1>2, <2>1, <2>2, <2>3, GoesOnStored DEF Rotated, Busy
<1>5. CASE SaveTimesOut(t) /\ task[t].refreshing
  <2>1. /\ Settle(t, "failed", task[t].storage[task[t].row])
        /\ unsaved \subseteq unsaved' /\ task[t].row \in unsaved'
    BY <1>5 DEF SaveTimesOut
  <2>2. task[t].storage[task[t].row] \in Entries
    BY <1>1, <1>5, TaskShape DEF AtWork, Storages
  <2> QED BY <1>2, <1>5, <2>1, <2>2, SettleStored
<1>6. CASE SaveTimesOut(t) /\ ~task[t].refreshing
  <2>1. Goto(t, "done") /\ unsaved' = unsaved
    BY <1>6 DEF SaveTimesOut
  <2>2. GoesOn(t, "done") /\ "done" \in Phases \ {"state"}
    BY <2>1, GotoGoesOn DEF Phases
  <2> QED BY <1>1, <1>2, <1>6, <2>1, <2>2, GoesOnStored DEF Rotated, Busy
<1> QED BY <1>3, <1>4, <1>5, <1>6

(* The locks of an edit, and its end without a write.                       *)
LEMMA LockingStored ==
    ASSUME TypeOK, TypeOK', Works, Stored, NEW t \in Tasks,
           NEW p \in {"both", "write", "done"}, Goto(t, p),
           task[t].phase \in Editing, task[t].phase = "state" => p = "done",
           UNCHANGED <<files, job, provider>>
    PROVE  Stored'
<1>1. ~task[t].refreshing
  BY DEF Works, AtWork, Editing
<1>2. GoesOn(t, p) /\ p \in Phases \ {"state"} /\ task[t].phase # "done"
  BY GotoGoesOn DEF Phases, Editing
<1> QED BY <1>1, <1>2, GoesOnStored DEF Rotated, Busy

LEMMA CrashStored ==
    ASSUME TypeOK, TypeOK', Stored, NEW p \in Procs, Crash(p)
    PROVE  Stored'
<1>1. SUFFICES ASSUME NEW r \in Rows \ unsaved'
               PROVE  Latest(r)' /\ \A x \in Tasks : Copies(x, r)'
  BY DEF Stored
<1>2. /\ job' = job /\ state' = state /\ cur' = cur /\ roster' = roster
      /\ r \in Rows \ unsaved
  BY <1>1 DEF Crash
<1>3. Latest(r) /\ \A x \in Tasks : Copies(x, r)
  BY <1>2 DEF Stored
<1>4. ASSUME NEW x \in Tasks, Rotated(x), task[x].row = r
      PROVE  task'[x] = task[x]
  BY <1>1, <1>4 DEF Crash, Rotated
<1>5. Latest(r)'
  BY <1>2, <1>3, <1>4 DEF Latest, Rotated
<1>6. ASSUME NEW x \in Tasks PROVE Copies(x, r)'
  <2>1. CASE task'[x] = task[x]
    <3>1. Grows(r)
      BY <1>2, EntryShape DEF Grows, TypeOK, Storages
    <3> QED BY <1>2, <1>3, <2>1, <3>1, CopiesKept
  <2>2. CASE task'[x] = [Fresh EXCEPT !.phase = "done"]
    <3>1. /\ task'[x].phase = "done" /\ task'[x].refreshing = FALSE
          /\ task'[x].read[r] = NoEntry /\ task'[x].storage[r] = NoEntry
      BY <2>2 DEF Fresh, EmptyStorage
    <3> QED BY <3>1 DEF Copies, Behind, Rotated, Loaded, Is, Busy
  <2> QED BY <2>1, <2>2 DEF Crash
<1> QED BY <1>5, <1>6

-----------------------------------------------------------------------------
(* The writes *)

(* A save leaves the rows of the roster, with no older token and with the   *)
(* backoff of the token they have, and brings none back.                    *)
LEMMA SaveKeepsRows ==
    ASSUME TypeOK, NEW t \in Tasks, SaveWrites(t), NEW r \in Rows
    PROVE  /\ r \notin readConfigRosterIds => state'[r] = NoEntry
           /\ r \in readConfigRosterIds /\ state'[r] # state[r] => task[t].storage[r] # NoEntry
           /\ r \in readConfigRosterIds /\ state[r] # NoEntry =>
                /\ state'[r] # NoEntry /\ state'[r].gen >= state[r].gen
                /\ state'[r].gen = state[r].gen /\ state[r].err => state'[r].err
           /\ r \in readConfigRosterIds /\ state[r] # NoEntry =>
                state'[r].gen \in {state[r].gen, task[t].storage[r].gen}
           /\ job[t] # "used" /\ r \in readConfigRosterIds /\ task[t].storage[r] # NoEntry =>
                state'[r].gen >= task[t].storage[r].gen
<1> DEFINE ids == IF job[t] = "used" THEN {task[t].row} ELSE Rows
<1>1. /\ state \in Storages /\ task[t].storage \in Storages /\ ids \in SUBSET Rows
      /\ state[r] \in Entries \cup {NoEntry} /\ task[t].storage[r] \in Entries \cup {NoEntry}
  BY TaskShape DEF TypeOK, Storages
<1>2. state' = SavedState(state, task[t].storage, ids)
  BY DEF SaveWrites
<1>3. job[t] # "used" => r \in ids
  OBVIOUS
<1> HIDE DEF ids
<1>4. /\ r \notin readConfigRosterIds => state'[r] = NoEntry
      /\ r \in readConfigRosterIds /\ (r \notin ids \/ task[t].storage[r] = NoEntry) =>
           state'[r] = state[r]
      /\ r \in readConfigRosterIds /\ r \in ids /\ task[t].storage[r] # NoEntry /\ state[r] = NoEntry =>
           state'[r] = task[t].storage[r]
      /\ r \in readConfigRosterIds /\ r \in ids /\ task[t].storage[r] # NoEntry /\ state[r] # NoEntry =>
           state'[r] = applyNewerTokenState(state[r], task[t].storage[r])
  BY <1>1, <1>2, SavedRows
<1>5. task[t].storage[r] # NoEntry /\ state[r] # NoEntry =>
        LET m == applyNewerTokenState(state[r], task[t].storage[r])
        IN  /\ m \in Entries /\ m.gen >= state[r].gen /\ m.gen >= task[t].storage[r].gen
            /\ m.gen \in {state[r].gen, task[t].storage[r].gen}
            /\ m.gen = state[r].gen /\ state[r].err => m.err
  BY <1>1, NewerKept
<1>6. /\ r \notin readConfigRosterIds => state'[r] = NoEntry
      /\ r \in readConfigRosterIds /\ state'[r] # state[r] => task[t].storage[r] # NoEntry
  BY <1>4
<1>7. state[r].gen \in Nat /\ task[t].storage[r].gen \in Nat /\ state'[r].gen \in Nat
  BY <1>1, <1>4, <1>5, EntryShape
<1>8. ASSUME r \in readConfigRosterIds, state[r] # NoEntry
      PROVE  /\ state'[r] # NoEntry /\ state'[r].gen >= state[r].gen
             /\ state'[r].gen = state[r].gen /\ state[r].err => state'[r].err
             /\ state'[r].gen \in {state[r].gen, task[t].storage[r].gen}
  <2>1. CASE r \notin ids \/ task[t].storage[r] = NoEntry
    BY <1>4, <1>7, <1>8, <2>1
  <2>2. CASE r \in ids /\ task[t].storage[r] # NoEntry
    BY <1>4, <1>5, <1>8, <2>2, EntryShape
  <2> QED BY <2>1, <2>2
<1>9. ASSUME job[t] # "used", r \in readConfigRosterIds, task[t].storage[r] # NoEntry
      PROVE  state'[r].gen >= task[t].storage[r].gen
  BY <1>3, <1>4, <1>5, <1>7, <1>9
<1> QED BY <1>6, <1>8, <1>9

LEMMA SaveWritesStored ==
    ASSUME TypeOK, TypeOK', Works, Exclusive, Stored, NEW t \in Tasks, SaveWrites(t)
    PROVE  Stored'
<1>1. /\ task[t] \in Tasklets /\ AtWork(t) /\ task[t].phase = "merge" /\ task[t].row \in Rows
      /\ stLock = t /\ \A x \in Tasks \ {t} : task[x].phase # "state"
  BY TaskShape DEF Works, SaveWrites, Is, Exclusive, Locked
<1>2. job' = job /\ cur' = cur /\ roster' = roster
  BY DEF SaveWrites
<1>3. PICK p \in {"final", "done"} : GoesOn(t, p) /\ (p = "final" <=> task[t].refreshing)
  <2>1. PICK p \in {"final", "done"} : Goto(t, p) /\ (p = "final" <=> task[t].refreshing)
    BY <1>1 DEF SaveWrites, Saved, Tasklets
  <2> QED BY <2>1, GotoGoesOn DEF Phases
<1>4. SUFFICES ASSUME NEW r \in Rows \ unsaved'
               PROVE  Latest(r)' /\ \A x \in Tasks : Copies(x, r)'
  BY DEF Stored
<1>5. r \in Rows \ unsaved /\ (task[t].refreshing /\ task[t].row = r => r \in roster)
  BY <1>4 DEF SaveWrites
<1>6. Latest(r) /\ \A x \in Tasks : Copies(x, r)
  BY <1>5 DEF Stored
<1>7. /\ state[r].gen \in Nat /\ state'[r].gen \in Nat /\ task[t].storage[r].gen \in Nat
      /\ cur[r] \in Nat
  BY TaskShape, EntryShape DEF TypeOK, Storages
<1>8. state[r] # NoEntry => r \in readConfigRosterIds
  BY <1>6 DEF Latest, readConfigRosterIds
<1>9. task[t].storage[r] # NoEntry => state[r] # NoEntry
  BY <1>1, <1>6 DEF Copies, Behind
<1>10. Grows(r)
  BY <1>7, <1>8, SaveKeepsRows DEF Grows
<1>11. state[r] = NoEntry => state'[r] = NoEntry
  BY <1>9, SaveKeepsRows
<1>12. CASE ~(Rotated(t) /\ task[t].row = r)
  <2>1. Behind(task[t].storage[r], state[r])
    BY <1>1, <1>6, <1>12 DEF Copies
  <2>2. state[r] # NoEntry => state'[r].gen = state[r].gen
    <3>1. CASE task[t].storage[r] = NoEntry
      BY <1>8, <3>1, SaveKeepsRows
    <3>2. CASE task[t].storage[r] # NoEntry
      BY <1>7, <1>8, <2>1, <3>2, SaveKeepsRows DEF Behind
    <3> QED BY <3>1, <3>2
  <2>3. ASSUME NEW x \in Tasks, Rotated(x), task[x].row = r
        PROVE  Rotated(x)' /\ task'[x].row = r
    BY <1>3, <1>12, <2>3 DEF GoesOn, OthersStay, Rotated
  <2>4. Latest(r)'
    BY <1>2, <1>6, <1>11, <2>2, <2>3 DEF Latest
  <2>5. Copies(t, r)'
    <3>1. /\ task'[t].read = task[t].read /\ task'[t].storage = task[t].storage
          /\ task'[t].account = task[t].account /\ task'[t].row = task[t].row
          /\ task'[t].refreshing = task[t].refreshing /\ task'[t].phase = p
          /\ task'[t].step = "config"
      BY <1>3 DEF GoesOn
    <3>2. /\ Behind(task[t].read[r], state'[r]) /\ Behind(task[t].storage[r], state'[r])
          /\ task[t].refreshing /\ task[t].row = r => Behind(task[t].account, state'[r])
      <4>1. /\ task[t].read[r] \in Entries \cup {NoEntry} /\ task[t].account \in Entries \cup {NoEntry}
            /\ task[t].storage[r] \in Entries \cup {NoEntry}
            /\ state[r] \in Entries \cup {NoEntry} /\ state'[r] \in Entries \cup {NoEntry}
        BY TaskShape DEF TypeOK, Storages
      <4>2. \A e \in Entries \cup {NoEntry} : Behind(e, state[r]) => Behind(e, state'[r])
        BY <1>10, <4>1, BehindGrows DEF Grows
      <4>3. Behind(task[t].read[r], state[r])
        BY <1>6 DEF Copies
      <4>4. task[t].refreshing /\ task[t].row = r => Behind(task[t].account, state[r])
        BY <1>6 DEF Copies
      <4> QED BY <2>1, <4>1, <4>2, <4>3, <4>4
    <3> QED BY <1>3, <3>1, <3>2 DEF Copies, Rotated, Loaded, Is, Busy
  <2>6. ASSUME NEW x \in Tasks \ {t} PROVE Copies(x, r)'
    BY <1>1, <1>2, <1>3, <1>6, <1>10, CopiesKept DEF GoesOn, OthersStay
  <2> QED BY <2>4, <2>5, <2>6
<1>13. CASE Rotated(t) /\ task[t].row = r
  <2>1. state[r] # NoEntry /\ task[t].storage[r].gen = cur[r] /\ state[r].gen <= cur[r]
    BY <1>6, <1>13 DEF Copies, Latest
  <2>2. task[t].storage[r] # NoEntry /\ job[t] # "used" /\ task[t].refreshing
    BY <1>1, <1>13 DEF AtWork, Rotated, Loops
  <2>3. state'[r] # NoEntry /\ state'[r].gen = cur[r]
    BY <1>7, <1>8, <2>1, <2>2, SaveKeepsRows
  <2>4. Latest(r)'
    BY <1>2, <1>6, <1>7, <2>1, <2>3 DEF Latest
  <2>5. Copies(t, r)'
    <3>1. /\ task'[t].read = task[t].read /\ task'[t].storage = task[t].storage
          /\ task'[t].account = task[t].account /\ task'[t].row = task[t].row
          /\ task'[t].phase = "final" /\ task'[t].step = "config"
      BY <1>3, <2>2 DEF GoesOn
    <3>2. Behind(task[t].read[r], state[r]) /\ Behind(task[t].account, state[r])
      BY <1>6, <1>13, <2>2 DEF Copies
    <3>3. task[t].read[r].gen \in Nat /\ task[t].account.gen \in Nat
      BY TaskShape, EntryShape DEF Storages
    <3>4. /\ Behind(task[t].read[r], state'[r]) /\ Behind(task[t].account, state'[r])
          /\ Behind(task[t].storage[r], state'[r])
      BY <1>7, <2>1, <2>3, <3>2, <3>3 DEF Behind
    <3> QED BY <3>1, <3>4 DEF Copies, Rotated, Loaded, Is
  <2>6. ASSUME NEW x \in Tasks \ {t} PROVE Copies(x, r)'
    BY <1>1, <1>2, <1>3, <1>6, <1>10, CopiesKept DEF GoesOn, OthersStay
  <2> QED BY <2>4, <2>5, <2>6
<1> QED BY <1>12, <1>13

(* What is to be written of row r: the stored token, with its backoff, or   *)
(* the new one of a row that is added.                                      *)
Faithful(t, r, entry) ==
    IF state[r] # NoEntry
    THEN entry.gen = state[r].gen /\ (state[r].err => entry.err \/ job[t] = "clear")
    ELSE entry # NoEntry => entry.gen = cur'[r]

LEMMA ConfigStored ==
    ASSUME TypeOK, TypeOK', Works, Exclusive, Stored, NEW t \in Tasks, task[t].phase = "write",
           NEW next \in Storages, NEW allowDrop, WriteConfig(t, next, allowDrop),
           \A r \in Rows : state[r] # NoEntry => cur'[r] = cur[r],
           \A r \in Rows \ unsaved' : Faithful(t, r, next[r])
    PROVE  Stored'
<1>1. /\ AtWork(t) /\ ~task[t].refreshing /\ stLock = t
      /\ \A x \in Tasks \ {t} : task[x].phase # "state"
  BY DEF Works, AtWork, Exclusive, Locked
<1>2. SUFFICES ASSUME NEW r \in Rows \ unsaved'
               PROVE  Latest(r)' /\ \A x \in Tasks : Copies(x, r)'
  BY DEF Stored
<1>3. job' = job /\ state' = state /\ r \notin unsaved /\ (r \in roster => r \in roster')
  BY <1>2 DEF WriteConfig
<1>4. Latest(r) /\ \A x \in Tasks : Copies(x, r)
  BY <1>3 DEF Stored
<1>5. /\ OthersStay(t) /\ task'[t].phase = "state" /\ task'[t].step = "config"
      /\ task'[t].read = task[t].read /\ task'[t].storage = next
      /\ task'[t].refreshing = task[t].refreshing
  BY ConfigWritten
<1>6. Latest(r)'
  <2>1. ASSUME NEW x \in Tasks, Rotated(x), task[x].row = r PROVE Rotated(x)' /\ task'[x].row = r
    BY <1>1, <1>5, <2>1 DEF OthersStay, Rotated
  <2> QED BY <1>3, <1>4, <2>1 DEF Latest
<1>7. Copies(t, r)'
  <2>1. Behind(task'[t].read[r], state'[r])
    BY <1>3, <1>4, <1>5 DEF Copies
  <2>2. Faithful(t, r, next[r])
    BY <1>2
  <2> QED BY <1>1, <1>3, <1>5, <2>1, <2>2 DEF Copies, Faithful, Rotated, Loaded, Is, Busy
<1>8. ASSUME NEW x \in Tasks \ {t} PROVE Copies(x, r)'
  <2>1. Grows(r) /\ task'[x] = task[x]
    BY <1>3, <1>5, EntryShape DEF Grows, TypeOK, Storages, OthersStay
  <2>2. CASE state[r] # NoEntry
    BY <1>3, <1>4, <2>1, <2>2, CopiesKept
  <2>3. CASE state[r] = NoEntry
    <3>1. ~(Rotated(x) /\ task[x].row = r) /\ task[x].read[r] = NoEntry
      BY <1>4, <2>3 DEF Copies, Behind
    <3> QED BY <1>1, <1>3, <1>4, <2>1, <3>1, CopiesKept
  <2> QED BY <2>2, <2>3
<1> QED BY <1>6, <1>7, <1>8

LEMMA MutateStored ==
    ASSUME TypeOK, TypeOK', Works, Exclusive, Stored, NEW t \in Tasks, mutateAccounts(t)
    PROVE  Stored'
<1> DEFINE q == task[t].row
<1> DEFINE drop == IF job[t] = "remove" THEN {q} ELSE {}
<1>1. q \in Rows /\ task[t].phase = "write" /\ Mutated(t) \in Storages
  BY TaskShape, MutatedRows DEF mutateAccounts, Is
<1>2. WriteConfig(t, Mutated(t), drop)
  BY DEF mutateAccounts
<1>3. cur' = [cur EXCEPT ![q] = IF job[t] = "add" /\ Addable(q) THEN @ + 1 ELSE @]
  BY DEF mutateAccounts
<1>4. \A r \in Rows : state[r] # NoEntry => cur'[r] = cur[r]
  BY <1>1, <1>3 DEF Addable, TypeOK
<1>5. ASSUME NEW r \in Rows \ unsaved' PROVE Faithful(t, r, Mutated(t)[r])
  <2>1. Latest(r) /\ r \notin roster \ roster'
    BY <1>2, <1>5 DEF Stored, WriteConfig
  <2>2. current[r] = IF r \in roster THEN state[r] ELSE NoEntry
    BY MutatedRows
  <2>3. current[r] = state[r]
    <3>1. CASE state[r] = NoEntry
      BY <2>2, <3>1
    <3>2. CASE state[r] # NoEntry
      BY <2>1, <2>2, <3>2 DEF Latest
    <3> QED BY <3>1, <3>2
  <2>4. CASE Mutated(t)[r] = current[r]
    BY <2>3, <2>4 DEF Faithful
  <2>5. CASE /\ job[t] = "add" /\ r = q /\ Addable(r)
             /\ Mutated(t)[r] # NoEntry /\ Mutated(t)[r].gen = cur[r] + 1
    <3>1. cur'[r] = cur[r] + 1 /\ state[r] = NoEntry
      BY <1>1, <1>3, <2>5 DEF Addable, TypeOK
    <3> QED BY <2>5, <3>1 DEF Faithful
  <2>6. CASE job[t] = "remove" /\ r = q /\ Mutated(t)[r] = NoEntry
    <3>1. CASE state[r] = NoEntry
      BY <2>6, <3>1 DEF Faithful
    <3>2. CASE state[r] # NoEntry
      <4>1. r \in roster /\ r \in drop
        BY <2>1, <2>6, <3>2 DEF Latest
      <4>2. r \notin Held(Mutated(t))
        BY <2>6 DEF Held
      <4>3. r \notin buildPreservedAdditions(roster, Held(current), drop)
        BY <4>1 DEF buildPreservedAdditions
      <4>4. r \notin roster'
        BY <1>2, <4>2, <4>3 DEF WriteConfig
      <4> QED BY <2>1, <4>1, <4>4
    <3> QED BY <3>1, <3>2
  <2>7. CASE /\ job[t] = "clear" /\ r = q /\ current[r] # NoEntry
             /\ Mutated(t)[r] # NoEntry /\ Mutated(t)[r].gen = current[r].gen
    BY <2>3, <2>7 DEF Faithful
  <2> QED BY <2>4, <2>5, <2>6, <2>7, MutatedRows
<1> HIDE DEF drop
<1> QED BY <1>1, <1>2, <1>4, <1>5, ConfigStored

LEMMA UnionStored ==
    ASSUME TypeOK, TypeOK', Works, Exclusive, Stored, NEW t \in Tasks, saveAccounts(t)
    PROVE  Stored'
<1> DEFINE next == mergeStorageForSave(current, task[t].storage)
<1>1. /\ task[t].phase = "write" /\ next \in Storages /\ cur' = cur
      /\ WriteConfig(t, next, {}) /\ current \in Storages /\ task[t].storage \in Storages
  BY TaskShape, MutatedRows, UnionOfRows DEF saveAccounts, Is
<1>2. ~Rotated(t)
  BY <1>1 DEF Rotated
<1>3. ASSUME NEW r \in Rows \ unsaved' PROVE Faithful(t, r, next[r])
  <2>1. Latest(r) /\ Copies(t, r)
    BY <1>1, <1>3 DEF Stored, WriteConfig
  <2>2. current[r] = IF r \in roster THEN state[r] ELSE NoEntry
    BY MutatedRows
  <2>3. current[r] = state[r]
    <3>1. CASE state[r] = NoEntry
      BY <2>2, <3>1
    <3>2. CASE state[r] # NoEntry
      BY <2>1, <2>2, <3>2 DEF Latest
    <3> QED BY <3>1, <3>2
  <2>4. Behind(task[t].storage[r], state[r])
    BY <1>1, <1>2, <2>1 DEF Copies
  <2>5. /\ current[r] = NoEntry => next[r] = task[t].storage[r]
        /\ current[r] # NoEntry /\ task[t].storage[r] = NoEntry => next[r] = current[r]
        /\ current[r] # NoEntry /\ task[t].storage[r] # NoEntry =>
              next[r] = applyNewerTokenState(current[r], task[t].storage[r])
    BY <1>1, UnionOfRows
  <2>6. CASE state[r] = NoEntry
    BY <2>3, <2>4, <2>5, <2>6 DEF Behind, Faithful
  <2>7. CASE state[r] # NoEntry /\ task[t].storage[r] = NoEntry
    BY <2>3, <2>5, <2>7 DEF Faithful
  <2>8. CASE state[r] # NoEntry /\ task[t].storage[r] # NoEntry
    <3>1. state[r] \in Entries /\ task[t].storage[r] \in Entries
      BY <1>1, <2>8 DEF TypeOK, Storages
    <3>2. next[r] = applyNewerTokenState(state[r], task[t].storage[r])
      BY <2>3, <2>5, <2>8
    <3>3. /\ next[r].gen >= state[r].gen
          /\ next[r].gen = state[r].gen \/ next[r].gen = task[t].storage[r].gen
          /\ next[r].gen = state[r].gen /\ state[r].err => next[r].err
      BY <3>1, <3>2, NewerKept
    <3>4. next[r].gen = state[r].gen
      BY <2>4, <2>8, <3>1, <3>3, EntryShape DEF Behind
    <3> QED BY <2>8, <3>3, <3>4 DEF Faithful
  <2> QED BY <2>6, <2>7, <2>8
<1> HIDE DEF next
<1> QED BY <1>1, <1>3, ConfigStored

(* The first write of a store, and one that finds it made.                  *)
LEMMA MigrateStored ==
    ASSUME TypeOK, TypeOK', Works, Exclusive, Stored, Blank, NEW t \in Tasks, migrateIfNeeded(t)
    PROVE  Stored'
<1>1. task[t].phase = "write"
  BY DEF migrateIfNeeded, Is
<1>2. CASE ~store /\ WriteConfig(t, EmptyStorage, {}) /\ UNCHANGED cur
  <2>1. EmptyStorage \in Storages
    BY DEF EmptyStorage, Storages
  <2>2. \A r \in Rows : Faithful(t, r, EmptyStorage[r])
    BY <1>2 DEF Blank, EmptyStorage, Faithful
  <2> QED BY <1>1, <1>2, <2>1, <2>2, ConfigStored
<1>3. CASE Leave(t) /\ UNCHANGED <<files, rowLock, job, provider, mishaps>>
  BY <1>1, <1>3, LockingStored DEF Leave, Editing
<1> QED BY <1>2, <1>3 DEF migrateIfNeeded

LEMMA WriteStateStored ==
    ASSUME TypeOK, TypeOK', Works, Exclusive, Stored, Edits, NEW t \in Tasks, WriteState(t)
    PROVE  Stored'
<1>1. /\ task[t].phase = "state" /\ ~task[t].refreshing /\ stLock = t
      /\ \A x \in Tasks \ {t} : task[x].phase # "state"
  BY DEF WriteState, Is, Works, AtWork, Exclusive, Locked
<1>2. /\ job' = job /\ cur' = cur /\ roster' = roster /\ unsaved' = unsaved
      /\ state' = task[t].storage
  BY DEF WriteState
<1>3. GoesOn(t, "done")
  BY GotoGoesOn DEF WriteState, Leave, Phases
<1>4. SUFFICES ASSUME NEW r \in Rows \ unsaved'
               PROVE  Latest(r)' /\ \A x \in Tasks : Copies(x, r)'
  BY DEF Stored
<1>5. Latest(r) /\ \A x \in Tasks : Copies(x, r)
  BY <1>2, <1>4 DEF Stored
<1>6. state[r] \in Entries \cup {NoEntry} /\ state'[r] \in Entries \cup {NoEntry} /\ cur[r] \in Nat
  BY DEF TypeOK, Storages
<1>7. IF state[r] # NoEntry THEN state'[r].gen = state[r].gen
      ELSE state'[r] # NoEntry => state'[r].gen = cur[r]
  BY <1>1, <1>2, <1>5 DEF Copies
<1>8. state[r] # NoEntry => state'[r] # NoEntry
  <2>1. NoEntry.gen = 0
    BY DEF NoEntry
  <2> QED BY <1>6, <1>7, <2>1, EntryShape
<1>9. Grows(r)
  BY <1>6, <1>7, <1>8, EntryShape DEF Grows
<1>10. Latest(r)'
  <2>1. state'[r] # NoEntry => r \in roster
    BY <1>1, <1>2 DEF Edits, Held
  <2>2. ASSUME NEW x \in Tasks, Rotated(x), task[x].row = r PROVE Rotated(x)' /\ task'[x].row = r
    BY <1>1, <1>3, <2>2 DEF GoesOn, OthersStay, Rotated
  <2> QED BY <1>2, <1>5, <1>6, <1>7, <2>1, <2>2 DEF Latest
<1>11. Copies(t, r)'
  <2>1. Behind(task[t].read[r], state[r]) /\ task[t].read[r] \in Entries \cup {NoEntry}
    BY <1>5, TaskShape DEF Copies, Storages
  <2>2. Behind(task[t].read[r], state'[r])
    BY <1>6, <1>9, <2>1, BehindGrows DEF Grows
  <2> QED BY <1>1, <1>3, <2>2 DEF Copies, GoesOn, Rotated, Loaded, Is, Busy
<1>12. ASSUME NEW x \in Tasks \ {t} PROVE Copies(x, r)'
  BY <1>1, <1>2, <1>3, <1>5, <1>9, CopiesKept DEF GoesOn, OthersStay
<1> QED BY <1>10, <1>11, <1>12

LEMMA StoredStep ==
    ASSUME TypeOK, TypeOK', Works, Exclusive, Stored, Edits, Blank, [Next]_vars
    PROVE  Stored'
<1>1. ASSUME NEW r \in Rows, Age(r) PROVE Stored'
  BY <1>1 DEF Age, Stored, Latest, Copies, Behind, Rotated, Loaded, Is
<1>2. CASE UNCHANGED vars
  BY <1>2 DEF Stored, Latest, Copies, Behind, Rotated, Loaded, Is
<1>3. ASSUME NEW t \in Tasks, Saving(t) PROVE Stored'
  BY <1>3, SavingStored, SaveWritesStored DEF Saving
<1>4. ASSUME NEW t \in Tasks, Locking(t) PROVE Stored'
  <2>1. /\ task[t].phase \in Editing /\ UNCHANGED <<files, job, provider>>
        /\ \E p \in {"both", "write", "done"} :
              Goto(t, p) /\ (task[t].phase = "state" => p = "done")
    BY <1>4 DEF Locking, LockConfig, LockState, LockTimesOut, EditWithheld, Leave, Is, Editing
  <2> QED BY <2>1, LockingStored
<1>5. ASSUME NEW t \in Tasks, Writing(t) PROVE Stored'
  BY <1>5, MutateStored, UnionStored, MigrateStored, WriteStateStored DEF Writing
<1> QED BY <1>1, <1>2, <1>3, <1>4, <1>5, StepCases, LoadingStored, LoopingStored, RefreshStored,
           CrashStored

-----------------------------------------------------------------------------
(* The edits under way *)

(* A refresh takes nobody to the write of an edit.                          *)
LEMMA RefreshLands ==
    ASSUME TypeOK, Works, NEW t \in Tasks, RefreshStep(t), NEW x \in Tasks
    PROVE  task'[x] = task[x] \/ task'[x].phase # "state"
<1> DEFINE q == task[t].row
<1>1. /\ task[t].read[q] \in Entries \cup {NoEntry} /\ task[t].storage[q] \in Entries \cup {NoEntry}
      /\ AtWork(t)
  BY TaskShape DEF Storages, Works
<1>2. task[t].phase \in Busy
  BY DEF RefreshStep, FirstRead, Poll, LockedRead, Send, SendFails, FinalRead, Loaded, Is, Busy
<1>3. task[t].storage[q] \in Entries
  BY <1>1, <1>2 DEF AtWork
<1>4. ASSUME NEW o \in {"ok", "failed", "removed"}, NEW e \in Entries, Settle(t, o, e)
      PROVE  task'[x] = task[x] \/ task'[x].phase # "state"
  BY <1>2, <1>4, SettleReturns DEF Returned
<1>5. ASSUME NEW p \in {"locked", "send", "poll"}, GoesOn(t, p)
      PROVE  task'[x] = task[x] \/ task'[x].phase # "state"
  BY <1>5 DEF GoesOn, OthersStay
<1>6. ASSUME NEW p \in {"locked", "send"}, Goto(t, p)
      PROVE  task'[x] = task[x] \/ task'[x].phase # "state"
  BY <1>5, <1>6, GotoGoesOn DEF Phases
<1>7. ASSUME NEW n, task' = [task EXCEPT ![t] = [At(t, "poll") EXCEPT !.polls = n]]
      PROVE  task'[x] = task[x] \/ task'[x].phase # "state"
  BY <1>5, <1>7, PollGoesOn
<1>8. CASE FirstRead(t)
  BY <1>1, <1>4, <1>6, <1>7, <1>8 DEF FirstRead
<1>9. CASE Poll(t)
  <2>1. PICK n : n = At(t, "poll").polls - 1
    OBVIOUS
  <2>2. CASE task' = [task EXCEPT ![t] = [At(t, "poll") EXCEPT !.polls = @ - 1]]
    <3>1. task' = [task EXCEPT ![t] = [At(t, "poll") EXCEPT !.polls = n]]
      BY <2>1, <2>2
    <3> QED BY <1>7, <3>1
  <2>3. CASE Settle(t, "failed", task[t].storage[q])
    BY <1>3, <1>4, <2>3
  <2>4. ASSUME NEW o \in {"ok", "failed"}, task[t].read[q] # NoEntry, Settle(t, o, task[t].read[q])
        PROVE  task'[x] = task[x] \/ task'[x].phase # "state"
    BY <1>1, <1>4, <2>4
  <2> QED BY <1>9, <2>2, <2>3, <2>4 DEF Poll
<1>10. CASE LockedRead(t)
  BY <1>1, <1>3, <1>4, <1>6, <1>10 DEF LockedRead
<1>11. CASE Send(t)
  <2>1. CASE Rotates(t)
    <3>1. cur[q] < MaxGen
      <4>1. task[t].read[q].gen <= due[q] /\ due[q] < MaxGen /\ task[t].read[q].gen = cur[q]
        BY <1>1, <1>11, <2>1, TaskShape DEF Send, Is, Works, AtWork, Rotates
      <4> QED BY <4>1, TaskShape DEF TypeOK
    <3> QED BY <2>1, <3>1, RotatesGives DEF OthersStay
  <2>2. CASE Settle(t, "failed", task[t].storage[q])
    BY <1>3, <1>4, <2>2
  <2> QED BY <1>11, <2>1, <2>2 DEF Send, Rotates
<1>12. CASE SendFails(t) \/ FinalRead(t)
  BY <1>3, <1>4, <1>12 DEF SendFails, FinalRead
<1> QED BY <1>8, <1>9, <1>10, <1>11, <1>12 DEF RefreshStep

LEMMA EditsKept ==
    ASSUME Edits, UNCHANGED files,
           \A x \in Tasks : task'[x] = task[x] \/ task'[x].phase # "state"
    PROVE  Edits'
  BY DEF Edits

(* What an edit is about to write, when the config file is written.         *)
LEMMA ConfigEdits ==
    ASSUME TypeOK, Exclusive, NEW t \in Tasks, task[t].phase = "write",
           NEW next \in Storages, NEW allowDrop, WriteConfig(t, next, allowDrop)
    PROVE  Edits'
<1>1. \A x \in Tasks \ {t} : task[x].phase # "state"
  BY DEF Exclusive, Locked
<1>2. OthersStay(t) /\ task'[t].storage = next
  BY ConfigWritten
<1>3. /\ store' = TRUE /\ state' = state
      /\ roster' = Held(next) \cup ((roster \ Held(current)) \ allowDrop)
  BY DEF WriteConfig, buildPreservedAdditions
<1>4. ASSUME NEW r \in roster', state'[r] # NoEntry PROVE next[r] # NoEntry
  <2>1. CASE r \in Held(next)
    BY <2>1 DEF Held
  <2>2. CASE r \in roster \ Held(current)
    <3>1. r \in Rows /\ current[r] = NoEntry
      BY <2>2 DEF Held, TypeOK
    <3>2. current[r] = state[r]
      BY <2>2, <3>1, MutatedRows
    <3> QED BY <1>3, <1>4, <3>1, <3>2
  <2> QED BY <1>3, <2>1, <2>2
<1> QED BY <1>1, <1>2, <1>3, <1>4 DEF Edits, OthersStay

LEMMA EditsStep ==
    ASSUME TypeOK, Works, Exclusive, Edits, [Next]_vars
    PROVE  Edits'
<1>1. ASSUME NEW r \in Rows, Age(r) PROVE Edits'
  BY <1>1 DEF Age, Edits
<1>2. ASSUME NEW p \in Procs, Crash(p) PROVE Edits'
  <2>1. \A x \in Tasks : task'[x] = task[x] \/ task'[x].phase # "state"
    BY <1>2 DEF Crash, Fresh
  <2> QED BY <1>2, <2>1, EditsKept DEF Crash
<1>3. CASE UNCHANGED vars
  BY <1>3 DEF Edits
<1>4. ASSUME NEW t \in Tasks, Loading(t) \/ Looping(t) PROVE Edits'
  <2>1. UNCHANGED files
    BY <1>4 DEF Loading, Looping, Start, ReadConfig, ReadState, LoopBegins, SnapshotTaken, NextRow,
                LoopEnds
  <2>2. \A x \in Tasks : task'[x] = task[x] \/ task'[x].phase # "state"
    BY <1>4, LoadingLands DEF OthersStay, Loads
  <2> QED BY <2>1, <2>2, EditsKept
<1>5. ASSUME NEW t \in Tasks, RefreshStep(t) PROVE Edits'
  <2>1. UNCHANGED files
    BY <1>5 DEF RefreshStep, FirstRead, Poll, LockedRead, Send, SendFails, FinalRead
  <2> QED BY <1>5, <2>1, RefreshLands, EditsKept
<1>6. ASSUME NEW t \in Tasks, NEW p \in Phases \ {"state"}, Goto(t, p)
      PROVE  \A x \in Tasks : task'[x] = task[x] \/ task'[x].phase # "state"
  BY <1>6, GotoGoesOn DEF GoesOn, OthersStay
<1>7. ASSUME NEW t \in Tasks, Saving(t) PROVE Edits'
  <2>1. CASE SaveLocks(t) \/ SaveWithheld(t) \/ (SaveTimesOut(t) /\ Goto(t, "done"))
    <3>1. PICK p \in {"merge", "final", "done"} : Goto(t, p)
      BY <2>1 DEF SaveLocks, SaveWithheld, Saved
    <3>2. \A x \in Tasks : task'[x] = task[x] \/ task'[x].phase # "state"
      BY <1>6, <3>1 DEF Phases
    <3> QED BY <2>1, <3>2, EditsKept DEF SaveLocks, SaveWithheld, SaveTimesOut
  <2>2. CASE SaveTimesOut(t) /\ task[t].refreshing
    <3>1. task[t].storage[task[t].row] \in Entries
      BY <2>2, TaskShape DEF Works, AtWork, Storages
    <3>2. Settle(t, "failed", task[t].storage[task[t].row]) /\ UNCHANGED files
      BY <2>2 DEF SaveTimesOut
    <3>3. \A x \in Tasks : task'[x] = task[x] \/ task'[x].phase # "state"
      BY <2>2, <3>1, <3>2, SettleReturns DEF Returned
    <3> QED BY <3>2, <3>3, EditsKept
  <2>3. CASE SaveWrites(t)
    <3>1. stLock = t /\ \A x \in Tasks : task[x].phase # "state"
      BY <2>3 DEF SaveWrites, Is, Exclusive, Locked
    <3>2. PICK p \in {"final", "done"} : Goto(t, p)
      BY <2>3 DEF SaveWrites, Saved
    <3>3. \A x \in Tasks : task'[x] = task[x] \/ task'[x].phase # "state"
      BY <1>6, <3>2 DEF Phases
    <3> QED BY <3>1, <3>3 DEF Edits
  <2> QED BY <1>7, <2>1, <2>2, <2>3 DEF Saving, SaveTimesOut
<1>8. ASSUME NEW t \in Tasks, Locking(t) PROVE Edits'
  <2>1. PICK p \in {"both", "write", "done"} : Goto(t, p)
    BY <1>8 DEF Locking, LockConfig, LockState, LockTimesOut, EditWithheld, Leave
  <2>2. \A x \in Tasks : task'[x] = task[x] \/ task'[x].phase # "state"
    BY <1>6, <2>1 DEF Phases
  <2> QED BY <1>8, <2>2, EditsKept DEF Locking, LockConfig, LockState, LockTimesOut, EditWithheld
<1>9. ASSUME NEW t \in Tasks, Writing(t) PROVE Edits'
  <2>1. mergeStorageForSave(current, task[t].storage) \in Storages /\ Mutated(t) \in Storages
    BY TaskShape, MutatedRows, UnionOfRows
  <2>2. EmptyStorage \in Storages
    BY DEF EmptyStorage, Storages
  <2>3. CASE WriteState(t)
    <3>1. \A x \in Tasks \ {t} : task[x].phase # "state"
      BY <2>3 DEF WriteState, Is, Exclusive, Locked
    <3>2. \A x \in Tasks : task'[x] = task[x] \/ task'[x].phase # "state"
      BY <1>6, <2>3 DEF WriteState, Leave, Phases
    <3>3. task'[t].phase # "state"
      BY <2>3, GotoGoesOn DEF WriteState, Leave, GoesOn, Phases
    <3> QED BY <3>1, <3>2, <3>3 DEF Edits
  <2>4. CASE mutateAccounts(t) \/ saveAccounts(t)
    BY <2>1, <2>4, ConfigEdits DEF mutateAccounts, saveAccounts, Is
  <2>5. CASE migrateIfNeeded(t)
    <3>1. CASE WriteConfig(t, EmptyStorage, {})
      BY <2>2, <2>5, <3>1, ConfigEdits DEF migrateIfNeeded, Is
    <3>2. CASE Leave(t) /\ UNCHANGED files
      <4>1. \A x \in Tasks : task'[x] = task[x] \/ task'[x].phase # "state"
        BY <1>6, <3>2 DEF Leave, Phases
      <4> QED BY <3>2, <4>1, EditsKept
    <3> QED BY <2>5, <3>1, <3>2 DEF migrateIfNeeded
  <2> QED BY <1>9, <2>3, <2>4, <2>5 DEF Writing
<1> QED BY <1>1, <1>2, <1>3, <1>4, <1>5, <1>7, <1>8, <1>9, StepCases

-----------------------------------------------------------------------------
(* Before there is a store *)

LEMMA BlankStep ==
    ASSUME TypeOK, Works, Edits, Blank, [Next]_vars
    PROVE  Blank'
<1>1. SUFFICES ASSUME ~store' PROVE Blank'
  BY DEF Blank
<1>2. ~store
  <2>1. store' = store \/ store' = TRUE
    <3>1. ASSUME NEW t \in Tasks,
                 Loading(t) \/ Looping(t) \/ RefreshStep(t) \/ Saving(t) \/ Locking(t)
          PROVE  store' = store
      BY <3>1 DEF Loading, Start, ReadConfig, ReadState, LoopBegins, SnapshotTaken, Looping, NextRow,
           LoopEnds, RefreshStep, FirstRead, Poll, LockedRead, Send, SendFails, FinalRead,
           Saving, SaveLocks, SaveWrites, SaveWithheld, SaveTimesOut,
           Locking, LockConfig, LockState, LockTimesOut, EditWithheld
    <3>2. ASSUME NEW t \in Tasks, Writing(t) PROVE store' = store \/ store' = TRUE
      BY <3>2 DEF Writing, mutateAccounts, saveAccounts, migrateIfNeeded, WriteState, WriteConfig
    <3> QED BY <3>1, <3>2, StepCases DEF Age, Crash
  <2> QED BY <1>1, <2>1
<1>3. /\ roster = {} /\ state = EmptyStorage
      /\ \A x \in Tasks : task[x].read = EmptyStorage /\ task[x].storage = EmptyStorage
  BY <1>2 DEF Blank
<1>4. \A r \in Rows : EmptyStorage[r] = NoEntry
  BY DEF EmptyStorage
<1>5. \A s \in Storages : (\A r \in Rows : s[r] = NoEntry) => s = EmptyStorage
  BY DEF Storages, EmptyStorage
<1>6. \A t \in Tasks : task[t].phase \notin Busy /\ ~task[t].refreshing
  <2>1. SUFFICES ASSUME NEW t \in Tasks PROVE task[t].phase \notin Busy /\ ~task[t].refreshing
    OBVIOUS
  <2>2. task[t].storage[task[t].row] = NoEntry
    BY <1>3, <1>4, TaskShape
  <2> QED BY <2>2 DEF Works, AtWork
<1>7. ASSUME NEW t \in Tasks, OthersStay(t), roster' = roster, state' = state,
             task'[t].read = EmptyStorage, task'[t].storage = EmptyStorage
      PROVE  Blank'
  BY <1>3, <1>7 DEF Blank, OthersStay
<1>8. ASSUME NEW t \in Tasks, NEW p \in Phases, Goto(t, p), roster' = roster, state' = state
      PROVE  Blank'
  <2>1. GoesOn(t, p)
    BY <1>8, GotoGoesOn
  <2> QED BY <1>3, <1>7, <1>8, <2>1 DEF GoesOn
<1>9. ASSUME NEW r \in Rows, Age(r) PROVE Blank'
  BY <1>3, <1>9 DEF Age, Blank
<1>10. ASSUME NEW p \in Procs, Crash(p) PROVE Blank'
  BY <1>3, <1>10 DEF Crash, Blank, Fresh
<1>11. CASE UNCHANGED vars
  BY <1>3, <1>11 DEF Blank
<1>12. ASSUME NEW t \in Tasks, Loading(t) PROVE Blank'
  <2>1. OthersStay(t) /\ roster' = roster /\ state' = state
    BY <1>12, LoadingLands DEF Loading, Start, ReadConfig, ReadState, LoopBegins, SnapshotTaken
  <2>2. task'[t].read = EmptyStorage /\ task'[t].storage = EmptyStorage
    <3>1. CASE Start(t)
      <4>1. PICK s \in Rows, p \in {"load", "config", "done"} : task'[t] = [At(t, p) EXCEPT !.row = s]
        BY <3>1 DEF Start, TypeOK
      <4>2. task'[t].read = task[t].read /\ task'[t].storage = task[t].storage
        BY <4>1, AtFields DEF Phases, Tasklets
      <4> QED BY <1>3, <4>2
    <3>2. CASE ReadConfig(t)
      <4>1. task'[t] = [task[t] EXCEPT !.step = "state", !.seen = roster]
        BY <3>2, TaskShape DEF ReadConfig, TypeOK
      <4> QED BY <1>3, <4>1, TaskShape DEF Tasklets
    <3>3. CASE ReadState(t)
      <4> DEFINE new == normalizeStorage(mergeConfigAndState(task[t].seen, state))
      <4>1. task'[t] = [task[t] EXCEPT !.step = "read", !.read = new]
        BY <3>3, TaskShape DEF ReadState, TypeOK
      <4>2. new \in Storages /\ \A r \in Rows : new[r] = state[r] \/ new[r] = NoEntry
        BY TaskShape, LoadedRows DEF TypeOK
      <4> HIDE DEF new
      <4>3. new = EmptyStorage
        BY <1>3, <1>4, <1>5, <4>2
      <4> QED BY <1>3, <4>1, <4>3, TaskShape DEF Tasklets
    <3>4. CASE LoopBegins(t)
      <4>1. task'[t] = [At(t, "each") EXCEPT !.storage = task[t].read, !.rest = Held(task[t].read)]
        BY <3>4 DEF LoopBegins, TypeOK
      <4> QED BY <1>3, <4>1, AtFields DEF Phases, Tasklets
    <3>5. CASE SnapshotTaken(t)
      <4>1. PICK p \in {"config", "done", "save"} :
               task'[t] = [At(t, p) EXCEPT !.storage = task[t].read]
        BY <3>5 DEF SnapshotTaken, TypeOK
      <4> QED BY <1>3, <4>1, AtFields DEF Phases, Tasklets
    <3> QED BY <1>12, <3>1, <3>2, <3>3, <3>4, <3>5 DEF Loading
  <2> QED BY <1>7, <2>1, <2>2
<1>13. ASSUME NEW t \in Tasks, Looping(t) PROVE Blank'
  <2>1. CASE LoopEnds(t)
    BY <1>8, <2>1 DEF LoopEnds, Phases
  <2>2. CASE NextRow(t)
    <3>1. task[t].rest \subseteq Held(task[t].storage) /\ task[t].rest # {}
      BY <2>2 DEF NextRow, Is, Works, AtWork
    <3> QED BY <1>3, <1>4, <3>1 DEF Held
  <2> QED BY <1>13, <2>1, <2>2 DEF Looping
<1>14. ASSUME NEW t \in Tasks, RefreshStep(t) PROVE Blank'
  <2>1. task[t].phase \in Busy
    BY <1>14 DEF RefreshStep, FirstRead, Poll, LockedRead, Send, SendFails, FinalRead, Loaded, Is, Busy
  <2> QED BY <1>6, <2>1
<1>15. ASSUME NEW t \in Tasks, Saving(t) PROVE Blank'
  <2>1. PICK p \in {"merge", "final", "done"} : Goto(t, p)
    BY <1>6, <1>15 DEF Saving, SaveLocks, SaveWrites, SaveWithheld, SaveTimesOut, Saved
  <2>2. roster' = roster
    BY <1>15 DEF Saving, SaveLocks, SaveWrites, SaveWithheld, SaveTimesOut
  <2>3. state' = state
    <3>1. CASE SaveWrites(t)
      <4>1. \A ids \in SUBSET Rows : SavedState(state, task[t].storage, ids) = EmptyStorage
        <5>1. SUFFICES ASSUME NEW ids \in SUBSET Rows
                       PROVE  SavedState(state, task[t].storage, ids) = EmptyStorage
          OBVIOUS
        <5>2. /\ SavedState(state, task[t].storage, ids) \in Storages
              /\ \A r \in Rows : SavedState(state, task[t].storage, ids)[r] = NoEntry
          BY <1>3, <1>4, TaskShape, SavedRows DEF TypeOK
        <5> QED BY <1>5, <5>2
      <4>2. PICK ids \in SUBSET Rows : state' = SavedState(state, task[t].storage, ids)
        BY <3>1, TaskShape DEF SaveWrites
      <4> QED BY <1>3, <4>1, <4>2
    <3> QED BY <1>15, <3>1 DEF Saving, SaveLocks, SaveWithheld, SaveTimesOut
  <2> QED BY <1>8, <2>1, <2>2, <2>3 DEF Phases
<1>16. ASSUME NEW t \in Tasks, Locking(t) PROVE Blank'
  <2>1. PICK p \in {"both", "write", "done"} : Goto(t, p)
    BY <1>16 DEF Locking, LockConfig, LockState, LockTimesOut, EditWithheld, Leave
  <2> QED BY <1>8, <1>16, <2>1
         DEF Locking, LockConfig, LockState, LockTimesOut, EditWithheld, Phases
<1>17. ASSUME NEW t \in Tasks, Writing(t) PROVE Blank'
  <2>1. ~WriteState(t)
    BY <1>2 DEF WriteState, Is, Edits
  <2>2. Leave(t) /\ UNCHANGED files
    BY <1>1, <1>17, <2>1
       DEF Writing, mutateAccounts, saveAccounts, migrateIfNeeded, WriteConfig
  <2> QED BY <1>8, <2>2 DEF Leave, Phases
<1> QED BY <1>9, <1>10, <1>11, <1>12, <1>13, <1>14, <1>15, <1>16, <1>17, StepCases

-----------------------------------------------------------------------------
(* What is sent *)

(* The row a refresh sends for has its latest token in hand, unless it was  *)
(* lost.                                                                    *)
LEMMA SpentStep ==
    ASSUME TypeOK, Works, Stored, NoSpentTokenSent, [Next]_vars
    PROVE  NoSpentTokenSent'
<1>1. ASSUME NEW t \in Tasks, Send(t) PROVE sentSpent' = sentSpent
  <2>1. CASE task[t].read[task[t].row].gen = cur[task[t].row]
    BY <1>1, <2>1 DEF Send
  <2>2. CASE task[t].row \in unsaved
    BY <1>1, <2>2 DEF Send
  <2>3. CASE task[t].row \notin unsaved
    <3>1. /\ task[t].row \in Rows /\ task[t].read[task[t].row] # NoEntry
      BY <1>1, TaskShape DEF Send, Is, Works, AtWork
    <3>2. Copies(t, task[t].row)
      BY <2>3, <3>1 DEF Stored
    <3>3. task[t].read[task[t].row].gen = cur[task[t].row]
      BY <1>1, <3>1, <3>2 DEF Copies, Send
    <3> QED BY <2>1, <3>3
  <2> QED BY <2>2, <2>3
<1>2. ASSUME NEW t \in Tasks,
             Loading(t) \/ Looping(t) \/ Saving(t) \/ Locking(t)
      PROVE  sentSpent' = sentSpent
  BY <1>2 DEF Loading, Start, ReadConfig, ReadState, LoopBegins, SnapshotTaken, Looping, NextRow,
       LoopEnds, Saving, SaveLocks, SaveWrites, SaveWithheld, SaveTimesOut,
       Locking, LockConfig, LockState, LockTimesOut, EditWithheld
<1>3. ASSUME NEW t \in Tasks, RefreshStep(t) PROVE sentSpent' = sentSpent
  BY <1>1, <1>3 DEF RefreshStep, FirstRead, Poll, LockedRead, SendFails, FinalRead
<1>4. ASSUME NEW t \in Tasks, Writing(t) PROVE sentSpent' = sentSpent
  BY <1>4 DEF Writing, mutateAccounts, saveAccounts, migrateIfNeeded, WriteState, WriteConfig
<1>5. sentSpent' = sentSpent
  BY <1>2, <1>3, <1>4, StepCases DEF Age, Crash
<1> QED BY <1>5 DEF NoSpentTokenSent

-----------------------------------------------------------------------------
(* Theorems *)

LEMMA CustodyInit == Init => Custody
<1>1. SUFFICES ASSUME Init PROVE Custody
  OBVIOUS
<1>2. /\ EmptyStorage \in Storages /\ Fresh \in Tasklets
      /\ \A r \in Rows : EmptyStorage[r] = NoEntry
  BY DEF EmptyStorage, Storages, Fresh, Tasklets, Phases
<1>3. [gen |-> 1, err |-> FALSE] \in Entries
  BY DEF Entries
<1>4. PICK e \in Entries : e = [gen |-> 1, err |-> FALSE] /\ e.gen = 1
  BY <1>3
<1>5. state = [r \in Rows |-> IF r \in roster THEN e ELSE NoEntry]
  BY <1>1, <1>4 DEF Init
<1>6. store \in BOOLEAN /\ roster \subseteq Rows /\ (~store => roster = {})
  BY <1>1 DEF Init
<1>7. /\ cur = [r \in Rows |-> IF r \in roster THEN 1 ELSE 0] /\ due = [r \in Rows |-> 0]
      /\ cfgLock = None /\ stLock = None /\ rowLock = [r \in Rows |-> None]
      /\ task = [t \in Tasks |-> Fresh] /\ unsaved = {} /\ sentSpent = {} /\ mishaps = 0
      /\ job \in Scenes
  BY <1>1 DEF Init
<1>8. TypeOK
  <2>1. state \in Storages
    BY <1>5 DEF Storages
  <2>2. cur \in [Rows -> 0 .. MaxGen] /\ due \in [Rows -> 0 .. MaxGen]
    BY <1>7
  <2>3. job \in [Tasks -> Kinds]
    BY <1>7
  <2> QED BY <1>2, <1>6, <1>7, <2>1, <2>2, <2>3 DEF TypeOK
<1>9. \A t \in Tasks : /\ task[t].phase = "ready" /\ task[t].step = "config" /\ ~task[t].refreshing
                       /\ task[t].rest = {} /\ task[t].read = EmptyStorage
                       /\ task[t].storage = EmptyStorage
  BY <1>7 DEF Fresh
<1>10. Works
  <2>1. \A t \in Tasks : AtWork(t)
    BY <1>9 DEF AtWork, Busy, Editing
  <2>2. \A r \in Rows : due[r] < MaxGen
    BY <1>7
  <2> QED BY <2>1, <2>2 DEF Works
<1>11. Exclusive
  BY <1>9 DEF Exclusive, Locked
<1>12. Stored
  <2>1. ASSUME NEW r \in Rows PROVE Latest(r)
    BY <1>4, <1>5, <1>7 DEF Latest
  <2>2. ASSUME NEW r \in Rows, NEW t \in Tasks PROVE Copies(t, r)
    BY <1>2, <1>9 DEF Copies, Behind, Rotated, Loaded, Is, Busy
  <2> QED BY <2>1, <2>2 DEF Stored
<1>13. Edits
  BY <1>9 DEF Edits
<1>14. Blank
  BY <1>5, <1>6, <1>9 DEF Blank, EmptyStorage
<1> QED BY <1>7, <1>8, <1>10, <1>11, <1>12, <1>13, <1>14 DEF Custody, NoSpentTokenSent

LEMMA CustodyStep == Custody /\ [Next]_vars => Custody'
<1>1. SUFFICES ASSUME Custody, [Next]_vars PROVE Custody'
  OBVIOUS
<1>2. TypeOK /\ Works /\ Exclusive /\ Stored /\ Edits /\ Blank /\ NoSpentTokenSent
  BY <1>1 DEF Custody
<1>3. TypeOK'
  BY <1>1, <1>2, TypesStep
<1>4. Works' /\ Exclusive' /\ Stored' /\ Edits'
  BY <1>1, <1>2, <1>3, WorksStep, LocksStep, StoredStep, EditsStep
<1>5. Blank' /\ NoSpentTokenSent'
  BY <1>1, <1>2, BlankStep, SpentStep
<1> QED BY <1>3, <1>4, <1>5 DEF Custody

LEMMA CustodyHolds == Spec => []Custody
  BY CustodyInit, CustodyStep, PTL DEF Spec

(* The files, the locks, the calls and the provider are well formed in      *)
(* every state of the store.                                                *)
THEOREM TypeCorrect == Spec => []TypeOK
<1>1. Custody => TypeOK
  BY DEF Custody
<1> QED BY <1>1, CustodyHolds, PTL

(* No refresh sends a token that was spent, unless its rotation was lost:   *)
(* refreshAccountNow reads the row under its lock, and the call that        *)
(* rotated the token keeps the lock until it has saved.                     *)
THEOREM SpentTokensStay == Spec => []NoSpentTokenSent
<1>1. Custody => NoSpentTokenSent
  BY DEF Custody
<1> QED BY <1>1, CustodyHolds, PTL

(* The state file changes only by a save, or by the second write of an edit *)
(* that holds both locks; a row leaves the config file by its first write.  *)
LEMMA FileSteps ==
    ASSUME Custody, [Next]_vars
    PROVE  /\ \/ state' = state
              \/ \E t \in Tasks : SaveWrites(t) \/ WriteState(t)
           /\ \/ roster' = roster
              \/ \E t \in Tasks : Writing(t) /\ state' = state
<1>1. ASSUME NEW t \in Tasks, Loading(t) \/ Looping(t) \/ RefreshStep(t) \/ Locking(t)
      PROVE  state' = state /\ roster' = roster
  BY <1>1 DEF Loading, Start, ReadConfig, ReadState, LoopBegins, SnapshotTaken, Looping, NextRow,
       LoopEnds, RefreshStep, FirstRead, Poll, LockedRead, Send, SendFails, FinalRead,
       Locking, LockConfig, LockState, LockTimesOut, EditWithheld
<1>2. ASSUME NEW t \in Tasks, Saving(t) PROVE roster' = roster /\ (state' = state \/ SaveWrites(t))
  BY <1>2 DEF Saving, SaveLocks, SaveWrites, SaveWithheld, SaveTimesOut
<1>3. ASSUME NEW t \in Tasks, Writing(t)
      PROVE  state' = state \/ (WriteState(t) /\ roster' = roster)
  BY <1>3 DEF Writing, mutateAccounts, saveAccounts, migrateIfNeeded, WriteState, WriteConfig
<1> QED BY <1>1, <1>2, <1>3, StepCases DEF Age, Crash

(* A write never puts back an older token of a stored row, and never takes  *)
(* the backoff off the token it belongs to unless the doctor clears it:     *)
(* keepNewerCredential, and the merge of saveAccountState, decide by the    *)
(* token that is stored when they write.                                    *)
THEOREM CredentialsKept == Spec => CredentialKept
<1>1. ASSUME Custody, [Next]_vars, NEW r \in Rows,
             r \notin unsaved, state[r] # NoEntry, state'[r] # NoEntry
      PROVE  /\ state'[r].gen >= state[r].gen
             /\ state'[r].gen = state[r].gen /\ state[r].err =>
                   state'[r].err \/ \E t \in Tasks : job[t] = "clear" /\ cfgLock = t
  <2>1. TypeOK /\ Exclusive
    BY <1>1 DEF Custody
  <2>2. state[r].gen \in Nat
    BY <2>1, EntryShape DEF TypeOK, Storages
  <2>3. CASE state' = state
    BY <2>2, <2>3
  <2>4. ASSUME NEW t \in Tasks, SaveWrites(t)
        PROVE  state'[r].gen >= state[r].gen /\
               (state'[r].gen = state[r].gen /\ state[r].err => state'[r].err)
    <3>1. r \in readConfigRosterIds
      BY <1>1, <2>1, <2>4, SaveKeepsRows
    <3> QED BY <1>1, <2>1, <2>4, <3>1, SaveKeepsRows
  <2>5. ASSUME NEW t \in Tasks, WriteState(t)
        PROVE  /\ state'[r].gen = state[r].gen
               /\ state[r].err => state'[r].err \/ (job[t] = "clear" /\ cfgLock = t)
    <3>1. task[t].phase = "state" /\ state' = task[t].storage /\ cfgLock = t
      BY <2>1, <2>5 DEF WriteState, Is, Exclusive, Locked
    <3>2. Copies(t, r)
      BY <1>1 DEF Custody, Stored
    <3> QED BY <1>1, <3>1, <3>2 DEF Copies
  <2> QED BY <1>1, <2>2, <2>3, <2>4, <2>5, FileSteps
<1>2. Custody /\ [Next]_vars =>
        [\A r \in Rows :
           r \notin unsaved /\ state[r] # NoEntry /\ state'[r] # NoEntry =>
              /\ state'[r].gen >= state[r].gen
              /\ state'[r].gen = state[r].gen /\ state[r].err =>
                    \/ state'[r].err
                    \/ \E t \in Tasks : job[t] = "clear" /\ cfgLock = t]_vars
  BY <1>1
<1> QED BY <1>2, CustodyHolds, PTL DEF Spec, CredentialKept

(* A row leaves the roster only by a removal, and a row of the roster never *)
(* loses its secrets: an edit reads both files under both locks and carries *)
(* over the rows that did not load.                                         *)
THEOREM NoRowLost == Spec => RowsStay
<1>1. ASSUME Custody, [Next]_vars, NEW r \in Rows, r \in roster \ roster'
      PROVE  \E t \in Tasks : job[t] = "remove" /\ task[t].row = r /\ cfgLock = t
  <2>1. TypeOK /\ Exclusive /\ Blank
    BY <1>1 DEF Custody
  <2>2. PICK t \in Tasks : Writing(t) /\ state' = state
    BY <1>1, FileSteps
  <2>4. CASE mutateAccounts(t)
    <3> DEFINE drop == IF job[t] = "remove" THEN {task[t].row} ELSE {}
    <3>1. cfgLock = t /\ WriteConfig(t, Mutated(t), drop)
      BY <2>1, <2>4 DEF mutateAccounts, Is, Exclusive, Locked
    <3>2. r \notin Held(Mutated(t)) /\ (r \in Held(current) \/ r \in drop)
      BY <1>1, <3>1 DEF WriteConfig, buildPreservedAdditions
    <3>3. CASE r \in drop
      BY <3>1, <3>3
    <3>4. CASE r \in Held(current)
      <4>1. Mutated(t)[r] = NoEntry /\ current[r] # NoEntry
        BY <3>2, <3>4 DEF Held
      <4>2. job[t] = "remove" /\ r = task[t].row
        BY <2>1, <4>1, MutatedRows
      <4> QED BY <3>1, <4>2
    <3> QED BY <3>2, <3>3, <3>4
  <2>5. CASE saveAccounts(t)
    <3> DEFINE next == mergeStorageForSave(current, task[t].storage)
    <3>1. WriteConfig(t, next, {}) /\ current \in Storages /\ task[t].storage \in Storages
      BY <2>1, <2>5, TaskShape, MutatedRows DEF saveAccounts
    <3>2. current[r] # NoEntry => next[r] # NoEntry
      BY <3>1, UnionOfRows
    <3> HIDE DEF next
    <3> QED BY <1>1, <3>1, <3>2 DEF WriteConfig, buildPreservedAdditions, Held
  <2>6. CASE migrateIfNeeded(t)
    BY <1>1, <2>1, <2>6 DEF migrateIfNeeded, Blank
  <2>7. CASE WriteState(t)
    BY <1>1, <2>7 DEF WriteState
  <2> QED BY <2>2, <2>4, <2>5, <2>6, <2>7 DEF Writing
<1>2. ASSUME Custody, [Next]_vars, NEW r \in Rows, r \in roster', state[r] # NoEntry
      PROVE  state'[r] # NoEntry
  <2>1. TypeOK /\ Edits
    BY <1>2 DEF Custody
  <2>2. CASE state' = state
    BY <1>2, <2>2
  <2>3. ASSUME NEW t \in Tasks, SaveWrites(t) PROVE state'[r] # NoEntry
    <3>1. r \in readConfigRosterIds
      BY <1>2, <2>3 DEF SaveWrites, readConfigRosterIds
    <3> QED BY <1>2, <2>1, <2>3, <3>1, SaveKeepsRows
  <2>4. ASSUME NEW t \in Tasks, WriteState(t) PROVE state'[r] # NoEntry
    BY <1>2, <2>1, <2>4 DEF WriteState, Is, Edits
  <2> QED BY <1>2, <2>2, <2>3, <2>4, FileSteps
<1>3. Custody /\ [Next]_vars =>
        [\A r \in Rows :
           /\ r \in roster \ roster' =>
                 \E t \in Tasks : job[t] = "remove" /\ task[t].row = r /\ cfgLock = t
           /\ r \in roster' /\ state[r] # NoEntry => state'[r] # NoEntry]_vars
  BY <1>1, <1>2
<1> QED BY <1>3, CustodyHolds, PTL DEF Spec, RowsStay

(* No write brings the secrets of a row to the disk that is not in the      *)
(* roster: saveAccountState reads the roster when it writes, and an edit    *)
(* writes the roster first.                                                 *)
THEOREM NoOrphans == Spec => NoOrphanSecrets
<1>1. ASSUME Custody, [Next]_vars, NEW r \in Rows, state[r] = NoEntry, state'[r] # NoEntry
      PROVE  r \in roster
  <2>1. TypeOK /\ Edits /\ Blank
    BY <1>1 DEF Custody
  <2>2. PICK t \in Tasks : SaveWrites(t) \/ WriteState(t)
    BY <1>1, FileSteps
  <2>3. CASE SaveWrites(t)
    <3>1. r \in readConfigRosterIds /\ task[t].storage[r] # NoEntry
      BY <1>1, <2>1, <2>3, SaveKeepsRows
    <3>2. store
      BY <2>1, <3>1 DEF Blank, EmptyStorage
    <3> QED BY <3>1, <3>2 DEF readConfigRosterIds
  <2>4. CASE WriteState(t)
    BY <1>1, <2>1, <2>4 DEF WriteState, Is, Edits, Held
  <2> QED BY <2>2, <2>3, <2>4
<1>2. Custody /\ [Next]_vars =>
        [\A r \in Rows : state[r] = NoEntry /\ state'[r] # NoEntry => r \in roster]_vars
  BY <1>1
<1> QED BY <1>2, CustodyHolds, PTL DEF Spec, NoOrphanSecrets

=============================================================================
