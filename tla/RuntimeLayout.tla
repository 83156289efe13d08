----------------------------- MODULE RuntimeLayout -----------------------------
(***************************************************************************)
(* The move of the runtime files out of OpenCode's config folder           *)
(* (runtime-layout.ts), with the heartbeats (process-heartbeat.ts) and the *)
(* fence (version-fence.ts) it waits on.  Every starting process fixes its *)
(* layout once, under the layout lock; the first one that finds no other   *)
(* process on the old files copies them, writes the marker and removes     *)
(* them.  Any process may die between two steps, any lease may lapse while *)
(* its holder stalls, and older versions write the old files by their own  *)
(* rules.                                                                  *)
(*                                                                         *)
(* One config folder; the three data locks at the old paths are one lock,  *)
(* since a writer holds only its own and for one step.  A lease check and  *)
(* the file operation it guards are one step.                              *)
(***************************************************************************)
EXTENDS Naturals

CONSTANTS
    Procs,          \* process ids, used again after a process has ended
    Kinds,          \* what a start may be: "new", "override", "older"
    NoOne, Absent,
    MaxStarts,      \* bound: starts
    MaxWrites,      \* bound: writes of a running process
    MaxFaults       \* bound: failed operations and lapsed leases of live holders

ASSUME LayoutAssumption ==
    /\ Kinds \subseteq {"new", "override", "older"}
    /\ NoOne \notin Procs /\ "stale" \notin Procs
    /\ MaxStarts \in Nat /\ MaxWrites \in Nat /\ MaxFaults \in Nat

VARIABLES
    pc,             \* where each process is in decide(), or the layout it fixed
    kind,           \* what it was started as; "reloaded" over an older generation
    finishing,      \* it found a marker and only removes old copies
    todo,           \* the file operations it has left in this phase
    left,           \* an identical old credential could not be removed
    hb,             \* what <pid>.json says of the old files, "none" if nothing
    zero,           \* 0<pid>.json, which no older release handle removes
    old, next,      \* the contents of each file in the two layouts
    marker,         \* layout.json
    manifest,       \* the files layout-moving.json lists, or Absent
    temps,          \* staged writes left beside the old files
    lock,           \* the layout lock: NoOne, its holder, or "stale" after a crash
    dataLock,       \* the data locks at the old paths
    starts, writes, faults,
    calm,           \* ghost: the process whose start nothing has disturbed
    live,           \* ghost: contents written last at their place and not moved on
    strays,         \* ghost: contents written to the old files after the marker
    enrolled        \* ghost: the install was in vault mode and never disconnected

proc  == <<pc, kind, finishing, todo, left>>
beats == <<hb, zero>>
disk  == <<old, next, marker, manifest, temps>>
locks == <<lock, dataLock>>
used  == <<starts, writes, faults, calm>>
ghost == <<live, strays, enrolled>>
vars  == <<proc, beats, disk, locks, used, ghost>>

(* The account state, the vault's enrollment state and token, the sessions. *)
Files == {"state", "enrol", "token", "sess"}
Credentials == Files \ {"sess"}

(* presentOldFiles lists them so; removeOldCopies puts the enrollment state *)
(* last, after the token whose absence decides whether it may stay.         *)
CopyOrder == [state |-> 1, enrol |-> 2, token |-> 3, sess |-> 4]
DropOrder == [state |-> 1, token |-> 2, sess |-> 3, enrol |-> 4]

(* A file operation, and its turn: copies without a source go before the    *)
(* others, in whatever order the manifest lists them.                       *)
Ops == {"unlink", "copy", "drop"} \X Files
Turn(w) ==
    CASE w[1] = "unlink" -> 0
      [] w[1] = "copy"   -> CopyOrder[w[2]]
      [] w[1] = "drop"   -> DropOrder[w[2]]

NoMarker == [on |-> FALSE, removed |-> FALSE, kept |-> Absent]

Alive(p) == pc[p] # "down"
Deciding == {"read", "lock", "held", "fence", "data", "fence2", "copy", "drop", "seal", "tidy"}
Settled  == {"legacy", "state-home"}

present == {f \in Files : old[f] # Absent}

(* An enrollment state read as vault mode with its token missing.           *)
VaultStates == {"approved", "blocked"}
vaultModeWithoutToken == old["enrol"] \in VaultStates /\ old["token"] = Absent

isVaultStateLeftover ==
    /\ marker.kept # Absent
    /\ old["enrol"] = marker.kept \/ vaultModeWithoutToken

(* No file holds what stands for no file, and no list is the missing list.  *)
ASSUME AbsentAssumption ==
    /\ Absent \notin Nat /\ Absent \notin VaultStates \cup {"pending"}
    /\ \A F \in SUBSET Files : Absent # F

-----------------------------------------------------------------------------
(* Steps that end a decision *)

(* A write, an unlink or a wait that fails.                                 *)
Fault ==
    /\ faults < MaxFaults
    /\ faults' = faults + 1
    /\ calm' = NoOne
    /\ UNCHANGED <<starts, writes>>
NoFault == UNCHANGED used

assertOwned(p) == lock = p

Release(p) ==
    /\ lock' = IF lock = p THEN NoOne ELSE lock
    /\ dataLock' = IF dataLock = p THEN NoOne ELSE dataLock

Become(p, where) ==
    /\ pc' = [pc EXCEPT ![p] = where]
    /\ todo' = [todo EXCEPT ![p] = {}]
    /\ left' = [left EXCEPT ![p] = FALSE]
    /\ finishing' = [finishing EXCEPT ![p] = FALSE]
    /\ UNCHANGED kind

stateHome(p) == Become(p, "state-home") /\ Release(p) /\ UNCHANGED beats

Refuse(p) == Become(p, "refused") /\ Release(p) /\ UNCHANGED beats

(* Legacy only once it is in the heartbeat, written under the layout lock;  *)
(* without the lock, or the record, the start is refused.                   *)
legacy(p) ==
    /\ assertOwned(p)
    /\ Become(p, "legacy")
    /\ hb' = [hb EXCEPT ![p] = "legacy"]
    /\ zero' = [zero EXCEPT ![p] = FALSE]
    /\ Release(p)
Unrecorded(p) == ~assertOwned(p) /\ Refuse(p)
LegacyOrRefuse(p) ==
    \/ NoFault /\ legacy(p)
    \/ NoFault /\ Unrecorded(p)
    \/ Fault /\ assertOwned(p) /\ Refuse(p)

(* What a cleanup that stops early, or a move that cannot start, leads to.  *)
GiveUp(p) == IF finishing[p] THEN NoFault /\ stateHome(p) ELSE LegacyOrRefuse(p)

Goto(p, where) == pc' = [pc EXCEPT ![p] = where]

-----------------------------------------------------------------------------
(* decide *)

(* noticeReappearedFiles: a credential beside a finished move's marker.     *)
CredentialsReappeared ==
    \/ old["state"] # Absent \/ old["token"] # Absent
    \/ old["enrol"] # Absent /\ ~isVaultStateLeftover

(* The read-only look before any lock.                                      *)
Look(p) ==
    /\ pc[p] = "read"
    /\ \/ /\ marker.removed /\ CredentialsReappeared
          /\ NoFault /\ Refuse(p)
       \/ /\ marker.removed /\ ~CredentialsReappeared
          /\ manifest = Absent /\ (kind[p] = "override" \/ ~temps)
          /\ NoFault /\ stateHome(p)
       \/ /\ marker.removed => /\ ~CredentialsReappeared
                               /\ manifest # Absent \/ (kind[p] # "override" /\ temps)
          /\ Goto(p, "lock")
          /\ NoFault /\ UNCHANGED <<kind, finishing, todo, left, beats, locks>>
       \/ Fault /\ Refuse(p)
    /\ UNCHANGED <<disk, ghost>>

TakeLayoutLock(p) ==
    /\ pc[p] = "lock" /\ lock = NoOne
    /\ lock' = p
    /\ Goto(p, "held")
    /\ UNCHANGED <<kind, finishing, todo, left, beats, disk, dataLock, used, ghost>>

(* The wait outlasts a crashed holder's lease, not a live holder.           *)
LayoutLockFails(p) ==
    /\ pc[p] = "lock"
    /\ \/ lock \in Procs /\ NoFault
       \/ Fault
    /\ IF marker.on THEN stateHome(p) ELSE Refuse(p)
    /\ UNCHANGED <<disk, ghost>>

(* The marker read again under the lock; an override only follows it.       *)
Branch(p) ==
    /\ pc[p] = "held"
    /\ \/ /\ kind[p] = "new"
          /\ finishing' = [finishing EXCEPT ![p] = marker.on]
          /\ Goto(p, "fence")
          /\ NoFault /\ UNCHANGED <<kind, todo, left, beats, locks, manifest>>
       \/ /\ kind[p] = "override" /\ marker.on
          /\ stateHome(p)
          /\ \/ NoFault /\ manifest' = IF marker.removed /\ assertOwned(p) THEN Absent ELSE manifest
             \/ Fault /\ marker.removed /\ UNCHANGED manifest
       \/ /\ kind[p] = "override" /\ ~marker.on
          /\ LegacyOrRefuse(p)
          /\ UNCHANGED manifest
       \/ Fault /\ Refuse(p) /\ UNCHANGED manifest
    /\ UNCHANGED <<old, next, marker, temps, ghost>>

-----------------------------------------------------------------------------
(* The fence and the data locks *)

(* migrationFenceOpen with layoutMove: no other live process of an older    *)
(* version, or with a record that says legacy.                              *)
fence(p) ==
    \A q \in Procs \ {p} : Alive(q) => hb[q] \notin {"older", "legacy"} /\ ~zero[q]

FirstFence(p) ==
    /\ pc[p] = "fence"
    /\ \/ /\ fence(p)
          /\ Goto(p, "data")
          /\ NoFault /\ UNCHANGED <<kind, finishing, todo, left, beats, locks>>
       \/ ~fence(p) /\ GiveUp(p)
    /\ UNCHANGED <<disk, ghost>>

takeDataLocks(p) ==
    /\ pc[p] = "data" /\ dataLock = NoOne
    /\ dataLock' = p
    /\ Goto(p, "fence2")
    /\ NoFault /\ UNCHANGED <<kind, finishing, todo, left, beats, lock, disk, ghost>>

(* A live holder is a move that went on after this one lost the layout lock. *)
DataLocksFail(p) ==
    /\ pc[p] = "data"
    /\ \/ dataLock \in Procs /\ finishing[p] /\ NoFault /\ stateHome(p)
       \/ dataLock \in Procs /\ ~finishing[p] /\ NoFault /\ Unrecorded(p)
       \/ finishing[p] /\ Fault /\ stateHome(p)
       \/ ~finishing[p] /\ Fault /\ legacy(p)
    /\ UNCHANGED <<disk, ghost>>

-----------------------------------------------------------------------------
(* moveFiles *)

(* readManifest: the copies an unfinished move listed.                      *)
listed == IF manifest = Absent THEN {} ELSE manifest

(* Files in the state home that no unfinished move of ours listed.          *)
foreign == {f \in Files : next[f] # Absent} \ listed

SecondFence(p) ==
    /\ pc[p] = "fence2"
    /\ \/ /\ ~fence(p) \/ ~assertOwned(p) \/ (~finishing[p] /\ foreign # {})
          /\ GiveUp(p)
          /\ UNCHANGED manifest
       \/ /\ fence(p) /\ assertOwned(p) /\ ~finishing[p] /\ foreign = {}
          /\ manifest' = listed \cup present
          /\ todo' = [todo EXCEPT ![p] = ({"unlink"} \X (listed \ present))
                                            \cup ({"copy"} \X present)]
          /\ Goto(p, "copy")
          /\ NoFault /\ UNCHANGED <<kind, finishing, left, beats, locks>>
       \/ /\ fence(p) /\ assertOwned(p) /\ ~finishing[p] /\ foreign = {}
          /\ Fault /\ legacy(p) /\ UNCHANGED manifest
       \/ /\ fence(p) /\ assertOwned(p) /\ finishing[p]
          /\ todo' = [todo EXCEPT ![p] = IF marker.removed THEN {} ELSE {"drop"} \X present]
          /\ Goto(p, "drop")
          /\ NoFault /\ UNCHANGED <<kind, finishing, left, beats, locks, manifest>>
    /\ UNCHANGED <<old, next, marker, temps, ghost>>

(* The operations whose turn it is.                                         *)
UpNext(p) == {w \in todo[p] : \A v \in todo[p] : Turn(w) <= Turn(v)}

(* Copy a file and read it back, or unlink a copy whose source has gone.    *)
copyVerified(p) ==
    /\ pc[p] = "copy" /\ todo[p] # {}
    /\ \E w \in UpNext(p) : LET f == w[2] IN
       \/ /\ assertOwned(p)
          /\ next' = [next EXCEPT ![f] = IF w[1] = "copy" THEN old[f] ELSE Absent]
          /\ todo' = [todo EXCEPT ![p] = @ \ {w}]
          /\ NoFault /\ UNCHANGED <<pc, kind, finishing, left, beats, locks>>
       \/ NoFault /\ Unrecorded(p) /\ UNCHANGED next
       \/ Fault /\ legacy(p) /\ UNCHANGED next
    /\ UNCHANGED <<old, marker, manifest, temps, ghost>>

keepableVaultState ==
    IF old["enrol"] # Absent /\ next["enrol"] \in VaultStates THEN next["enrol"] ELSE Absent

(* The marker makes the copies authoritative.  A write that reports an      *)
(* error may have replaced the file: the marker on disk decides.            *)
writeMarker(p) ==
    /\ pc[p] = "copy" /\ todo[p] = {}
    /\ \/ /\ assertOwned(p) /\ dataLock = p
          /\ marker' = [on |-> TRUE, removed |-> FALSE, kept |-> keepableVaultState]
          /\ \/ /\ Goto(p, "drop")
                /\ todo' = [todo EXCEPT ![p] = {"drop"} \X present]
                /\ NoFault /\ UNCHANGED <<kind, finishing, left, beats, locks>>
             \/ Fault /\ stateHome(p)
       \/ dataLock # p /\ NoFault /\ (legacy(p) \/ Unrecorded(p)) /\ UNCHANGED marker
       \/ Fault /\ legacy(p) /\ UNCHANGED marker
    /\ UNCHANGED <<old, next, manifest, temps, ghost>>

-----------------------------------------------------------------------------
(* removeOldCopies and what follows it, in the move and at a later start *)

Stays(p, f) ==
    /\ f = "enrol"
    /\ \/ isVaultStateLeftover
       \/ left[p]
       \/ marker.kept # Absent /\ old[f] = next[f]

(* Mutant: an old file goes whatever the new one holds.                     *)
sameAlways(f) == TRUE

same(f) == old[f] = next[f]

Onward(p, w) == todo' = [todo EXCEPT ![p] = @ \ {w}] /\ UNCHANGED <<pc, kind, finishing, beats, locks>>

(* Compare, check the lease, unlink.  Differing credentials refuse.         *)
unlinkIfIdentical(p) ==
    /\ pc[p] = "drop" /\ todo[p] # {}
    /\ \E w \in UpNext(p) : LET f == w[2] IN
       \/ ~assertOwned(p) /\ NoFault /\ stateHome(p) /\ UNCHANGED old
       \/ /\ assertOwned(p)
          /\ Stays(p, f) \/ old[f] = Absent \/ (f \notin Credentials /\ ~same(f))
          /\ Onward(p, w) /\ NoFault /\ UNCHANGED <<left, old>>
       \/ /\ assertOwned(p) /\ ~Stays(p, f) /\ old[f] # Absent /\ same(f)
          /\ old' = [old EXCEPT ![f] = Absent]
          /\ Onward(p, w) /\ NoFault /\ UNCHANGED left
       \/ /\ assertOwned(p) /\ ~Stays(p, f) /\ old[f] # Absent
          /\ left' = [left EXCEPT ![p] = @ \/ f \in Credentials]
          /\ Onward(p, w) /\ Fault /\ UNCHANGED old
       \/ /\ assertOwned(p) /\ ~Stays(p, f) /\ old[f] # Absent /\ ~same(f)
          /\ f \in Credentials
          /\ Refuse(p) /\ NoFault /\ UNCHANGED old
    /\ UNCHANGED <<next, marker, manifest, temps, live, strays, enrolled>>

removeOldAtomicTemps(p) ==
    /\ pc[p] = "drop" /\ todo[p] = {}
    /\ \/ left[p] /\ NoFault /\ stateHome(p) /\ UNCHANGED temps
       \/ /\ ~left[p] /\ (temps => assertOwned(p) /\ dataLock = p)
          /\ temps' = FALSE
          /\ Goto(p, "seal")
          /\ NoFault /\ UNCHANGED <<kind, finishing, todo, left, beats, locks>>
       \/ ~left[p] /\ temps /\ ~(assertOwned(p) /\ dataLock = p) /\ NoFault /\ stateHome(p) /\ UNCHANGED temps
       \/ ~left[p] /\ temps /\ Fault /\ stateHome(p) /\ UNCHANGED temps
    /\ UNCHANGED <<old, next, marker, manifest, ghost>>

Seal(p) ==
    /\ pc[p] = "seal"
    /\ \/ /\ assertOwned(p)
          /\ marker' = [marker EXCEPT !.removed = TRUE]
          /\ Goto(p, "tidy")
          /\ NoFault /\ UNCHANGED <<kind, finishing, todo, left, beats, locks>>
       \/ ((~assertOwned(p) /\ NoFault) \/ Fault) /\ stateHome(p) /\ UNCHANGED marker
    /\ UNCHANGED <<old, next, manifest, temps, ghost>>

removeManifestOwned(p) ==
    /\ pc[p] = "tidy"
    /\ stateHome(p)
    /\ \/ manifest' = (IF assertOwned(p) THEN Absent ELSE manifest) /\ NoFault
       \/ Fault /\ UNCHANGED manifest
    /\ UNCHANGED <<old, next, marker, temps, ghost>>

-----------------------------------------------------------------------------
(* Processes *)

(* An older version is on the old files from the start, and its record says *)
(* so; a process id may be one that a dead process left a record under.     *)
Start(p, k) ==
    /\ pc[p] = "down" /\ starts < MaxStarts
    /\ starts' = starts + 1
    /\ kind' = [kind EXCEPT ![p] = k]
    /\ Goto(p, IF k = "older" THEN "legacy" ELSE "read")
    /\ hb' = IF k = "older" THEN [hb EXCEPT ![p] = "older"] ELSE hb
    /\ calm' = IF k = "new" /\ \A q \in Procs \ {p} : ~Alive(q) THEN p ELSE NoOne
    /\ UNCHANGED <<finishing, todo, left, zero, disk, locks, writes, faults, ghost>>

(* A process ends, at any step.  What it held is held until its lease ends, *)
(* and an interrupted write leaves its stage behind.                        *)
Stop(p) ==
    /\ Alive(p)
    /\ Goto(p, "down")
    /\ kind' = [kind EXCEPT ![p] = "new"]
    /\ todo' = [todo EXCEPT ![p] = {}]
    /\ left' = [left EXCEPT ![p] = FALSE]
    /\ finishing' = [finishing EXCEPT ![p] = FALSE]
    /\ lock' = IF lock = p THEN "stale" ELSE lock
    /\ dataLock' = IF dataLock = p THEN "stale" ELSE dataLock
    /\ temps' \in {temps, temps \/ pc[p] = "legacy"}
    /\ calm' = IF calm = p THEN NoOne ELSE calm
    /\ UNCHANGED <<beats, old, next, marker, manifest, starts, writes, faults, ghost>>

(* The lease of a crashed holder ends.                                      *)
Expire ==
    /\ lock = "stale" \/ dataLock = "stale"
    /\ lock' = IF lock = "stale" THEN NoOne ELSE lock
    /\ dataLock' = IF dataLock = "stale" THEN NoOne ELSE dataLock
    /\ UNCHANGED <<proc, beats, disk, used, ghost>>

(* A live holder stalls past its leases, or loses those of the data locks.  *)
Lapse(p) ==
    /\ lock = p
    /\ Fault
    /\ \/ Release(p)
       \/ dataLock = p /\ dataLock' = NoOne /\ UNCHANGED lock
    /\ UNCHANGED <<proc, beats, disk, ghost>>

(* startProcessHeartbeat, after the layout is fixed.                        *)
startProcessHeartbeat(p) ==
    /\ pc[p] \in Settled /\ kind[p] \in {"new", "override"}
    /\ hb' = [hb EXCEPT ![p] = IF pc[p] = "legacy" THEN "legacy" ELSE "none"]
    /\ zero' = [zero EXCEPT ![p] = FALSE]
    /\ UNCHANGED <<proc, disk, locks, used, ghost>>

(* Mutant: the last owner's release removes the record in any layout.       *)
releaseAlways(p) ==
    /\ pc[p] \in Settled /\ kind[p] # "older"
    /\ hb' = [hb EXCEPT ![p] = "none"]
    /\ UNCHANGED <<proc, zero, disk, locks, used, ghost>>

(* The last owner lets go while the process lives on: a record that says    *)
(* legacy stays.  An older generation's handle knows no such rule.          *)
releaseHeartbeat(p) ==
    /\ pc[p] = "state-home" \/ kind[p] = "reloaded"
    /\ hb' = [hb EXCEPT ![p] = "none"]
    /\ UNCHANGED <<proc, zero, disk, locks, used, ghost>>

(* This version loaded over an older generation in one process: no lock, no *)
(* look at the files, two records of which one may not be written.          *)
Reload(p) ==
    /\ pc[p] = "legacy" /\ kind[p] = "older"
    /\ kind' = [kind EXCEPT ![p] = "reloaded"]
    /\ \/ /\ hb' = [hb EXCEPT ![p] = "legacy"]
          /\ zero' = [zero EXCEPT ![p] = TRUE]
          /\ NoFault
       \/ Fault /\ UNCHANGED beats
    /\ UNCHANGED <<pc, finishing, todo, left, disk, locks, ghost>>

(* A save of the account state or the sessions, under the lock beside the   *)
(* file.  In vault mode no account state is written, and an override keeps  *)
(* its account state elsewhere.                                             *)
Write(p, f) ==
    LET there == IF pc[p] = "legacy" THEN old ELSE next
        made  == [there EXCEPT ![f] = writes + 3]
    IN  /\ pc[p] \in Settled /\ writes < MaxWrites
        /\ f = "state" => kind[p] # "override" /\ there["enrol"] \notin VaultStates
        /\ pc[p] = "legacy" => dataLock = NoOne
        /\ writes' = writes + 1
        /\ old'  = IF pc[p] = "legacy" THEN made ELSE old
        /\ next' = IF pc[p] = "legacy" THEN next ELSE made
        /\ live' = (live \ {<<f, there[f]>>}) \cup {<<f, made[f]>>}
        /\ strays' = IF pc[p] = "legacy" /\ marker.on THEN strays \cup {<<f, made[f]>>} ELSE strays
        /\ UNCHANGED <<proc, beats, marker, manifest, temps, locks, starts, faults, calm, enrolled>>

(* An older version's reconcile of an approved state without a token.       *)
Reconcile(p) ==
    /\ pc[p] = "legacy" /\ kind[p] = "older" /\ dataLock = NoOne
    /\ old["enrol"] = "approved" /\ old["token"] = Absent
    /\ old' = [old EXCEPT !["enrol"] = "blocked"]
    /\ UNCHANGED <<proc, beats, next, marker, manifest, temps, locks, used, ghost>>

(* removeMovedVaultStateLeftover, after a Disconnect in the state home.     *)
removeMovedVaultStateLeftover ==
    old' = IF isVaultStateLeftover THEN [old EXCEPT !["enrol"] = Absent] ELSE old

Disconnect(p) ==
    /\ pc[p] = "state-home" /\ kind[p] = "new" /\ next["enrol"] # Absent
    /\ next' = [next EXCEPT !["enrol"] = Absent, !["token"] = Absent]
    /\ removeMovedVaultStateLeftover
    /\ live' = {c \in live : c[1] # "token"}
    /\ enrolled' = FALSE
    /\ UNCHANGED <<proc, beats, marker, manifest, temps, locks, used, strays>>

-----------------------------------------------------------------------------

(* A fresh install, a local one, one in vault mode or about to be; and a    *)
(* local one whose state-home folder holds a file put there by hand.        *)
Nothing == [f \in Files |-> Absent]
Local == [Nothing EXCEPT !["state"] = 1, !["sess"] = 1]
Install ==
    {<<Nothing, Nothing>>, <<Local, Nothing>>, <<Local, [Nothing EXCEPT !["state"] = 2]>>,
     <<[Local EXCEPT !["enrol"] = "pending"], Nothing>>,
     <<[Local EXCEPT !["enrol"] = "approved", !["token"] = 1], Nothing>>}

Init ==
    /\ pc = [p \in Procs |-> "down"] /\ kind = [p \in Procs |-> "new"]
    /\ todo = [p \in Procs |-> {}]
    /\ left = [p \in Procs |-> FALSE] /\ finishing = [p \in Procs |-> FALSE]
    /\ hb = [p \in Procs |-> "none"] /\ zero = [p \in Procs |-> FALSE]
    /\ \E found \in Install : old = found[1] /\ next = found[2]
    /\ marker = NoMarker /\ manifest = Absent /\ temps = FALSE
    /\ lock = NoOne /\ dataLock = NoOne
    /\ starts = 0 /\ writes = 0 /\ faults = 0 /\ calm = NoOne
    /\ live = {c \in (Files \ {"enrol"}) \X {1, 2} : c[2] \in {old[c[1]], next[c[1]]}}
    /\ strays = {}
    /\ enrolled = (old["enrol"] = "approved")

decide(p) ==
    \/ Look(p) \/ TakeLayoutLock(p) \/ LayoutLockFails(p) \/ Branch(p)
    \/ FirstFence(p) \/ takeDataLocks(p) \/ DataLocksFail(p) \/ SecondFence(p)
    \/ copyVerified(p) \/ writeMarker(p)
    \/ unlinkIfIdentical(p) \/ removeOldAtomicTemps(p) \/ Seal(p) \/ removeManifestOwned(p)

Next ==
    \/ Expire
    \/ \E p \in Procs :
        \/ \E k \in Kinds : Start(p, k)
        \/ decide(p) \/ Stop(p) \/ Lapse(p)
        \/ startProcessHeartbeat(p) \/ releaseHeartbeat(p) \/ Reload(p)
        \/ \E f \in {"state", "sess"} : Write(p, f)
        \/ Reconcile(p) \/ Disconnect(p)

Spec == Init /\ [][Next]_vars

-----------------------------------------------------------------------------
(* Properties *)

TypeOK ==
    /\ pc \in [Procs -> Deciding \cup Settled \cup {"down", "refused"}]
    /\ kind \in [Procs -> {"new", "override", "older", "reloaded"}]
    /\ finishing \in [Procs -> BOOLEAN] /\ left \in [Procs -> BOOLEAN]
    /\ hb \in [Procs -> {"none", "older", "legacy"}] /\ zero \in [Procs -> BOOLEAN]
    /\ todo \in [Procs -> SUBSET Ops]
    /\ DOMAIN old = Files /\ DOMAIN next = Files
    /\ \A f \in Files \ {"enrol"} : {old[f], next[f]} \subseteq Nat \cup {Absent}
    /\ {old["enrol"], next["enrol"]} \subseteq VaultStates \cup {"pending", Absent}
    /\ marker \in [on : BOOLEAN, removed : BOOLEAN, kept : VaultStates \cup {Absent}]
    /\ marker.removed => marker.on
    /\ temps \in BOOLEAN
    /\ manifest = Absent \/ manifest \subseteq Files
    /\ {lock, dataLock} \subseteq Procs \cup {NoOne, "stale"}
    /\ {starts, writes, faults} \subseteq Nat /\ calm \in Procs \cup {NoOne}
    /\ {live, strays} \subseteq SUBSET ((Files \ {"enrol"}) \X Nat) /\ enrolled \in BOOLEAN

(* Two processes of this version never use the two layouts at once          *)
(* (decide, with the record written under the layout lock and the fence     *)
(* read under it): each would refresh a credential the other one holds.     *)
NoSplit ==
    \A p, q \in Procs :
        ~(pc[p] = "legacy" /\ kind[p] \in {"new", "override"} /\ pc[q] = "state-home")

(* No content that was written last at its place is gone, whoever crashes   *)
(* where and whatever older version writes: the copies, the comparison      *)
(* before an unlink and the refusal of a foreign file keep it.              *)
NothingLost ==
    \A c \in live : c[2] \in {old[c[1]], next[c[1]]}

(* The layout a start takes next holds the credential and the sessions that *)
(* were written last, unless an older version has since written the old     *)
(* file: no half-made copy is ever served.                                  *)
AuthoritativeIsLive ==
    \A f \in Files \ {"enrol"} :
        LET there == IF marker.on THEN next[f] ELSE old[f]
        IN  /\ there # Absent => <<f, there>> \in live \/ \E c \in strays : c[1] = f
            /\ marker.on /\ there = Absent => \A c \in live : c[1] = f => c \in strays

(* An install in vault mode keeps an enrollment state in the old folder     *)
(* until it disconnects, so that an older version never takes it for a      *)
(* local one (removeOldCopies, keepableVaultState).                         *)
OlderStaysInVault == enrolled => old["enrol"] \in VaultStates

(* A marker that calls the old files dealt with is right about every        *)
(* credential: a later one there was written by an older version.           *)
DoneMeansClean ==
    marker.removed =>
        \A f \in Credentials :
            \/ old[f] = Absent
            \/ <<f, old[f]>> \in strays
            \/ f = "enrol" /\ marker.kept # Absent

(* Whatever crashed before it, a start that nothing disturbs ends in the    *)
(* state home with the move complete and nothing of it left behind, unless  *)
(* it refuses over an old credential or leaves a foreign file alone.        *)
CalmStartCompletesMove ==
    \A p \in Procs : calm = p =>
        /\ pc[p] = "state-home" => marker.removed /\ manifest = Absent /\ ~temps
        /\ pc[p] = "legacy" => foreign # {}
        /\ pc[p] = "refused" => present \cap Credentials # {}

(* The whole of what a start owes to the files, whoever crashed before it   *)
(* (prepareRuntimeLayout).                                                  *)
FilesAreSafe ==
    /\ NothingLost /\ AuthoritativeIsLive /\ OlderStaysInVault
    /\ DoneMeansClean /\ CalmStartCompletesMove

=============================================================================
