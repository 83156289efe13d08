--------------------------- MODULE SharedFilesProofs ---------------------------
(***************************************************************************)
(* Proofs about the files that the processes of a host share.              *)
(*                                                                         *)
(* RuntimeLayout, for any processes and any number of starts, crashes,     *)
(* failures and lapsed leases: two processes of this version never use the *)
(* two layouts at once, and the move keeps every file safe.                *)
(*                                                                         *)
(* Sidebar, for any processes of both OpenCode versions, sessions and      *)
(* accounts and any number of events: what the writers of every mode, with *)
(* their queues and retries, leave in the sidebar file and in their own    *)
(* pins.                                                                   *)
(***************************************************************************)
EXTENDS RuntimeLayout, Sidebar, FilterProofs, TLAPS

(* A process of this version that runs on the old files.                    *)
OnOldFiles(p) == pc[p] = "legacy" /\ kind[p] \in {"new", "override"}

Types ==
    /\ pc \in [Procs -> Deciding \cup Settled \cup {"down", "refused"}]
    /\ kind \in [Procs -> {"new", "override", "older", "reloaded"}]
    /\ finishing \in [Procs -> BOOLEAN]
    /\ hb \in [Procs -> {"none", "older", "legacy"}]
    /\ marker \in [on : BOOLEAN, removed : BOOLEAN, kept : VaultStates \cup {Absent}]
    /\ marker.removed => marker.on

(* The record is there as long as the process is.                           *)
Recorded == \A p \in Procs : OnOldFiles(p) => hb[p] = "legacy"

(* What the holder of the layout lock found is still so.                    *)
HolderIsRight ==
    \A p \in Procs : lock = p =>
        /\ pc[p] \in {"fence", "data", "fence2", "copy"} /\ ~finishing[p] => ~marker.on
        /\ pc[p] = "copy" => ~marker.on /\ \A q \in Procs \ {p} : ~OnOldFiles(q)

(* Whoever is past the marker, or relies on it, has one.                    *)
MarkerStands ==
    \A p \in Procs :
        finishing[p] \/ pc[p] \in {"drop", "seal", "tidy", "state-home"} => marker.on

(* The marker excludes the old files.                                       *)
MarkerExcludes == marker.on => \A p \in Procs : ~OnOldFiles(p)

Inv == Types /\ Recorded /\ HolderIsRight /\ MarkerStands /\ MarkerExcludes

USE LayoutAssumption DEF vars, proc, beats, disk, locks, used, ghost

LEMMA InvInit == Init => Inv
BY DEF Init, Inv, Types, Recorded, HolderIsRight, MarkerStands, MarkerExcludes, OnOldFiles,
   NoMarker, Deciding, Settled

(* A decision that ends in the state home, refused, or on the old files.    *)
LEMMA StateHomeStep ==
  ASSUME Inv, NEW p \in Procs, stateHome(p), marker.on, UNCHANGED marker
  PROVE  Inv'
BY DEF stateHome, Become, Release, Inv, Types, Recorded, HolderIsRight, MarkerStands,
   MarkerExcludes, OnOldFiles, Deciding, Settled

LEMMA RefuseStep ==
  ASSUME Inv, NEW p \in Procs, Refuse(p), UNCHANGED marker
  PROVE  Inv'
BY DEF Refuse, Become, Release, Inv, Types, Recorded, HolderIsRight, MarkerStands,
   MarkerExcludes, OnOldFiles, Deciding, Settled

LEMMA LegacyStep ==
  ASSUME Inv, NEW p \in Procs, legacy(p), ~marker.on, UNCHANGED marker
  PROVE  Inv'
BY DEF legacy, assertOwned, Become, Release, Inv, Types, Recorded, HolderIsRight, MarkerStands,
   MarkerExcludes, OnOldFiles, Deciding, Settled

(* Every way to give up the move or the cleanup keeps the invariant.        *)
LEMMA GiveUpStep ==
  ASSUME Inv, NEW p \in Procs, GiveUp(p), pc[p] \in {"fence", "data", "fence2", "copy"},
         UNCHANGED marker
  PROVE  Inv'
<1>1. CASE finishing[p]
  <2>1. marker.on
    BY <1>1 DEF Inv, MarkerStands
  <2> QED BY <1>1, <2>1, StateHomeStep DEF GiveUp
<1>2. CASE ~finishing[p]
  <2>1. assertOwned(p) => ~marker.on
    BY <1>2 DEF Inv, HolderIsRight, assertOwned
  <2>2. CASE legacy(p)
    BY <2>1, <2>2, LegacyStep DEF legacy
  <2>3. CASE Refuse(p)
    BY <2>3, RefuseStep
  <2> QED BY <1>2, <2>2, <2>3 DEF GiveUp, LegacyOrRefuse, Unrecorded
<1> QED BY <1>1, <1>2

(* A process that only moves on to a later phase of its decision, with the  *)
(* locks, the records and the marker as they were.                          *)
LEMMA OnwardStep ==
  ASSUME Inv, NEW p \in Procs, NEW where \in {"lock", "data", "seal"},
         pc[p] \in {"read", "fence", "drop"},
         where = "lock" => pc[p] = "read",
         where = "data" => pc[p] = "fence",
         where = "seal" => pc[p] = "drop",
         Goto(p, where), UNCHANGED <<kind, finishing, hb, lock, marker>>
  PROVE  Inv'
BY DEF Goto, Inv, Types, Recorded, HolderIsRight, MarkerStands, MarkerExcludes, OnOldFiles,
   Deciding, Settled

(* What a step of a decision does to the invariant, action by action.       *)
LEMMA DecideStep ==
  ASSUME Inv, NEW p \in Procs, decide(p)
  PROVE  Inv'
<1>1. CASE Look(p)
  <2>1. marker.removed => marker.on
    BY DEF Inv, Types
  <2>2. UNCHANGED marker /\ pc[p] = "read"
    BY <1>1 DEF Look
  <2>3. CASE Refuse(p)
    BY <2>2, <2>3, RefuseStep
  <2>4. CASE marker.removed /\ stateHome(p)
    BY <2>1, <2>2, <2>4, StateHomeStep
  <2>5. CASE Goto(p, "lock") /\ UNCHANGED <<kind, finishing, beats, locks>>
    BY <2>2, <2>5, OnwardStep
  <2> QED BY <1>1, <2>3, <2>4, <2>5 DEF Look
<1>2. CASE TakeLayoutLock(p)
  BY <1>2 DEF TakeLayoutLock, Goto, Inv, Types, Recorded, HolderIsRight, MarkerStands,
     MarkerExcludes, OnOldFiles, Deciding, Settled
<1>3. CASE LayoutLockFails(p)
  BY <1>3, StateHomeStep, RefuseStep DEF LayoutLockFails
<1>4. CASE Branch(p)
  <2>1. UNCHANGED marker /\ pc[p] = "held"
    BY <1>4 DEF Branch
  <2>2. CASE /\ finishing' = [finishing EXCEPT ![p] = marker.on]
             /\ Goto(p, "fence")
             /\ UNCHANGED <<kind, beats, locks>>
    BY <2>1, <2>2 DEF Goto, Inv, Types, Recorded, HolderIsRight, MarkerStands,
       MarkerExcludes, OnOldFiles, Deciding, Settled
  <2>3. CASE marker.on /\ stateHome(p)
    BY <2>1, <2>3, StateHomeStep
  <2>4. CASE ~marker.on /\ legacy(p)
    BY <2>1, <2>4, LegacyStep
  <2>5. CASE Refuse(p)
    BY <2>1, <2>5, RefuseStep
  <2> QED BY <1>4, <2>2, <2>3, <2>4, <2>5 DEF Branch, LegacyOrRefuse, Unrecorded
<1>5. CASE FirstFence(p)
  <2>1. UNCHANGED marker /\ pc[p] = "fence"
    BY <1>5 DEF FirstFence
  <2>2. CASE Goto(p, "data") /\ UNCHANGED <<kind, finishing, beats, locks>>
    BY <2>1, <2>2, OnwardStep
  <2>3. CASE GiveUp(p)
    BY <2>1, <2>3, GiveUpStep
  <2> QED BY <1>5, <2>2, <2>3 DEF FirstFence
<1>6. CASE takeDataLocks(p)
  BY <1>6 DEF takeDataLocks, Goto, Inv, Types, Recorded, HolderIsRight, MarkerStands,
     MarkerExcludes, OnOldFiles, Deciding, Settled
<1>7. CASE DataLocksFail(p)
  <2>1. UNCHANGED marker /\ pc[p] = "data"
    BY <1>7 DEF DataLocksFail
  <2>2. CASE finishing[p] /\ stateHome(p)
    <3>1. marker.on
      BY <2>2 DEF Inv, MarkerStands
    <3> QED BY <2>1, <2>2, <3>1, StateHomeStep
  <2>3. CASE ~finishing[p] /\ legacy(p)
    <3>1. ~marker.on
      BY <2>1, <2>3 DEF Inv, HolderIsRight, legacy, assertOwned
    <3> QED BY <2>1, <2>3, <3>1, LegacyStep
  <2>4. CASE Refuse(p)
    BY <2>1, <2>4, RefuseStep
  <2> QED BY <1>7, <2>2, <2>3, <2>4 DEF DataLocksFail, Unrecorded
(* The fence, read under both locks, is what a copy rests on: no other      *)
(* process has a record that says legacy, so none is on the old files.      *)
<1>8. CASE SecondFence(p)
  <2>1. UNCHANGED marker /\ pc[p] = "fence2"
    BY <1>8 DEF SecondFence
  <2>2. CASE GiveUp(p)
    BY <2>1, <2>2, GiveUpStep
  <2>3. CASE /\ fence(p) /\ assertOwned(p) /\ ~finishing[p]
             /\ Goto(p, "copy") /\ UNCHANGED <<kind, finishing, beats, locks>>
    <3>1. \A q \in Procs \ {p} : ~OnOldFiles(q)
      BY <2>3 DEF fence, Alive, OnOldFiles, Inv, Recorded
    <3>2. ~marker.on
      BY <2>1, <2>3 DEF Inv, HolderIsRight, assertOwned
    <3> QED BY <2>1, <2>3, <3>1, <3>2 DEF Goto, Inv, Types, Recorded, HolderIsRight,
            MarkerStands, MarkerExcludes, OnOldFiles, Deciding, Settled
  <2>4. CASE ~finishing[p] /\ legacy(p)
    <3>1. ~marker.on
      BY <2>1, <2>4 DEF Inv, HolderIsRight, legacy, assertOwned
    <3> QED BY <2>1, <2>4, <3>1, LegacyStep
  <2>5. CASE finishing[p] /\ Goto(p, "drop") /\ UNCHANGED <<kind, finishing, beats, locks>>
    BY <2>1, <2>5 DEF Goto, Inv, Types, Recorded, HolderIsRight, MarkerStands,
       MarkerExcludes, OnOldFiles, Deciding, Settled
  <2> QED BY <1>8, <2>2, <2>3, <2>4, <2>5 DEF SecondFence
<1>9. CASE copyVerified(p)
  <2>1. UNCHANGED marker /\ pc[p] = "copy"
    BY <1>9 DEF copyVerified
  <2>2. CASE UNCHANGED <<pc, kind, finishing, beats, locks>>
    BY <2>1, <2>2 DEF Inv, Types, Recorded, HolderIsRight, MarkerStands, MarkerExcludes, OnOldFiles
  <2>3. CASE legacy(p)
    <3>1. ~marker.on
      BY <2>1, <2>3 DEF Inv, HolderIsRight, legacy, assertOwned
    <3> QED BY <2>1, <2>3, <3>1, LegacyStep
  <2>4. CASE Refuse(p)
    BY <2>1, <2>4, RefuseStep
  <2> QED BY <1>9, <2>2, <2>3, <2>4 DEF copyVerified, Unrecorded
(* The marker goes up only while nobody is on the old files.                *)
<1>10. CASE writeMarker(p)
  <2>1. pc[p] = "copy"
    BY <1>10 DEF writeMarker
  <2>2. lock = p => ~marker.on /\ \A q \in Procs : ~OnOldFiles(q)
    BY <2>1 DEF Inv, HolderIsRight, OnOldFiles
  <2>3. CASE /\ assertOwned(p)
             /\ marker' = [on |-> TRUE, removed |-> FALSE, kept |-> keepableVaultState]
             /\ Goto(p, "drop") /\ UNCHANGED <<kind, finishing, beats, locks>>
    BY <2>1, <2>2, <2>3 DEF assertOwned, keepableVaultState, Goto, Inv, Types, Recorded,
       HolderIsRight, MarkerStands, MarkerExcludes, OnOldFiles, Deciding, Settled
  <2>4. CASE /\ assertOwned(p)
             /\ marker' = [on |-> TRUE, removed |-> FALSE, kept |-> keepableVaultState]
             /\ stateHome(p)
    BY <2>1, <2>2, <2>4 DEF assertOwned, keepableVaultState, stateHome, Become, Release, Inv,
       Types, Recorded, HolderIsRight, MarkerStands, MarkerExcludes, OnOldFiles, Deciding, Settled
  <2>5. CASE legacy(p) /\ UNCHANGED marker
    BY <2>2, <2>5, LegacyStep DEF legacy, assertOwned
  <2>6. CASE Refuse(p) /\ UNCHANGED marker
    BY <2>6, RefuseStep
  <2> QED BY <1>10, <2>3, <2>4, <2>5, <2>6 DEF writeMarker, Unrecorded
<1>11. CASE unlinkIfIdentical(p)
  <2>1. UNCHANGED marker /\ pc[p] = "drop"
    BY <1>11 DEF unlinkIfIdentical
  <2>2. marker.on
    BY <2>1 DEF Inv, MarkerStands
  <2>3. ASSUME NEW w \in UpNext(p), Onward(p, w) PROVE Inv'
    BY <2>1, <2>3 DEF Onward, Inv, Types, Recorded, HolderIsRight, MarkerStands, MarkerExcludes,
       OnOldFiles
  <2>4. CASE stateHome(p)
    BY <2>1, <2>2, <2>4, StateHomeStep
  <2>5. CASE Refuse(p)
    BY <2>1, <2>5, RefuseStep
  <2> QED BY <1>11, <2>3, <2>4, <2>5 DEF unlinkIfIdentical
<1>12. CASE removeOldAtomicTemps(p)
  <2>1. UNCHANGED marker /\ pc[p] = "drop"
    BY <1>12 DEF removeOldAtomicTemps
  <2>2. marker.on
    BY <2>1 DEF Inv, MarkerStands
  <2>3. CASE stateHome(p)
    BY <2>1, <2>2, <2>3, StateHomeStep
  <2>4. CASE Goto(p, "seal") /\ UNCHANGED <<kind, finishing, beats, locks>>
    BY <2>1, <2>4, OnwardStep
  <2> QED BY <1>12, <2>3, <2>4 DEF removeOldAtomicTemps
<1>13. CASE Seal(p)
  <2>1. pc[p] = "seal" /\ marker.on
    BY <1>13 DEF Seal, Inv, MarkerStands
  <2>2. CASE /\ marker' = [marker EXCEPT !.removed = TRUE]
             /\ Goto(p, "tidy") /\ UNCHANGED <<kind, finishing, beats, locks>>
    BY <2>1, <2>2 DEF Goto, Inv, Types, Recorded, HolderIsRight, MarkerStands, MarkerExcludes,
       OnOldFiles, Deciding, Settled
  <2>3. CASE stateHome(p) /\ UNCHANGED marker
    BY <2>1, <2>3, StateHomeStep
  <2> QED BY <1>13, <2>2, <2>3 DEF Seal
<1>14. CASE removeManifestOwned(p)
  <2>1. marker.on
    BY <1>14 DEF removeManifestOwned, Inv, MarkerStands
  <2> QED BY <1>14, <2>1, StateHomeStep DEF removeManifestOwned
<1> QED
  BY <1>1, <1>2, <1>3, <1>4, <1>5, <1>6, <1>7, <1>8, <1>9, <1>10, <1>11, <1>12, <1>13, <1>14
  DEF decide

(* Every other step, and the stuttering one.                                *)
LEMMA InvStep == Inv /\ [Next]_vars => Inv'
<1> SUFFICES ASSUME Inv, [Next]_vars PROVE Inv'
  OBVIOUS
<1> USE DEF Inv, Types, Recorded, HolderIsRight, MarkerStands, MarkerExcludes, OnOldFiles
<1>1. CASE UNCHANGED vars
  BY <1>1
<1>2. CASE Expire
  BY <1>2 DEF Expire
<1>3. ASSUME NEW p \in Procs, NEW k \in Kinds, Start(p, k) PROVE Inv'
  BY <1>3 DEF Start, Goto, Deciding, Settled
<1>4. ASSUME NEW p \in Procs, decide(p) PROVE Inv'
  BY <1>4, DecideStep
<1>5. ASSUME NEW p \in Procs, Stop(p) PROVE Inv'
  BY <1>5 DEF Stop, Goto, Alive, Deciding, Settled
<1>6. ASSUME NEW p \in Procs, Lapse(p) PROVE Inv'
  BY <1>6 DEF Lapse, Release
<1>7. ASSUME NEW p \in Procs, startProcessHeartbeat(p) PROVE Inv'
  BY <1>7 DEF startProcessHeartbeat, Settled
<1>8. ASSUME NEW p \in Procs, releaseHeartbeat(p) PROVE Inv'
  BY <1>8 DEF releaseHeartbeat
<1>9. ASSUME NEW p \in Procs, Reload(p) PROVE Inv'
  BY <1>9 DEF Reload
<1>10. ASSUME NEW p \in Procs, NEW f \in {"state", "sess"}, Write(p, f) PROVE Inv'
  BY <1>10 DEF Write
<1>11. ASSUME NEW p \in Procs, Reconcile(p) PROVE Inv'
  BY <1>11 DEF Reconcile
<1>12. ASSUME NEW p \in Procs, Disconnect(p) PROVE Inv'
  BY <1>12 DEF Disconnect
<1> HIDE DEF Inv
<1> QED
  BY <1>1, <1>2, <1>3, <1>4, <1>5, <1>6, <1>7, <1>8, <1>9, <1>10, <1>11, <1>12 DEF Next

(* For any number of processes, starts, crashes and lapsed leases, no       *)
(* process of this version is on the old files while another one is in the  *)
(* state home (decide in runtime-layout.ts): the fence is read under the    *)
(* layout lock, and so is the record of a start on the old files written.   *)
THEOREM OneLayoutAtATime == Spec => []NoSplit
<1>1. Inv => NoSplit
  BY DEF Inv, MarkerStands, MarkerExcludes, OnOldFiles, NoSplit
<1> QED BY <1>1, InvInit, InvStep, PTL DEF Spec

-----------------------------------------------------------------------------
(* What the files hold *)

Folders ==
    {c \in [Files -> Nat \cup VaultStates \cup {"pending", Absent}] :
        /\ \A f \in Files \ {"enrol"} : c[f] \in Nat \cup {Absent}
        /\ c["enrol"] \in VaultStates \cup {"pending", Absent}}

Shape ==
    /\ old \in Folders /\ next \in Folders
    /\ manifest = Absent \/ manifest \in SUBSET Files
    /\ temps \in BOOLEAN /\ enrolled \in BOOLEAN
    /\ lock \in Procs \cup {NoOne, "stale"} /\ dataLock \in Procs \cup {NoOne, "stale"}
    /\ starts \in Nat /\ writes \in Nat /\ faults \in Nat
    /\ calm \in Procs \cup {NoOne}
    /\ live \in SUBSET ((Files \ {"enrol"}) \X Nat)
    /\ strays \in SUBSET ((Files \ {"enrol"}) \X Nat)
    /\ zero \in [Procs -> BOOLEAN]
    /\ left \in [Procs -> BOOLEAN] /\ todo \in [Procs -> SUBSET Ops]

(* Where a process may be while it holds a lock, has operations left, or    *)
(* has seen one fail.                                                       *)
Underway ==
    \A p \in Procs :
        /\ lock = p => pc[p] \in Deciding \ {"read", "lock"}
        /\ dataLock = p => pc[p] \in {"fence2", "copy", "drop", "seal", "tidy"}
        /\ todo[p] # {} => pc[p] \in {"copy", "drop"}
        /\ left[p] => pc[p] = "drop"

(* What is written next differs from what any file holds.                   *)
Fresh ==
    \A f \in Files \ {"enrol"} :
        /\ old[f] # Absent => old[f] < writes + 3
        /\ next[f] # Absent => next[f] < writes + 3

(* Before the marker the old files are what counts, and a copy that an      *)
(* unfinished move listed is either identical or of no account.             *)
Unmoved ==
    ~marker.on =>
        /\ strays = {}
        /\ \A f \in Files \ {"enrol"} :
            /\ old[f] # Absent => <<f, old[f]>> \in live
            /\ f \in listed /\ <<f, next[f]>> \in live => next[f] = old[f]

(* The holder of the layout lock copies only what it listed; as long as the *)
(* data locks are its own too, what it has done is identical.               *)
Copying ==
    \A p \in Procs : lock = p /\ pc[p] = "copy" =>
        /\ foreign = {}
        /\ \A w \in todo[p] : w[2] \in listed
        /\ dataLock = p =>
            /\ \A w \in todo[p] : (w[1] = "copy") = (old[w[2]] # Absent)
            /\ \A f \in Files : next[f] = old[f] \/ \E w \in todo[p] : w[2] = f

(* An old credential that a move need not look at again.                    *)
Cleared(f) ==
    \/ old[f] = Absent
    \/ <<f, old[f]>> \in strays
    \/ f = "enrol" /\ marker.kept # Absent

(* The holder that removes the old files has cleared all but what it has    *)
(* left to do, unless one would not go.                                     *)
Dropping ==
    \A p \in Procs : lock = p /\ pc[p] \in {"drop", "seal", "tidy"} =>
        \A f \in Credentials : Cleared(f) \/ left[p] \/ \E w \in todo[p] : w[2] = f

(* The marker of an install in vault mode names the state it keeps.         *)
KeptInVault == enrolled /\ marker.on => marker.kept # Absent

(* A start that nothing disturbs is alone and never loses a lock.           *)
Alone ==
    \A p \in Procs : calm = p =>
        /\ Alive(p) /\ kind[p] = "new" /\ ~left[p]
        /\ \A q \in Procs \ {p} : ~Alive(q)
        /\ pc[p] \in Deciding \ {"read", "lock"} => lock = p
        /\ pc[p] \in {"fence2", "copy", "drop", "seal", "tidy"} => dataLock = p
        /\ pc[p] \in {"seal", "tidy"} => ~temps
        /\ pc[p] = "tidy" => marker.removed

Content == Fresh /\ Unmoved /\ Copying /\ NothingLost /\ AuthoritativeIsLive
Vault   == KeptInVault /\ OlderStaysInVault
Cleanup == Dropping /\ DoneMeansClean
Calm    == Alone /\ CalmStartCompletesMove

Safe == Inv /\ Shape /\ Underway /\ Content /\ Vault /\ Cleanup /\ Calm

-----------------------------------------------------------------------------
(* Frames *)

(* What a file of a folder may hold, and a folder with one file changed.    *)
LEMMA FolderShape ==
    ASSUME NEW c \in Folders
    PROVE  /\ \A f \in Files \ {"enrol"} : c[f] \in Nat \cup {Absent}
           /\ c["enrol"] \in VaultStates \cup {"pending", Absent}
           /\ \A f \in Files : [c EXCEPT ![f] = Absent] \in Folders
           /\ \A d \in Folders : \A f \in Files : [c EXCEPT ![f] = d[f]] \in Folders
           /\ \A v \in VaultStates : [c EXCEPT !["enrol"] = v] \in Folders
           /\ \A f \in Files \ {"enrol"} : \A v \in Nat : [c EXCEPT ![f] = v] \in Folders
  BY DEF Folders, Files

(* No process gets to a file operation, or loses or gains one.              *)
Standing ==
    \A q \in Procs : lock' = q =>
        /\ pc'[q] = "copy" => lock = q /\ pc[q] = "copy"
        /\ pc'[q] \in {"drop", "seal", "tidy"} => lock = q /\ pc[q] \in {"drop", "seal", "tidy"}
        /\ pc'[q] \in {"copy", "drop", "seal", "tidy"} =>
              todo'[q] = todo[q] /\ left'[q] = left[q] /\ (dataLock' = q => dataLock = q)

Holdings == <<old, next, marker, manifest, writes, ghost>>

(* A decision that has ended, wherever it led.                              *)
Ended(p) ==
    /\ \E where \in {"legacy", "state-home", "refused"} : pc' = [pc EXCEPT ![p] = where]
    /\ todo' = [todo EXCEPT ![p] = {}] /\ left' = [left EXCEPT ![p] = FALSE]
    /\ kind' = kind
    /\ lock' = (IF lock = p THEN NoOne ELSE lock)
    /\ dataLock' = (IF dataLock = p THEN NoOne ELSE dataLock)

LEMMA Endings ==
    ASSUME NEW p \in Procs
    PROVE  /\ stateHome(p) => Ended(p) /\ beats' = beats
           /\ Refuse(p) => Ended(p) /\ beats' = beats
           /\ legacy(p) => Ended(p) /\ hb' = [hb EXCEPT ![p] = "legacy"]
                                  /\ zero' = [zero EXCEPT ![p] = FALSE]
           /\ Unrecorded(p) => Refuse(p)
           /\ LegacyOrRefuse(p) => legacy(p) \/ Refuse(p)
           /\ GiveUp(p) => stateHome(p) \/ legacy(p) \/ Refuse(p)
           /\ LegacyOrRefuse(p) \/ GiveUp(p) \/ NoFault \/ Fault => writes' = writes
  BY DEF stateHome, Refuse, legacy, Unrecorded, LegacyOrRefuse, GiveUp, Ended, Become, Release,
         NoFault, Fault

LEMMA EndedStands ==
    ASSUME Inv, Shape, NEW p \in Procs, Ended(p)
    PROVE  Standing
  BY DEF Ended, Standing, Inv, Types, Shape

(* What a step keeps that only moves a decision on.                         *)
Moved(p, where) ==
    /\ pc' = [pc EXCEPT ![p] = where]
    /\ UNCHANGED <<todo, left, lock, dataLock>>

LEMMA MovedStands ==
    ASSUME Inv, Shape, NEW p \in Procs,
           NEW where \in {"lock", "fence", "data", "seal", "tidy"}, Moved(p, where),
           where \in {"seal", "tidy"} => pc[p] \in {"drop", "seal"}
    PROVE  Standing
  BY DEF Moved, Standing, Inv, Types, Shape

(* Steps after which the files are as they were, and no process is at an    *)
(* operation that was not at it before.                                     *)
Quiet == UNCHANGED Holdings /\ Standing

LEMMA QuietDecisions ==
    ASSUME Inv, Shape, NEW p \in Procs,
           \/ Look(p) \/ TakeLayoutLock(p) \/ LayoutLockFails(p) \/ FirstFence(p)
           \/ takeDataLocks(p) \/ DataLocksFail(p) \/ removeOldAtomicTemps(p)
    PROVE  Quiet
<1>1. CASE Look(p)
  <2>1. CASE Goto(p, "lock") /\ UNCHANGED <<todo, left, locks>>
    BY <2>1, <1>1, MovedStands DEF Goto, Moved, Quiet, Holdings, Look, NoFault, Fault
  <2>2. CASE Ended(p)
    BY <2>2, <1>1, EndedStands DEF Quiet, Holdings, Look, NoFault, Fault
  <2> QED BY <1>1, <2>1, <2>2, Endings DEF Look
<1>2. CASE TakeLayoutLock(p)
  BY <1>2 DEF TakeLayoutLock, Goto, Quiet, Holdings, Standing, Inv, Types, Shape
<1>3. CASE LayoutLockFails(p)
  <2>1. Ended(p)
    BY <1>3, Endings DEF LayoutLockFails
  <2> QED BY <2>1, <1>3, EndedStands DEF Quiet, Holdings, LayoutLockFails, NoFault, Fault
<1>4. CASE FirstFence(p)
  <2>1. CASE Goto(p, "data") /\ UNCHANGED <<todo, left, locks>>
    BY <2>1, <1>4, MovedStands, Endings DEF Goto, Moved, Quiet, Holdings, FirstFence
  <2>2. CASE Ended(p)
    BY <2>2, <1>4, EndedStands, Endings DEF Quiet, Holdings, FirstFence
  <2> QED BY <1>4, <2>1, <2>2, Endings DEF FirstFence
<1>5. CASE takeDataLocks(p)
  BY <1>5 DEF takeDataLocks, NoFault, Goto, Quiet, Holdings, Standing, Inv, Types, Shape
<1>6. CASE DataLocksFail(p)
  <2>1. Ended(p)
    BY <1>6, Endings DEF DataLocksFail
  <2> QED BY <2>1, <1>6, EndedStands DEF Quiet, Holdings, DataLocksFail, NoFault, Fault
<1>7. CASE removeOldAtomicTemps(p)
  <2>1. CASE pc[p] = "drop" /\ Goto(p, "seal") /\ UNCHANGED <<todo, left, locks>>
    BY <2>1, <1>7, MovedStands DEF Goto, Moved, Quiet, Holdings, NoFault, Fault,
       removeOldAtomicTemps
  <2>2. CASE Ended(p)
    BY <2>2, <1>7, EndedStands DEF Quiet, Holdings, NoFault, Fault,
       removeOldAtomicTemps
  <2> QED BY <1>7, <2>1, <2>2, Endings DEF removeOldAtomicTemps
<1> QED BY <1>1, <1>2, <1>3, <1>4, <1>5, <1>6, <1>7

LEMMA QuietProcesses ==
    ASSUME Inv, Shape, NEW p \in Procs,
           \/ Expire \/ (\E k \in Kinds : Start(p, k)) \/ Stop(p) \/ Lapse(p)
           \/ startProcessHeartbeat(p) \/ releaseHeartbeat(p) \/ Reload(p)
    PROVE  Quiet
<1>1. CASE Expire
  BY <1>1 DEF Expire, Quiet, Holdings, Standing, Inv, Types, Shape
<1>2. ASSUME NEW k \in Kinds, Start(p, k) PROVE Quiet
  BY <1>2 DEF Start, Goto, Quiet, Holdings, Standing, Inv, Types, Shape
<1>3. CASE Stop(p)
  BY <1>3 DEF Stop, Goto, Quiet, Holdings, Standing, Inv, Types, Shape
<1>4. CASE Lapse(p)
  BY <1>4 DEF Lapse, Release, Fault, Quiet, Holdings, Standing, Inv, Types, Shape
<1>5. CASE startProcessHeartbeat(p)
  BY <1>5 DEF startProcessHeartbeat, Quiet, Holdings, Standing
<1>6. CASE releaseHeartbeat(p)
  BY <1>6 DEF releaseHeartbeat, Quiet, Holdings, Standing
<1>7. CASE Reload(p)
  BY <1>7 DEF Reload, NoFault, Fault, Quiet, Holdings, Standing
<1> QED BY <1>1, <1>2, <1>3, <1>4, <1>5, <1>6, <1>7

(* Steps that at most remove the list of a move whose marker stands.        *)
Tidied ==
    /\ UNCHANGED <<old, next, marker, writes, ghost>> /\ Standing
    /\ \/ manifest' = manifest
       \/ manifest' = Absent /\ marker.on /\ \E p \in Procs : lock = p /\ pc[p] # "copy"

LEMMA TidyingSteps ==
    ASSUME Inv, Shape, NEW p \in Procs, Branch(p) \/ removeManifestOwned(p)
    PROVE  Tidied
<1>1. CASE Branch(p)
  <2>1. CASE Goto(p, "fence") /\ UNCHANGED <<todo, left, locks, manifest>>
    BY <2>1, <1>1, MovedStands, Endings DEF Goto, Moved, Tidied, Branch
  <2>2. CASE Ended(p)
    BY <2>2, <1>1, EndedStands, Endings DEF Tidied, Branch, assertOwned
  <2> QED BY <1>1, <2>1, <2>2, Endings DEF Branch
<1>2. CASE removeManifestOwned(p)
  <2>1. Ended(p) /\ marker.on
    BY <1>2, Endings DEF removeManifestOwned, Inv, MarkerStands
  <2> QED BY <2>1, <1>2, EndedStands DEF Tidied, removeManifestOwned, Fault, NoFault, assertOwned
<1> QED BY <1>1, <1>2

(* The steps that touch a file, the list or the marker, or set out to.      *)
PlansCopies(p) ==
    /\ pc[p] = "fence2" /\ lock = p /\ ~finishing[p] /\ foreign = {}
    /\ manifest' = listed \cup present
    /\ pc' = [pc EXCEPT ![p] = "copy"]
    /\ todo' = [todo EXCEPT ![p] = ({"unlink"} \X (listed \ present)) \cup ({"copy"} \X present)]
    /\ UNCHANGED <<kind, left, locks, old, next, marker, writes, ghost>>

PlansDrops(p) ==
    /\ pc[p] = "fence2" /\ lock = p
    /\ pc' = [pc EXCEPT ![p] = "drop"]
    /\ todo' = [todo EXCEPT ![p] = IF marker.removed THEN {} ELSE {"drop"} \X present]
    /\ UNCHANGED <<kind, left, locks, Holdings>>

CopiesOne(p, w) ==
    /\ pc[p] = "copy" /\ lock = p /\ w \in todo[p]
    /\ next' = [next EXCEPT ![w[2]] = IF w[1] = "copy" THEN old[w[2]] ELSE Absent]
    /\ todo' = [todo EXCEPT ![p] = @ \ {w}]
    /\ UNCHANGED <<pc, kind, left, locks, old, marker, manifest, writes, ghost>>

Marks(p) ==
    /\ pc[p] = "copy" /\ lock = p /\ dataLock = p /\ todo[p] = {}
    /\ marker' = [on |-> TRUE, removed |-> FALSE, kept |-> keepableVaultState]
    /\ \/ /\ pc' = [pc EXCEPT ![p] = "drop"]
          /\ todo' = [todo EXCEPT ![p] = {"drop"} \X present]
          /\ UNCHANGED <<kind, left, locks>>
       \/ Ended(p)
    /\ UNCHANGED <<old, next, manifest, writes, ghost>>

DropsOne(p, w) ==
    /\ pc[p] = "drop" /\ lock = p /\ w \in todo[p]
    /\ todo' = [todo EXCEPT ![p] = @ \ {w}]
    /\ \/ /\ Stays(p, w[2]) \/ old[w[2]] = Absent \/ w[2] \notin Credentials
          /\ UNCHANGED <<left, old>>
       \/ /\ ~Stays(p, w[2]) /\ old[w[2]] = next[w[2]]
          /\ old' = [old EXCEPT ![w[2]] = Absent]
          /\ UNCHANGED left
       \/ /\ left' = [left EXCEPT ![p] = @ \/ w[2] \in Credentials]
          /\ UNCHANGED old
    /\ UNCHANGED <<pc, kind, locks, next, marker, manifest, writes, ghost>>

Seals(p) ==
    /\ pc[p] = "seal" /\ lock = p
    /\ marker' = [marker EXCEPT !.removed = TRUE]
    /\ pc' = [pc EXCEPT ![p] = "tidy"]
    /\ UNCHANGED <<kind, left, todo, locks, old, next, manifest, writes, ghost>>

LEMMA QuietTidies == Quiet => Tidied
  BY DEF Quiet, Tidied, Holdings

(* A decision that ends without having touched a file.                      *)
LEMMA EndedQuiet ==
    ASSUME Inv, Shape, NEW p \in Procs, Ended(p), UNCHANGED Holdings
    PROVE  Quiet
  BY EndedStands DEF Quiet

LEMMA DecisionCases ==
    ASSUME Inv, Shape, NEW p \in Procs, decide(p)
    PROVE  \/ Tidied \/ PlansCopies(p) \/ PlansDrops(p) \/ Marks(p) \/ Seals(p)
           \/ \E w \in todo[p] : CopiesOne(p, w) \/ DropsOne(p, w)
<1>1. ASSUME \/ Look(p) \/ TakeLayoutLock(p) \/ LayoutLockFails(p) \/ FirstFence(p)
             \/ takeDataLocks(p) \/ DataLocksFail(p) \/ removeOldAtomicTemps(p)
      PROVE  Tidied
  BY <1>1, QuietDecisions, QuietTidies
<1>2. ASSUME Branch(p) \/ removeManifestOwned(p) PROVE Tidied
  BY <1>2, TidyingSteps
<1>3. CASE SecondFence(p)
  <2>1. CASE Ended(p) /\ UNCHANGED <<manifest, writes>>
    <3>1. UNCHANGED Holdings
      BY <1>3, <2>1 DEF SecondFence, Holdings
    <3> QED BY <2>1, <3>1, EndedQuiet, QuietTidies
  <2>2. CASE /\ fence(p) /\ assertOwned(p) /\ ~finishing[p] /\ foreign = {}
             /\ manifest' = listed \cup present
             /\ todo' = [todo EXCEPT ![p] = ({"unlink"} \X (listed \ present))
                                               \cup ({"copy"} \X present)]
             /\ Goto(p, "copy") /\ NoFault /\ UNCHANGED <<kind, left, locks>>
    BY <1>3, <2>2 DEF SecondFence, PlansCopies, assertOwned, Goto, NoFault
  <2>3. CASE /\ fence(p) /\ assertOwned(p) /\ finishing[p]
             /\ todo' = [todo EXCEPT ![p] = IF marker.removed THEN {} ELSE {"drop"} \X present]
             /\ Goto(p, "drop") /\ NoFault /\ UNCHANGED <<kind, left, locks, manifest>>
    BY <1>3, <2>3 DEF SecondFence, PlansDrops, Holdings, assertOwned, Goto, NoFault
  <2> QED BY <1>3, <2>1, <2>2, <2>3, Endings DEF SecondFence
<1>4. CASE copyVerified(p)
  <2>1. PICK w \in UpNext(p) :
           \/ /\ assertOwned(p)
              /\ next' = [next EXCEPT ![w[2]] = IF w[1] = "copy" THEN old[w[2]] ELSE Absent]
              /\ todo' = [todo EXCEPT ![p] = @ \ {w}]
              /\ NoFault /\ UNCHANGED <<pc, kind, finishing, left, beats, locks>>
           \/ NoFault /\ Unrecorded(p) /\ UNCHANGED next
           \/ Fault /\ legacy(p) /\ UNCHANGED next
    BY <1>4 DEF copyVerified
  <2>2. CASE Ended(p) /\ UNCHANGED <<next, writes>>
    <3>1. UNCHANGED Holdings
      BY <1>4, <2>2 DEF copyVerified, Holdings
    <3> QED BY <2>2, <3>1, EndedQuiet, QuietTidies
  <2>3. CASE /\ assertOwned(p)
             /\ next' = [next EXCEPT ![w[2]] = IF w[1] = "copy" THEN old[w[2]] ELSE Absent]
             /\ todo' = [todo EXCEPT ![p] = @ \ {w}]
             /\ NoFault /\ UNCHANGED <<pc, kind, left, locks>>
    <3>1. w \in todo[p]
      BY DEF UpNext
    <3> QED BY <1>4, <2>3, <3>1 DEF copyVerified, CopiesOne, assertOwned, NoFault
  <2> QED BY <2>1, <2>2, <2>3, Endings
<1>5. CASE writeMarker(p)
  <2>1. CASE Ended(p) /\ UNCHANGED <<marker, writes>>
    <3>1. UNCHANGED Holdings
      BY <1>5, <2>1 DEF writeMarker, Holdings
    <3> QED BY <2>1, <3>1, EndedQuiet, QuietTidies
  <2>2. CASE /\ assertOwned(p) /\ dataLock = p
             /\ marker' = [on |-> TRUE, removed |-> FALSE, kept |-> keepableVaultState]
             /\ \/ /\ Goto(p, "drop")
                   /\ todo' = [todo EXCEPT ![p] = {"drop"} \X present]
                   /\ NoFault /\ UNCHANGED <<kind, left, locks>>
                \/ Fault /\ Ended(p)
    <3>1. writes' = writes
      BY <2>2, Endings
    <3> QED BY <1>5, <2>2, <3>1 DEF writeMarker, Marks, assertOwned, Goto
  <2> QED BY <1>5, <2>1, <2>2, Endings DEF writeMarker
<1>6. CASE unlinkIfIdentical(p)
  <2>1. PICK w \in UpNext(p) :
           \/ ~assertOwned(p) /\ NoFault /\ stateHome(p) /\ UNCHANGED old
           \/ /\ assertOwned(p)
              /\ Stays(p, w[2]) \/ old[w[2]] = Absent \/ (w[2] \notin Credentials /\ ~same(w[2]))
              /\ Onward(p, w) /\ NoFault /\ UNCHANGED <<left, old>>
           \/ /\ assertOwned(p) /\ ~Stays(p, w[2]) /\ old[w[2]] # Absent /\ same(w[2])
              /\ old' = [old EXCEPT ![w[2]] = Absent]
              /\ Onward(p, w) /\ NoFault /\ UNCHANGED left
           \/ /\ assertOwned(p) /\ ~Stays(p, w[2]) /\ old[w[2]] # Absent
              /\ left' = [left EXCEPT ![p] = @ \/ w[2] \in Credentials]
              /\ Onward(p, w) /\ Fault /\ UNCHANGED old
           \/ Refuse(p) /\ NoFault /\ UNCHANGED old
    BY <1>6 DEF unlinkIfIdentical
  <2>2. w \in todo[p] /\ writes' = writes
    BY <2>1, Endings DEF UpNext
  <2>3. CASE Ended(p) /\ UNCHANGED old
    <3>1. UNCHANGED Holdings
      BY <1>6, <2>2, <2>3 DEF unlinkIfIdentical, Holdings, ghost
    <3> QED BY <2>3, <3>1, EndedQuiet, QuietTidies
  <2>4. CASE assertOwned(p) /\ Onward(p, w)
    <3>1. /\ pc[p] = "drop" /\ lock = p
          /\ UNCHANGED <<pc, kind, locks, next, marker, manifest, writes, ghost>>
          /\ todo' = [todo EXCEPT ![p] = @ \ {w}]
      BY <1>6, <2>2, <2>4 DEF unlinkIfIdentical, Onward, assertOwned
    <3>2. DropsOne(p, w) \/ (Ended(p) /\ UNCHANGED old)
      BY <2>1, <2>2, <3>1, Endings DEF DropsOne, same
    <3> QED BY <2>2, <2>3, <3>2
  <2> QED BY <2>1, <2>3, <2>4, Endings
<1>7. CASE Seal(p)
  <2>1. CASE Ended(p) /\ UNCHANGED <<marker, writes>>
    <3>1. UNCHANGED Holdings
      BY <1>7, <2>1 DEF Seal, Holdings
    <3> QED BY <2>1, <3>1, EndedQuiet, QuietTidies
  <2>2. CASE /\ assertOwned(p)
             /\ marker' = [marker EXCEPT !.removed = TRUE]
             /\ Goto(p, "tidy")
             /\ NoFault /\ UNCHANGED <<kind, todo, left, locks>>
    BY <1>7, <2>2 DEF Seal, Seals, assertOwned, Goto, NoFault
  <2> QED BY <1>7, <2>1, <2>2, Endings DEF Seal
<1> QED BY <1>1, <1>2, <1>3, <1>4, <1>5, <1>6, <1>7 DEF decide

-----------------------------------------------------------------------------
(* The types, and who may hold what *)

LEMMA SafeInit == Init => Safe
<1> SUFFICES ASSUME Init PROVE Safe
  OBVIOUS
<1>1. PICK found \in Install : old = found[1] /\ next = found[2]
  BY DEF Init
<1>2. old \in Folders /\ next \in Folders
  BY <1>1 DEF Install, Local, Nothing, Folders, Files, VaultStates
<1>3. Shape /\ Underway
  <2>1. live \in SUBSET ((Files \ {"enrol"}) \X Nat) /\ enrolled \in BOOLEAN
    BY DEF Init
  <2>2. todo \in [Procs -> SUBSET Ops] /\ left \in [Procs -> BOOLEAN] /\ zero \in [Procs -> BOOLEAN]
    BY DEF Init
  <2>3. Underway
    BY DEF Init, Underway
  <2> QED BY <1>2, <2>1, <2>2, <2>3 DEF Init, Shape
<1>4. Content
  <2>1. \A f \in Files \ {"enrol"} : old[f] \in {1, Absent} /\ next[f] \in {2, Absent}
    BY <1>1 DEF Install, Local, Nothing, Files
  <2> QED BY <2>1, AbsentAssumption DEF Init, Content, Fresh, Unmoved, Copying, NothingLost,
             AuthoritativeIsLive, NoMarker, listed
<1>5. Vault /\ Cleanup /\ Calm
  BY AbsentAssumption DEF Init, Vault, KeptInVault, OlderStaysInVault, Cleanup, Dropping, DoneMeansClean,
     Calm, Alone, CalmStartCompletesMove, NoMarker, VaultStates
<1> QED BY <1>3, <1>4, <1>5, InvInit DEF Safe

(* Of a decision: what it leaves of the bookkeeping.                        *)
LEMMA EndedShape ==
    ASSUME Shape, NEW p \in Procs, Ended(p)
    PROVE  /\ lock' \in Procs \cup {NoOne, "stale"} /\ dataLock' \in Procs \cup {NoOne, "stale"}
           /\ left' \in [Procs -> BOOLEAN] /\ todo' \in [Procs -> SUBSET Ops]
  BY DEF Ended, Shape

LEMMA FaultShape ==
    ASSUME Shape, NoFault \/ Fault
    PROVE  starts' \in Nat /\ writes' \in Nat /\ faults' \in Nat /\ calm' \in Procs \cup {NoOne}
  BY DEF Shape, NoFault, Fault

LEMMA Counted ==
    ASSUME NEW p \in Procs, decide(p)
    PROVE  (NoFault \/ Fault) /\ (zero' = zero \/ zero' = [zero EXCEPT ![p] = FALSE])
<1>1. GiveUp(p) \/ LegacyOrRefuse(p) => NoFault \/ Fault
  BY DEF GiveUp, LegacyOrRefuse
<1>2. stateHome(p) \/ Refuse(p) \/ legacy(p) \/ GiveUp(p) \/ LegacyOrRefuse(p) \/ Unrecorded(p)
        => zero' = zero \/ zero' = [zero EXCEPT ![p] = FALSE]
  BY Endings
<1>3. CASE Look(p) \/ TakeLayoutLock(p) \/ LayoutLockFails(p) \/ Branch(p)
  BY <1>1, <1>2, <1>3 DEF Look, TakeLayoutLock, LayoutLockFails, Branch, NoFault
<1>4. CASE FirstFence(p) \/ takeDataLocks(p) \/ DataLocksFail(p) \/ SecondFence(p)
  BY <1>1, <1>2, <1>4 DEF FirstFence, takeDataLocks, DataLocksFail, SecondFence
<1>5. CASE copyVerified(p) \/ writeMarker(p)
  BY <1>1, <1>2, <1>5 DEF copyVerified, writeMarker
<1>6. CASE unlinkIfIdentical(p)
  BY <1>1, <1>2, <1>6 DEF unlinkIfIdentical, Onward
<1>7. CASE removeOldAtomicTemps(p) \/ Seal(p) \/ removeManifestOwned(p)
  BY <1>1, <1>2, <1>7 DEF removeOldAtomicTemps, Seal, removeManifestOwned
<1> QED BY <1>3, <1>4, <1>5, <1>6, <1>7 DEF decide

(* What a decision leaves of the locks and of what is still to do.          *)
LEMMA DecisionBooks ==
    ASSUME Shape, NEW p \in Procs, decide(p)
    PROVE  /\ lock' \in Procs \cup {NoOne, "stale"} /\ dataLock' \in Procs \cup {NoOne, "stale"}
           /\ left' \in [Procs -> BOOLEAN] /\ todo' \in [Procs -> SUBSET Ops]
           /\ temps' \in BOOLEAN
<1> DEFINE Goal == /\ lock' \in Procs \cup {NoOne, "stale"} /\ dataLock' \in Procs \cup {NoOne, "stale"}
                   /\ left' \in [Procs -> BOOLEAN] /\ todo' \in [Procs -> SUBSET Ops]
<1>1. Ended(p) => Goal
  BY EndedShape
<1>2. UNCHANGED <<todo, left, lock, dataLock>> => Goal
  BY DEF Shape
<1>3. {"drop"} \X present \in SUBSET Ops /\ {} \in SUBSET Ops
      /\ ({"unlink"} \X (listed \ present)) \cup ({"copy"} \X present) \in SUBSET Ops
  BY DEF Shape, Ops, present, listed
<1>4. CASE Look(p) \/ LayoutLockFails(p) \/ Branch(p) \/ FirstFence(p) \/ DataLocksFail(p)
  <2>1. Ended(p) \/ UNCHANGED <<todo, left, lock, dataLock>>
    BY <1>4, Endings DEF Look, LayoutLockFails, Branch, FirstFence, DataLocksFail
  <2>2. temps' = temps
    BY <1>4 DEF Look, LayoutLockFails, Branch, FirstFence, DataLocksFail
  <2> QED BY <1>1, <1>2, <2>1, <2>2 DEF Shape
<1>5. CASE TakeLayoutLock(p) \/ takeDataLocks(p)
  BY <1>5 DEF TakeLayoutLock, takeDataLocks, Shape
<1>6. CASE SecondFence(p)
  <2>1. temps' = temps
    BY <1>6 DEF SecondFence
  <2>2. \/ Ended(p)
        \/ /\ UNCHANGED <<left, lock, dataLock>>
           /\ \E T \in SUBSET Ops : todo' = [todo EXCEPT ![p] = T]
    BY <1>3, <1>6, Endings DEF SecondFence
  <2>3. ASSUME NEW T \in SUBSET Ops, todo' = [todo EXCEPT ![p] = T]
        PROVE  todo' \in [Procs -> SUBSET Ops]
    BY <2>3 DEF Shape
  <2> QED BY <1>1, <2>1, <2>2, <2>3 DEF Shape
<1>7. CASE copyVerified(p)
  <2>1. temps' = temps
    BY <1>7 DEF copyVerified
  <2>2. \/ Ended(p)
        \/ /\ UNCHANGED <<left, lock, dataLock>>
           /\ \E w \in UpNext(p) : todo' = [todo EXCEPT ![p] = @ \ {w}]
    BY <1>7, Endings DEF copyVerified
  <2> QED BY <1>1, <2>1, <2>2 DEF Shape
<1>8. CASE writeMarker(p)
  <2>1. temps' = temps
    BY <1>8 DEF writeMarker
  <2>2. \/ Ended(p)
        \/ /\ UNCHANGED <<left, lock, dataLock>>
           /\ todo' = [todo EXCEPT ![p] = {"drop"} \X present]
    BY <1>8, Endings DEF writeMarker
  <2> QED BY <1>1, <1>3, <2>1, <2>2 DEF Shape
<1>9. CASE unlinkIfIdentical(p)
  <2>1. temps' = temps
    BY <1>9 DEF unlinkIfIdentical
  <2>2. \/ Ended(p)
        \/ /\ UNCHANGED <<lock, dataLock>>
           /\ left' = left \/ \E b \in BOOLEAN : left' = [left EXCEPT ![p] = @ \/ b]
           /\ \E w \in UpNext(p) : todo' = [todo EXCEPT ![p] = @ \ {w}]
    BY <1>9, Endings DEF unlinkIfIdentical, Onward
  <2>3. ASSUME NEW b \in BOOLEAN, left' = [left EXCEPT ![p] = @ \/ b]
        PROVE  left' \in [Procs -> BOOLEAN]
    BY <2>3 DEF Shape
  <2> QED BY <1>1, <2>1, <2>2, <2>3 DEF Shape
<1>10. CASE removeOldAtomicTemps(p) \/ Seal(p) \/ removeManifestOwned(p)
  <2>1. temps' = temps \/ temps' = FALSE
    BY <1>10 DEF removeOldAtomicTemps, Seal, removeManifestOwned
  <2>2. Ended(p) \/ UNCHANGED <<todo, left, lock, dataLock>>
    BY <1>10, Endings DEF removeOldAtomicTemps, Seal, removeManifestOwned
  <2> QED BY <1>1, <1>2, <2>1, <2>2 DEF Shape
<1> QED BY <1>4, <1>5, <1>6, <1>7, <1>8, <1>9, <1>10 DEF decide

LEMMA ShapeStep == Inv /\ Shape /\ [Next]_vars => Shape'
<1> SUFFICES ASSUME Inv, Shape, [Next]_vars PROVE Shape'
  OBVIOUS
<1>1. CASE UNCHANGED vars
  BY <1>1 DEF Shape
<1>2. CASE Expire
  BY <1>2 DEF Expire, Shape
<1>3. ASSUME NEW p \in Procs, NEW k \in Kinds, Start(p, k) PROVE Shape'
  BY <1>3 DEF Start, Shape
<1>4. ASSUME NEW p \in Procs, decide(p) PROVE Shape'
  <2>1. /\ starts' \in Nat /\ writes' \in Nat /\ faults' \in Nat
        /\ calm' \in Procs \cup {NoOne} /\ zero' \in [Procs -> BOOLEAN]
    BY <1>4, Counted, FaultShape DEF Shape
  <2>2. /\ old' \in Folders /\ next' \in Folders
        /\ manifest' = Absent \/ manifest' \in SUBSET Files
        /\ UNCHANGED ghost
    <3>1. CASE Tidied
      BY <3>1 DEF Tidied, Shape
    <3>2. CASE PlansCopies(p)
      BY <3>2 DEF PlansCopies, Shape, listed, present
    <3>3. CASE PlansDrops(p)
      BY <3>3 DEF PlansDrops, Holdings, Shape
    <3>4. CASE Marks(p)
      BY <3>4 DEF Marks, Shape
    <3>5. CASE Seals(p)
      BY <3>5 DEF Seals, Shape
    <3>6. ASSUME NEW w \in todo[p], CopiesOne(p, w) \/ DropsOne(p, w)
          PROVE  /\ old' \in Folders /\ next' \in Folders
                 /\ UNCHANGED <<manifest, ghost>>
      <4>1. w[2] \in Files /\ old \in Folders /\ next \in Folders
        BY DEF Shape, Ops
      <4>2. CASE CopiesOne(p, w)
        BY <4>1, <4>2, FolderShape DEF CopiesOne
      <4>3. CASE DropsOne(p, w)
        BY <4>1, <4>3, FolderShape DEF DropsOne
      <4> QED BY <3>6, <4>2, <4>3
    <3> QED BY <1>4, <3>1, <3>2, <3>3, <3>4, <3>5, <3>6, DecisionCases DEF Shape
  <2> QED BY <1>4, <2>1, <2>2, DecisionBooks DEF Shape
<1>5. ASSUME NEW p \in Procs, Stop(p) PROVE Shape'
  BY <1>5 DEF Stop, Shape
<1>6. ASSUME NEW p \in Procs, Lapse(p) PROVE Shape'
  BY <1>6 DEF Lapse, Fault, Release, Shape
<1>7. ASSUME NEW p \in Procs, startProcessHeartbeat(p) \/ releaseHeartbeat(p) PROVE Shape'
  BY <1>7 DEF startProcessHeartbeat, releaseHeartbeat, Shape
<1>8. ASSUME NEW p \in Procs, Reload(p) PROVE Shape'
  <2>1. zero' \in [Procs -> BOOLEAN]
    BY <1>8 DEF Reload, Shape
  <2>2. /\ starts' \in Nat /\ writes' \in Nat /\ faults' \in Nat
        /\ calm' \in Procs \cup {NoOne}
    BY <1>8, FaultShape DEF Reload
  <2> QED BY <1>8, <2>1, <2>2 DEF Reload, Shape
<1>9. ASSUME NEW p \in Procs, NEW f \in {"state", "sess"}, Write(p, f) PROVE Shape'
  <2>1. f \in Files \ {"enrol"} /\ writes + 3 \in Nat
    BY DEF Files, Shape
  <2>2. old' \in Folders /\ next' \in Folders
    BY <1>9, <2>1, FolderShape DEF Write, Shape
  <2>3. live' \in SUBSET ((Files \ {"enrol"}) \X Nat) /\ strays' \in SUBSET ((Files \ {"enrol"}) \X Nat)
    <3>1. (IF pc[p] = "legacy" THEN old ELSE next) \in Folders
      BY DEF Shape
    <3>2. [(IF pc[p] = "legacy" THEN old ELSE next) EXCEPT ![f] = writes + 3][f] = writes + 3
      BY <2>1, <3>1 DEF Folders
    <3> QED BY <1>9, <2>1, <3>2 DEF Write, Shape
  <2> QED BY <1>9, <2>2, <2>3 DEF Write, Shape
<1>10. ASSUME NEW p \in Procs, Reconcile(p) PROVE Shape'
  <2>1. old' \in Folders
    BY <1>10, FolderShape DEF Reconcile, Shape, VaultStates
  <2> QED BY <1>10, <2>1 DEF Reconcile, Shape
<1>11. ASSUME NEW p \in Procs, Disconnect(p) PROVE Shape'
  <2>1. old' \in Folders
    BY <1>11, FolderShape DEF Disconnect, removeMovedVaultStateLeftover, Shape, Files
  <2>2. next' \in Folders
    <3>1. [next EXCEPT !["enrol"] = Absent] \in Folders
      BY FolderShape DEF Shape, Files
    <3>2. [[next EXCEPT !["enrol"] = Absent] EXCEPT !["token"] = Absent] \in Folders
      BY <3>1, FolderShape DEF Files
    <3> QED BY <1>11, <3>2 DEF Disconnect
  <2> QED BY <1>11, <2>1, <2>2 DEF Disconnect, Shape
<1> QED
  BY <1>1, <1>2, <1>3, <1>4, <1>5, <1>6, <1>7, <1>8, <1>9, <1>10, <1>11 DEF Next

LEMMA UnderwayStep == Inv /\ Shape /\ Underway /\ [Next]_vars => Underway'
<1> SUFFICES ASSUME Inv, Shape, Underway, [Next]_vars PROVE Underway'
  OBVIOUS
<1>1. CASE UNCHANGED vars
  BY <1>1 DEF Underway
<1>2. CASE Expire
  BY <1>2 DEF Expire, Underway, Shape
<1>3. ASSUME NEW p \in Procs, NEW k \in Kinds, Start(p, k) PROVE Underway'
  BY <1>3 DEF Start, Goto, Underway, Shape, Inv, Types, Deciding
<1>4. ASSUME NEW p \in Procs, decide(p) PROVE Underway'
  <2>1. CASE Ended(p)
    BY <2>1 DEF Ended, Underway, Shape, Inv, Types
  <2>2. ASSUME NEW here \in Deciding, NEW where \in Deciding \ {"read"}, Moved(p, where),
               pc[p] = here, todo[p] = {}, ~left[p],
               here = "read" <=> where = "lock",
               here = "drop" => where \in {"drop", "seal"}, here = "seal" => where = "tidy",
               here \in {"read", "held", "fence", "drop", "seal"}
        PROVE  Underway'
    BY <2>2 DEF Moved, Underway, Shape, Inv, Types, Deciding
  <2>3. CASE Look(p) \/ LayoutLockFails(p) \/ Branch(p)
    <3>1. \/ Ended(p)
          \/ /\ pc[p] = "read" /\ Moved(p, "lock")
          \/ /\ pc[p] = "held" /\ Moved(p, "fence")
      BY <2>3, Endings DEF Look, LayoutLockFails, Branch, Goto, Moved
    <3> QED BY <2>1, <2>2, <3>1 DEF Underway, Deciding
  <2>4. CASE FirstFence(p) \/ DataLocksFail(p)
    <3>1. Ended(p) \/ (pc[p] = "fence" /\ Moved(p, "data"))
      BY <2>4, Endings DEF FirstFence, DataLocksFail, Goto, Moved
    <3> QED BY <2>1, <2>2, <3>1 DEF Underway, Deciding
  <2>5. CASE removeOldAtomicTemps(p) \/ Seal(p) \/ removeManifestOwned(p)
    <3>1. \/ Ended(p)
          \/ /\ pc[p] = "drop" /\ todo[p] = {} /\ ~left[p] /\ Moved(p, "seal")
          \/ /\ pc[p] = "seal" /\ Moved(p, "tidy")
      BY <2>5, Endings DEF removeOldAtomicTemps, Seal, removeManifestOwned, Goto, Moved
    <3> QED BY <2>1, <2>2, <3>1 DEF Underway, Deciding
  <2>6. CASE TakeLayoutLock(p)
    BY <2>6 DEF TakeLayoutLock, Goto, Underway, Shape, Inv, Types, Deciding
  <2>7. CASE takeDataLocks(p)
    BY <2>7 DEF takeDataLocks, Goto, Underway, Shape, Inv, Types, Deciding
  <2>8. CASE SecondFence(p)
    <3>1. \/ Ended(p)
          \/ /\ pc[p] = "fence2" /\ UNCHANGED <<left, locks>>
             /\ \E where \in {"copy", "drop"} : pc' = [pc EXCEPT ![p] = where]
             /\ \A q \in Procs \ {p} : todo'[q] = todo[q]
      BY <2>8, Endings DEF SecondFence, Goto, Shape
    <3> QED BY <2>1, <3>1 DEF Underway, Shape, Inv, Types, Deciding
  <2>9. CASE copyVerified(p) \/ writeMarker(p) \/ unlinkIfIdentical(p)
    <3>1. \/ Ended(p)
          \/ /\ pc[p] \in {"copy", "drop"} /\ UNCHANGED locks
             /\ pc' = pc \/ (left' = left /\ pc[p] = "copy" /\ pc' = [pc EXCEPT ![p] = "drop"])
             /\ left' = left \/ (pc[p] = "drop" /\ \A q \in Procs \ {p} : left'[q] = left[q])
             /\ \A q \in Procs \ {p} : todo'[q] = todo[q]
      BY <2>9, Endings DEF copyVerified, writeMarker, unlinkIfIdentical, Goto, Onward, Shape
    <3> QED BY <2>1, <3>1 DEF Underway, Shape, Inv, Types, Deciding
  <2> QED BY <1>4, <2>3, <2>4, <2>5, <2>6, <2>7, <2>8, <2>9 DEF decide
<1>5. ASSUME NEW p \in Procs, Stop(p) PROVE Underway'
  BY <1>5 DEF Stop, Goto, Underway, Shape, Inv, Types
<1>6. ASSUME NEW p \in Procs, Lapse(p) PROVE Underway'
  BY <1>6 DEF Lapse, Release, Underway, Shape
<1>7. ASSUME NEW p \in Procs,
             \/ startProcessHeartbeat(p) \/ releaseHeartbeat(p) \/ Reload(p)
             \/ (\E f \in {"state", "sess"} : Write(p, f)) \/ Reconcile(p) \/ Disconnect(p)
      PROVE  Underway'
  BY <1>7 DEF startProcessHeartbeat, releaseHeartbeat, Reload, Write, Reconcile, Disconnect, Underway
<1> QED BY <1>1, <1>2, <1>3, <1>4, <1>5, <1>6, <1>7 DEF Next

-----------------------------------------------------------------------------
(* What the files hold: no content is lost, and the layout that counts has  *)
(* what was written last                                                    *)

LEMMA TidiedKeeps ==
    ASSUME Inv, Shape, Underway, Content, Vault, Cleanup, Tidied
    PROVE  Content' /\ Vault' /\ Cleanup'
<1>1. UNCHANGED <<old, next, marker, writes, live, strays, enrolled>> /\ Standing
  BY DEF Tidied
<1>2. Vault'
  BY <1>1 DEF Vault, KeptInVault, OlderStaysInVault
<1>3. Cleanup'
  BY <1>1 DEF Cleanup, Dropping, DoneMeansClean, Cleared, Standing
<1>4. Fresh' /\ NothingLost' /\ AuthoritativeIsLive'
  BY <1>1 DEF Content, Fresh, NothingLost, AuthoritativeIsLive
<1>5. Unmoved' /\ Copying'
  <2>1. CASE manifest' = manifest
    BY <1>1, <2>1 DEF Content, Unmoved, Copying, foreign, listed, Standing
  <2>2. CASE manifest' = Absent /\ marker.on /\ \E p \in Procs : lock = p /\ pc[p] # "copy"
    BY <1>1, <2>2 DEF Unmoved, Copying, Standing
  <2> QED BY <2>1, <2>2 DEF Tidied
<1> QED BY <1>2, <1>3, <1>4, <1>5 DEF Content

(* The list is written before the first copy, and the plan is to copy what  *)
(* is there and to unlink what the list names besides.                      *)
LEMMA PlanCopiesContent ==
    ASSUME Inv, Shape, Underway, Content, Vault, Cleanup, NEW p \in Procs, PlansCopies(p)
    PROVE  Content' /\ Vault' /\ Cleanup'
<1> USE DEF PlansCopies
<1>1. ~marker.on /\ ~marker.removed
  BY DEF Inv, HolderIsRight, Types
<1>2. listed \in SUBSET Files /\ present \in SUBSET Files
  BY DEF listed, present, Shape
<1>3. listed' = listed \cup present
  BY <1>2, AbsentAssumption DEF listed
<1>4. \A f \in Files \ listed : next[f] = Absent
  BY DEF foreign
<1>5. foreign' = {}
  BY <1>3, <1>4 DEF foreign
<1>6. Fresh' /\ NothingLost' /\ AuthoritativeIsLive'
  BY DEF Content, Fresh, NothingLost, AuthoritativeIsLive
<1>7. Unmoved'
  BY <1>3, <1>4, AbsentAssumption DEF Content, Unmoved, Shape
<1>8. Copying'
  <2>1. todo'[p] = ({"unlink"} \X (listed \ present)) \cup ({"copy"} \X present)
    BY DEF Shape
  <2>2. \A w \in todo'[p] :
           /\ w[2] \in listed \cup present
           /\ (w[1] = "copy") = (w[2] \in present)
    BY <2>1
  <2>3. \A f \in Files : next[f] = old[f] \/ \E w \in todo'[p] : w[2] = f
    <3>1. ASSUME NEW f \in Files, f \in present PROVE \E w \in todo'[p] : w[2] = f
      <4>1. <<"copy", f>> \in todo'[p]
        BY <2>1, <3>1
      <4> QED BY <4>1
    <3>2. ASSUME NEW f \in Files, f \in listed \ present PROVE \E w \in todo'[p] : w[2] = f
      <4>1. <<"unlink", f>> \in todo'[p]
        BY <2>1, <3>2
      <4> QED BY <4>1
    <3>3. ASSUME NEW f \in Files, f \notin listed \cup present PROVE next[f] = old[f]
      BY <1>4, <3>3 DEF present
    <3> QED BY <3>1, <3>2, <3>3
  <2>4. \A w \in todo'[p] : (w[1] = "copy") = (old[w[2]] # Absent)
    BY <1>2, <2>2 DEF present
  <2> QED BY <1>3, <1>5, <2>2, <2>3, <2>4 DEF Copying, Inv, Types
<1>9. Vault' /\ Cleanup'
  BY <1>1 DEF Vault, KeptInVault, OlderStaysInVault, Cleanup, Dropping, DoneMeansClean, Inv, Types, Cleared
<1> QED BY <1>6, <1>7, <1>8, <1>9 DEF Content

LEMMA PlanDropsContent ==
    ASSUME Inv, Shape, Underway, Content, Vault, Cleanup, NEW p \in Procs, PlansDrops(p)
    PROVE  Content' /\ Vault' /\ Cleanup'
<1> USE DEF PlansDrops, Holdings
<1>1. Content' /\ Vault' /\ DoneMeansClean'
  BY DEF Content, Fresh, Unmoved, Copying, NothingLost, AuthoritativeIsLive, foreign, listed,
     Vault, KeptInVault, OlderStaysInVault, Cleanup, DoneMeansClean, Inv, Types, Shape
<1>2. ASSUME NEW f \in Credentials PROVE Cleared(f) \/ \E w \in todo'[p] : w[2] = f
  <2>1. todo'[p] = IF marker.removed THEN {} ELSE {"drop"} \X present
    BY DEF Shape
  <2>2. CASE marker.removed
    BY <2>2 DEF Cleanup, DoneMeansClean, Cleared
  <2>3. CASE ~marker.removed /\ f \in present
    <3>1. <<"drop", f>> \in todo'[p]
      BY <2>1, <2>3
    <3> QED BY <3>1
  <2>4. CASE f \notin present
    BY <2>4 DEF present, Cleared, Credentials
  <2> QED BY <2>2, <2>3, <2>4
<1>3. Dropping'
  BY <1>2 DEF Dropping, Cleared
<1> QED BY <1>1, <1>3 DEF Cleanup

(* A copy only overwrites what the list names, and that is identical to the *)
(* old file or of no account.                                               *)
LEMMA CopyContent ==
    ASSUME Inv, Shape, Underway, Content, Vault, Cleanup,
           NEW p \in Procs, NEW w \in todo[p], CopiesOne(p, w)
    PROVE  Content' /\ Vault' /\ Cleanup'
<1> USE DEF CopiesOne
<1> DEFINE f == w[2]
<1>1. ~marker.on /\ ~marker.removed /\ f \in Files /\ f \in listed /\ listed \in SUBSET Files
  BY DEF Inv, HolderIsRight, Types, Content, Copying, Shape, Ops, listed
<1>2. /\ \A g \in Files \ {f} : next'[g] = next[g]
      /\ next'[f] = IF w[1] = "copy" THEN old[f] ELSE Absent
  BY <1>1 DEF Shape, Folders
<1>3. listed' = listed /\ old' = old /\ live' = live /\ strays' = strays
  BY DEF listed
<1>4. Fresh'
  BY <1>2 DEF Content, Fresh
<1>5. NothingLost'
  <2>1. ASSUME NEW c \in live PROVE c[2] \in {old[c[1]], next'[c[1]]}
    <3>1. c \in (Files \ {"enrol"}) \X Nat /\ c = <<c[1], c[2]>>
      BY DEF Shape
    <3>2. c[2] \in {old[c[1]], next[c[1]]}
      BY DEF Content, NothingLost
    <3>3. CASE c[1] = f /\ c[2] = next[f]
      <4>1. <<f, next[f]>> \in live /\ f \in Files \ {"enrol"}
        BY <3>1, <3>3
      <4>2. next[f] = old[f]
        BY <1>1, <4>1 DEF Content, Unmoved
      <4> QED BY <3>3, <4>2
    <3> QED BY <1>2, <3>1, <3>2, <3>3
  <2> QED BY <1>3, <2>1 DEF NothingLost
<1>6. Unmoved' /\ AuthoritativeIsLive'
  <2>1. <<f, next'[f]>> \in live => next'[f] = old[f]
    BY <1>2, AbsentAssumption DEF Shape
  <2> QED BY <1>1, <1>2, <1>3, <2>1 DEF Content, Unmoved, AuthoritativeIsLive
<1>7. Copying'
  <2>1. foreign' = {}
    BY <1>1, <1>2, <1>3 DEF Content, Copying, foreign
  <2>2. todo'[p] = todo[p] \ {w}
    BY DEF Shape
  <2>3. ASSUME dataLock = p
        PROVE  \A g \in Files : next'[g] = old[g] \/ \E v \in todo'[p] : v[2] = g
    <3>1. /\ \A v \in todo[p] : (v[1] = "copy") = (old[v[2]] # Absent)
          /\ \A g \in Files : next[g] = old[g] \/ \E v \in todo[p] : v[2] = g
      BY <2>3 DEF Content, Copying
    <3>2. next'[f] = old[f]
      BY <1>2, <3>1
    <3>3. ASSUME NEW g \in Files \ {f} PROVE next'[g] = old[g] \/ \E v \in todo'[p] : v[2] = g
      BY <1>2, <2>2, <3>1, <3>3
    <3> QED BY <3>2, <3>3
  <2> QED BY <1>3, <2>1, <2>2, <2>3 DEF Content, Copying
<1>8. Vault' /\ Cleanup'
  BY <1>1 DEF Vault, KeptInVault, OlderStaysInVault, Cleanup, Dropping, DoneMeansClean, Cleared
<1> QED BY <1>4, <1>5, <1>6, <1>7, <1>8 DEF Content

(* The marker goes up over copies that are identical, all of them, so what  *)
(* counted before counts after it.                                          *)
LEMMA MarkContent ==
    ASSUME Inv, Shape, Underway, Content, Vault, Cleanup, NEW p \in Procs, Marks(p)
    PROVE  Content' /\ Vault' /\ Cleanup'
<1> USE DEF Marks
<1>1. ~marker.on /\ marker'.on /\ ~marker'.removed /\ marker'.kept = keepableVaultState
  BY DEF Inv, HolderIsRight
<1>2. \A f \in Files : next[f] = old[f]
  BY DEF Content, Copying
<1>3. /\ \A q \in Procs : lock' = q => q = p /\ pc'[p] = "drop"
      /\ lock' = p => todo'[p] = {"drop"} \X present
  BY DEF Ended, Shape, Inv, Types
<1>4. Fresh' /\ NothingLost' /\ Unmoved'
  BY <1>1 DEF Content, Fresh, NothingLost, Unmoved
<1>5. AuthoritativeIsLive'
  <2>1. ASSUME NEW f \in Files \ {"enrol"}
        PROVE  /\ next[f] # Absent => <<f, next[f]>> \in live
               /\ next[f] = Absent => \A c \in live : c[1] # f
    <3>1. next[f] = old[f]
      BY <1>2
    <3>2. old[f] # Absent => <<f, old[f]>> \in live
      BY <1>1 DEF Content, Unmoved
    <3>3. ASSUME NEW c \in live, c[1] = f, next[f] = Absent PROVE FALSE
      BY <3>1, <3>3, AbsentAssumption DEF Content, NothingLost, Shape
    <3> QED BY <3>1, <3>2, <3>3
  <2> QED BY <1>1, <2>1 DEF AuthoritativeIsLive
<1>6. Copying'
  BY <1>3 DEF Copying
<1>7. Vault'
  <2>1. enrolled => old["enrol"] \in VaultStates
    BY DEF Vault, OlderStaysInVault
  <2>2. enrolled => keepableVaultState # Absent
    BY <1>2, <2>1, AbsentAssumption DEF keepableVaultState, Files
  <2> QED BY <1>1, <2>1, <2>2 DEF Vault, KeptInVault, OlderStaysInVault
<1>8. Cleanup'
  <2>1. ASSUME NEW f \in Credentials, lock' = p
        PROVE  old[f] = Absent \/ \E w \in todo'[p] : w[2] = f
    <3>1. CASE f \in present
      <4>1. <<"drop", f>> \in todo'[p]
        BY <1>3, <2>1, <3>1
      <4> QED BY <4>1
    <3> QED BY <3>1 DEF present, Credentials
  <2> QED BY <1>1, <1>3, <2>1 DEF Cleanup, Dropping, DoneMeansClean, Cleared
<1> QED BY <1>4, <1>5, <1>6, <1>7, <1>8 DEF Content

(* An old file goes only when its copy is identical; the enrollment state   *)
(* of an install in vault mode does not go at all.                          *)
LEMMA DropContent ==
    ASSUME Inv, Shape, Underway, Content, Vault, Cleanup,
           NEW p \in Procs, NEW w \in todo[p], DropsOne(p, w)
    PROVE  Content' /\ Vault' /\ Cleanup'
<1> USE DEF DropsOne
<1> DEFINE f == w[2]
<1>1. marker.on /\ f \in Files
  BY DEF Inv, MarkerStands, Shape, Ops
<1>2. \/ old' = old
      \/ /\ ~Stays(p, f) /\ old[f] = next[f]
         /\ old'[f] = Absent /\ \A g \in Files \ {f} : old'[g] = old[g]
  BY <1>1 DEF Shape, Folders
<1>3. Fresh' /\ Unmoved' /\ AuthoritativeIsLive'
  BY <1>1, <1>2 DEF Content, Fresh, Unmoved, AuthoritativeIsLive
<1>4. NothingLost'
  <2>1. ASSUME NEW c \in live PROVE c[2] \in {old'[c[1]], next[c[1]]}
    <3>1. c[1] \in Files /\ c[2] \in {old[c[1]], next[c[1]]}
      BY DEF Content, NothingLost, Shape
    <3> QED BY <1>2, <3>1
  <2> QED BY <2>1 DEF NothingLost
<1>5. Copying'
  BY DEF Copying
<1>6. Vault'
  <2>1. ASSUME enrolled PROVE old'["enrol"] \in VaultStates
    <3>1. marker.kept # Absent /\ old["enrol"] \in VaultStates
      BY <1>1, <2>1 DEF Vault, KeptInVault, OlderStaysInVault
    <3>2. f = "enrol" /\ old[f] = next[f] => Stays(p, f)
      BY <3>1 DEF Stays
    <3> QED BY <1>2, <3>1, <3>2 DEF Files
  <2> QED BY <2>1 DEF Vault, KeptInVault, OlderStaysInVault
<1>7. DoneMeansClean'
  BY <1>2 DEF Cleanup, DoneMeansClean, Credentials
<1>8. Dropping'
  <2>1. todo'[p] = todo[p] \ {w}
    BY DEF Shape
  <2>2. \A g \in Credentials : Cleared(g) => Cleared(g)'
    BY <1>2 DEF Cleared, Credentials
  <2>3. f \in Credentials => Cleared(f)' \/ left'[p]
    <3>1. CASE left' = [left EXCEPT ![p] = @ \/ w[2] \in Credentials]
      BY <3>1 DEF Shape
    <3>2. CASE old' = [old EXCEPT ![w[2]] = Absent]
      BY <1>1, <3>2 DEF Cleared, Shape, Folders
    <3>3. CASE Stays(p, f) /\ UNCHANGED <<left, old>>
      BY <3>3 DEF Cleared, Stays, isVaultStateLeftover
    <3>4. CASE (old[f] = Absent \/ f \notin Credentials) /\ UNCHANGED <<left, old>>
      BY <3>4 DEF Cleared
    <3> QED BY <3>1, <3>2, <3>3, <3>4
  <2>4. left[p] => left'[p]
    BY DEF Shape
  <2>5. ASSUME NEW g \in Credentials
        PROVE  Cleared(g)' \/ left'[p] \/ \E v \in todo'[p] : v[2] = g
    <3>1. Cleared(g) \/ left[p] \/ \E v \in todo[p] : v[2] = g
      BY DEF Cleanup, Dropping
    <3>2. CASE \E v \in todo[p] : v[2] = g
      BY <2>1, <2>3, <3>2
    <3> QED BY <2>2, <2>4, <3>1, <3>2
  <2> QED BY <2>5 DEF Dropping
<1> QED BY <1>3, <1>4, <1>5, <1>6, <1>7, <1>8 DEF Content, Cleanup

(* Only a cleanup with nothing left to do calls the old files dealt with.   *)
LEMMA SealContent ==
    ASSUME Inv, Shape, Underway, Content, Vault, Cleanup, NEW p \in Procs, Seals(p)
    PROVE  Content' /\ Vault' /\ Cleanup'
<1> USE DEF Seals
<1>1. marker.on /\ marker'.on = marker.on /\ marker'.kept = marker.kept
  BY DEF Inv, MarkerStands, Types
<1>2. todo[p] = {} /\ ~left[p]
  BY DEF Underway
<1>3. \A f \in Credentials : Cleared(f)
  BY <1>2 DEF Cleanup, Dropping
<1>4. Content' /\ Vault'
  BY <1>1 DEF Content, Fresh, Unmoved, Copying, NothingLost, AuthoritativeIsLive, Vault, KeptInVault,
     OlderStaysInVault, Inv, Types
<1>5. Cleanup'
  BY <1>1, <1>3 DEF Cleanup, Dropping, DoneMeansClean, Cleared
<1> QED BY <1>4, <1>5

(* The cleanup, as long as what was cleared stays so.                       *)
LEMMA ClearedStays ==
    ASSUME Cleanup, UNCHANGED <<pc, todo, left, lock, marker>>,
           \A f \in Credentials :
              marker.removed \/ (\E q \in Procs : pc[q] \in {"drop", "seal", "tidy"}) =>
                 (Cleared(f) => Cleared(f)')
    PROVE  Cleanup'
<1>1. Dropping'
  <2>1. ASSUME NEW q \in Procs, lock = q, pc[q] \in {"drop", "seal", "tidy"}, NEW f \in Credentials
        PROVE  Cleared(f)' \/ left[q] \/ \E w \in todo[q] : w[2] = f
    <3>1. Cleared(f) \/ left[q] \/ \E w \in todo[q] : w[2] = f
      BY <2>1 DEF Cleanup, Dropping
    <3> QED BY <2>1, <3>1
  <2> QED BY <2>1 DEF Dropping
<1>2. DoneMeansClean'
  <2>1. marker.removed => \A f \in Credentials : Cleared(f)
    BY DEF Cleanup, DoneMeansClean, Cleared
  <2>2. marker.removed => \A f \in Credentials : Cleared(f)'
    BY <2>1
  <2> QED BY <2>2 DEF DoneMeansClean, Cleared
<1> QED BY <1>1, <1>2 DEF Cleanup

(* A write on the old files: what it replaces counted, or the marker says   *)
(* that the new content does not.                                           *)
LEMMA OldWriteContent ==
    ASSUME Inv, Shape, Underway, Content, Vault, Cleanup,
           NEW p \in Procs, NEW f \in {"state", "sess"}, Write(p, f), pc[p] = "legacy"
    PROVE  Content' /\ Vault' /\ Cleanup'
<1> DEFINE new == writes + 3
<1>1. /\ dataLock = NoOne /\ writes' = writes + 1
      /\ next' = next /\ old' = [old EXCEPT ![f] = new]
      /\ live' = (live \ {<<f, old[f]>>}) \cup {<<f, [old EXCEPT ![f] = new][f]>>}
      /\ strays' = IF marker.on THEN strays \cup {<<f, [old EXCEPT ![f] = new][f]>>} ELSE strays
      /\ UNCHANGED <<proc, marker, manifest, locks, enrolled>>
  BY DEF Write
<1>2. f \in Files /\ f # "enrol" /\ new \in Nat /\ new # Absent /\ writes \in Nat
  BY AbsentAssumption DEF Files, Shape
<1>3. /\ old'[f] = new /\ \A g \in Files \ {f} : old'[g] = old[g]
      /\ live' = (live \ {<<f, old[f]>>}) \cup {<<f, new>>}
      /\ strays' = IF marker.on THEN strays \cup {<<f, new>>} ELSE strays
  BY <1>1, <1>2 DEF Shape, Folders
<1>4. \A g \in Files \ {"enrol"} : /\ old[g] # Absent => old[g] \in Nat
                                   /\ next[g] # Absent => next[g] \in Nat
  BY FolderShape DEF Shape
<1>5. Fresh'
  BY <1>1, <1>2, <1>3, <1>4 DEF Content, Fresh
<1>6. NothingLost'
  <2>1. ASSUME NEW c \in live' PROVE c[2] \in {old'[c[1]], next[c[1]]}
    <3>1. CASE c = <<f, new>>
      BY <1>3, <3>1
    <3>2. CASE c \in live /\ c # <<f, old[f]>>
      <4>1. c = <<c[1], c[2]>> /\ c[1] \in Files /\ c[2] \in {old[c[1]], next[c[1]]}
        BY <3>2 DEF Content, NothingLost, Shape
      <4> QED BY <1>3, <3>2, <4>1
    <3> QED BY <1>3, <3>1, <3>2
  <2> QED BY <1>1, <2>1 DEF NothingLost
<1>7. Unmoved'
  <2>1. next[f] # new
    BY <1>2, <1>4 DEF Content, Fresh
  <2>2. ASSUME ~marker.on, NEW g \in Files \ {"enrol"}
        PROVE  /\ old'[g] # Absent => <<g, old'[g]>> \in live'
               /\ g \in listed /\ <<g, next[g]>> \in live' => next[g] = old'[g]
    <3>1. CASE g = f
      BY <1>2, <1>3, <2>1, <2>2, <3>1 DEF Content, Unmoved
    <3>2. CASE g # f
      BY <1>3, <2>2, <3>2 DEF Content, Unmoved
    <3> QED BY <3>1, <3>2
  <2> QED BY <1>1, <1>3, <2>2 DEF Content, Unmoved, listed
<1>8. AuthoritativeIsLive'
  <2>1. CASE ~marker.on
    BY <1>1, <1>7, <2>1 DEF AuthoritativeIsLive, Unmoved
  <2>2. ASSUME marker.on, NEW g \in Files \ {"enrol"}
        PROVE  /\ next[g] # Absent => <<g, next[g]>> \in live' \/ \E c \in strays' : c[1] = g
               /\ next[g] = Absent => \A c \in live' : c[1] = g => c \in strays'
    <3>1. /\ next[g] # Absent => <<g, next[g]>> \in live \/ \E c \in strays : c[1] = g
          /\ next[g] = Absent => \A c \in live : c[1] = g => c \in strays
      BY <2>2 DEF Content, AuthoritativeIsLive
    <3>2. <<f, new>> \in strays' /\ strays \subseteq strays'
      BY <1>3, <2>2
    <3> QED BY <1>3, <3>1, <3>2
  <2> QED BY <1>1, <2>1, <2>2 DEF AuthoritativeIsLive
<1>9. Copying'
  BY <1>1 DEF Content, Copying, foreign, listed
<1>10. Vault'
  BY <1>1, <1>2, <1>3 DEF Vault, KeptInVault, OlderStaysInVault, Files
<1>11. Cleanup'
  <2>1. \A g \in Credentials : marker.on /\ Cleared(g) => Cleared(g)'
    BY <1>1, <1>3 DEF Cleared, Credentials
  <2>2. \A q \in Procs : pc[q] \in {"drop", "seal", "tidy"} => marker.on
    BY DEF Inv, MarkerStands
  <2>3. marker.removed => marker.on
    BY DEF Inv, Types
  <2> QED BY <1>1, <2>1, <2>2, <2>3, ClearedStays
<1> QED BY <1>5, <1>6, <1>7, <1>8, <1>9, <1>10, <1>11 DEF Content

(* A write in the state home replaces what counted there.                   *)
LEMMA NewWriteContent ==
    ASSUME Inv, Shape, Underway, Content, Vault, Cleanup,
           NEW p \in Procs, NEW f \in {"state", "sess"}, Write(p, f), pc[p] # "legacy"
    PROVE  Content' /\ Vault' /\ Cleanup'
<1> DEFINE new == writes + 3
<1>1. /\ marker.on /\ writes' = writes + 1
      /\ old' = old /\ next' = [next EXCEPT ![f] = new]
      /\ live' = (live \ {<<f, next[f]>>}) \cup {<<f, [next EXCEPT ![f] = new][f]>>}
      /\ UNCHANGED <<proc, marker, manifest, locks, enrolled, strays>>
  BY DEF Write, Settled, Inv, MarkerStands
<1>2. f \in Files /\ f # "enrol" /\ new \in Nat /\ new # Absent /\ writes \in Nat
  BY AbsentAssumption DEF Files, Shape
<1>3. /\ next'[f] = new /\ \A g \in Files \ {f} : next'[g] = next[g]
      /\ live' = (live \ {<<f, next[f]>>}) \cup {<<f, new>>}
  BY <1>1, <1>2 DEF Shape, Folders
<1>4. \A g \in Files \ {"enrol"} : /\ old[g] # Absent => old[g] \in Nat
                                   /\ next[g] # Absent => next[g] \in Nat
  BY FolderShape DEF Shape
<1>5. Fresh'
  BY <1>1, <1>2, <1>3, <1>4 DEF Content, Fresh
<1>6. NothingLost'
  <2>1. ASSUME NEW c \in live' PROVE c[2] \in {old[c[1]], next'[c[1]]}
    <3>1. CASE c = <<f, new>>
      BY <1>3, <3>1
    <3>2. CASE c \in live /\ c # <<f, next[f]>>
      <4>1. c = <<c[1], c[2]>> /\ c[1] \in Files /\ c[2] \in {old[c[1]], next[c[1]]}
        BY <3>2 DEF Content, NothingLost, Shape
      <4> QED BY <1>3, <3>2, <4>1
    <3> QED BY <1>3, <3>1, <3>2
  <2> QED BY <1>1, <2>1 DEF NothingLost
<1>7. Unmoved' /\ Copying'
  BY <1>1 DEF Unmoved, Copying, Inv, HolderIsRight
<1>8. AuthoritativeIsLive'
  <2>1. ASSUME NEW g \in Files \ {"enrol"}
        PROVE  /\ next'[g] # Absent => <<g, next'[g]>> \in live' \/ \E c \in strays : c[1] = g
               /\ next'[g] = Absent => \A c \in live' : c[1] = g => c \in strays
    <3>1. CASE g = f
      BY <1>2, <1>3, <3>1
    <3>2. CASE g # f
      BY <1>1, <1>3, <3>2 DEF Content, AuthoritativeIsLive
    <3> QED BY <3>1, <3>2
  <2> QED BY <1>1, <2>1 DEF AuthoritativeIsLive
<1>9. Vault' /\ Cleanup'
  BY <1>1 DEF Vault, KeptInVault, OlderStaysInVault, Cleanup, Dropping, DoneMeansClean, Cleared
<1> QED BY <1>5, <1>6, <1>7, <1>8, <1>9 DEF Content

(* The enrollment state on the old files, blocked by an older version.      *)
LEMMA ReconcileContent ==
    ASSUME Inv, Shape, Underway, Content, Vault, Cleanup, NEW p \in Procs, Reconcile(p)
    PROVE  Content' /\ Vault' /\ Cleanup'
<1>1. /\ dataLock = NoOne /\ old["enrol"] = "approved"
      /\ old'["enrol"] = "blocked" /\ \A g \in Files \ {"enrol"} : old'[g] = old[g]
      /\ UNCHANGED <<proc, next, marker, manifest, locks, writes, ghost>>
  BY DEF Reconcile, Shape, Folders, Files
<1>2. Fresh' /\ Unmoved' /\ AuthoritativeIsLive'
  BY <1>1 DEF Content, Fresh, Unmoved, AuthoritativeIsLive, listed
<1>3. NothingLost'
  BY <1>1 DEF Content, NothingLost, Shape
<1>4. Copying'
  BY <1>1 DEF Content, Copying, foreign, listed
<1>5. Vault'
  BY <1>1 DEF Vault, KeptInVault, OlderStaysInVault, VaultStates
<1>6. Cleanup'
  <2>1. \A g \in Credentials : Cleared(g) => Cleared(g)'
    BY <1>1, AbsentAssumption DEF Cleared, Credentials, Shape, VaultStates
  <2> QED BY <1>1, <2>1, ClearedStays
<1> QED BY <1>2, <1>3, <1>4, <1>5, <1>6 DEF Content

(* A disconnect gives the tokens up, in the state home and beside it.       *)
LEMMA DisconnectContent ==
    ASSUME Inv, Shape, Underway, Content, Vault, Cleanup, NEW p \in Procs, Disconnect(p)
    PROVE  Content' /\ Vault' /\ Cleanup'
<1>1. /\ marker.on /\ ~enrolled'
      /\ next'["enrol"] = Absent /\ next'["token"] = Absent
      /\ \A g \in Files \ {"enrol", "token"} : next'[g] = next[g]
      /\ old'["enrol"] \in {Absent, old["enrol"]} /\ \A g \in Files \ {"enrol"} : old'[g] = old[g]
      /\ live' = {c \in live : c[1] # "token"}
      /\ UNCHANGED <<proc, marker, manifest, locks, writes, strays>>
  BY DEF Disconnect, removeMovedVaultStateLeftover, Inv, MarkerStands, Shape, Folders, Files
<1>2. Fresh'
  BY <1>1 DEF Content, Fresh
<1>3. AuthoritativeIsLive'
  <2>1. ASSUME NEW g \in Files \ {"enrol"}
        PROVE  /\ next'[g] # Absent => <<g, next'[g]>> \in live' \/ \E c \in strays : c[1] = g
               /\ next'[g] = Absent => \A c \in live' : c[1] = g => c \in strays
    <3>1. CASE g = "token"
      BY <1>1, <3>1
    <3>2. CASE g # "token"
      BY <1>1, <3>2 DEF Content, AuthoritativeIsLive
    <3> QED BY <3>1, <3>2
  <2> QED BY <1>1, <2>1 DEF AuthoritativeIsLive
<1>4. NothingLost'
  <2>1. ASSUME NEW c \in live' PROVE c[2] \in {old'[c[1]], next'[c[1]]}
    BY <1>1 DEF Content, NothingLost, Shape
  <2> QED BY <2>1 DEF NothingLost
<1>5. Unmoved' /\ Copying' /\ Vault'
  BY <1>1 DEF Unmoved, Copying, Inv, HolderIsRight, Vault, KeptInVault, OlderStaysInVault
<1>6. Cleanup'
  <2>1. \A g \in Credentials : Cleared(g) => Cleared(g)'
    BY <1>1 DEF Cleared, Credentials
  <2> QED BY <1>1, <2>1, ClearedStays
<1> QED BY <1>2, <1>3, <1>4, <1>5, <1>6 DEF Content

LEMMA ContentStep ==
    ASSUME Inv, Shape, Underway, Content, Vault, Cleanup, [Next]_vars
    PROVE  Content' /\ Vault' /\ Cleanup'
<1>1. CASE UNCHANGED vars
  <2>1. Tidied
    BY <1>1 DEF Tidied, Standing
  <2> QED BY <2>1, TidiedKeeps
<1>2. CASE Expire
  <2>1. UNCHANGED Holdings
    BY <1>2 DEF Expire, Holdings
  <2>2. Standing
    BY <1>2 DEF Expire, Standing, Shape, Inv, Types
  <2> QED BY <2>1, <2>2, QuietTidies, TidiedKeeps DEF Quiet
<1>3. ASSUME NEW p \in Procs, decide(p) PROVE Content' /\ Vault' /\ Cleanup'
  BY <1>3, DecisionCases, TidiedKeeps, PlanCopiesContent, PlanDropsContent, MarkContent, SealContent,
     CopyContent, DropContent
<1>4. ASSUME NEW p \in Procs, NEW f \in {"state", "sess"}, Write(p, f)
      PROVE  Content' /\ Vault' /\ Cleanup'
  BY <1>4, OldWriteContent, NewWriteContent
<1>5. ASSUME NEW p \in Procs, Reconcile(p) \/ Disconnect(p) PROVE Content' /\ Vault' /\ Cleanup'
  BY <1>5, ReconcileContent, DisconnectContent
<1>6. ASSUME NEW p \in Procs,
             \/ (\E k \in Kinds : Start(p, k)) \/ Stop(p) \/ Lapse(p)
             \/ startProcessHeartbeat(p) \/ releaseHeartbeat(p) \/ Reload(p)
      PROVE  Content' /\ Vault' /\ Cleanup'
  BY <1>6, QuietProcesses, QuietTidies, TidiedKeeps
<1> QED BY <1>1, <1>2, <1>3, <1>4, <1>5, <1>6 DEF Next

-----------------------------------------------------------------------------
(* A start that nothing disturbs *)

(* What has to hold of it after a step.                                     *)
StillCalm(p) ==
    /\ pc'[p] # "down" /\ kind'[p] = "new" /\ ~left'[p]
    /\ \A q \in Procs \ {p} : pc'[q] = "down"
    /\ pc'[p] \in Deciding \ {"read", "lock"} => lock' = p
    /\ pc'[p] \in {"fence2", "copy", "drop", "seal", "tidy"} => dataLock' = p
    /\ pc'[p] \in {"seal", "tidy"} => ~temps'
    /\ pc'[p] = "tidy" => marker'.removed
    /\ pc'[p] = "state-home" => marker'.removed /\ manifest' = Absent /\ ~temps'
    /\ pc'[p] = "legacy" => foreign' # {}
    /\ pc'[p] = "refused" => present' \cap Credentials # {}

LEMMA StillCalmSuffices ==
    ASSUME calm' \in Procs => StillCalm(calm')
    PROVE  Calm'
  BY DEF StillCalm, Calm, Alone, CalmStartCompletesMove, Alive

(* What is known of it before.                                              *)
LEMMA CalmKnows ==
    ASSUME Calm, NEW p \in Procs, calm = p
    PROVE  /\ pc[p] # "down" /\ kind[p] = "new" /\ ~left[p]
           /\ \A q \in Procs \ {p} : pc[q] = "down"
           /\ fence(p)
           /\ pc[p] \in Deciding \ {"read", "lock"} => lock = p
           /\ pc[p] \in {"fence2", "copy", "drop", "seal", "tidy"} => dataLock = p
           /\ pc[p] \in {"seal", "tidy"} => ~temps
           /\ pc[p] = "tidy" => marker.removed
           /\ pc[p] = "state-home" => marker.removed /\ manifest = Absent /\ ~temps
           /\ pc[p] = "legacy" => foreign # {}
           /\ pc[p] = "refused" => present \cap Credentials # {}
  BY DEF Calm, Alone, CalmStartCompletesMove, fence, Alive

(* Its decision: no lock is denied it and the fence is open, so that it     *)
(* keeps the old files only for a foreign file, and refuses only over an    *)
(* old credential.                                                          *)
LEMMA CalmDecision ==
    ASSUME Inv, Shape, Underway, Calm, NEW p \in Procs, calm = p, calm' = p, decide(p)
    PROVE  StillCalm(p)
<1> USE CalmKnows
<1>1. ~Fault
  BY DEF Fault
<1>2. ASSUME NEW where \in Deciding \ {"read"}, pc' = [pc EXCEPT ![p] = where],
             UNCHANGED <<kind, temps>>, left'[p] = left[p],
             where # "lock" => lock' = p,
             where \in {"fence2", "copy", "drop", "seal", "tidy"} => dataLock' = p,
             where \in {"seal", "tidy"} => ~temps,
             where = "tidy" => marker'.removed
      PROVE  StillCalm(p)
  BY <1>2 DEF StillCalm, Deciding, Inv, Types
<1>3. ASSUME NEW where \in {"legacy", "state-home", "refused"}, Become(p, where)
      PROVE  /\ pc'[p] = where /\ kind'[p] = "new" /\ ~left'[p]
             /\ \A q \in Procs \ {p} : pc'[q] = "down"
  BY <1>3 DEF Become, Shape, Inv, Types
<1>4. CASE Look(p)
  <2>1. CASE marker.removed /\ CredentialsReappeared /\ Refuse(p)
    <3>1. present \cap Credentials # {}
      BY <2>1 DEF CredentialsReappeared, present, Credentials, Files
    <3>2. present' = present
      BY <1>4 DEF Look, present
    <3> QED BY <1>3, <2>1, <3>1, <3>2 DEF Refuse, StillCalm, Deciding
  <2>2. CASE marker.removed /\ manifest = Absent /\ ~temps /\ stateHome(p)
    <3>1. UNCHANGED <<marker, manifest, temps>>
      BY <1>4 DEF Look
    <3> QED BY <1>3, <2>2, <3>1 DEF stateHome, StillCalm, Deciding
  <2>3. CASE Goto(p, "lock") /\ UNCHANGED <<kind, left>>
    <3>1. UNCHANGED temps
      BY <1>4 DEF Look
    <3> QED BY <1>2, <2>3, <3>1 DEF Goto, Deciding
  <2> QED BY <1>1, <1>4, <2>1, <2>2, <2>3 DEF Look
<1>5. CASE TakeLayoutLock(p)
  <2>1. /\ Goto(p, "held") /\ lock' = p /\ UNCHANGED <<kind, left, temps>>
    BY <1>5 DEF TakeLayoutLock
  <2> QED BY <1>2, <2>1 DEF Goto, Deciding
<1>6. CASE LayoutLockFails(p)
  <2>1. lock \in Procs /\ pc[p] = "lock"
    BY <1>1, <1>6 DEF LayoutLockFails
  <2>2. pc[lock] \in Deciding \ {"read", "lock"}
    BY <2>1 DEF Underway
  <2> QED BY <2>1, <2>2 DEF Deciding
<1>7. CASE Branch(p)
  <2>1. /\ pc[p] = "held" /\ Goto(p, "fence") /\ UNCHANGED <<kind, left, temps, locks>>
    BY <1>1, <1>7 DEF Branch
  <2> QED BY <1>2, <2>1 DEF Goto, Deciding
<1>8. CASE FirstFence(p)
  <2>1. /\ pc[p] = "fence" /\ Goto(p, "data") /\ UNCHANGED <<kind, left, temps, locks>>
    BY <1>8 DEF FirstFence
  <2> QED BY <1>2, <2>1 DEF Goto, Deciding
<1>9. CASE takeDataLocks(p)
  <2>1. /\ pc[p] = "data" /\ Goto(p, "fence2") /\ dataLock' = p
        /\ UNCHANGED <<kind, left, temps, lock>>
    BY <1>9 DEF takeDataLocks
  <2> QED BY <1>2, <2>1 DEF Goto, Deciding
<1>10. CASE DataLocksFail(p)
  <2>1. dataLock \in Procs /\ pc[p] = "data"
    BY <1>1, <1>10 DEF DataLocksFail
  <2>2. pc[dataLock] \in {"fence2", "copy", "drop", "seal", "tidy"}
    BY <2>1 DEF Underway
  <2> QED BY <2>1, <2>2
<1>11. CASE SecondFence(p)
  <2>1. pc[p] = "fence2" /\ lock = p /\ dataLock = p
    BY <1>11 DEF SecondFence, Deciding
  <2>2. CASE ~finishing[p] /\ foreign # {} /\ GiveUp(p) /\ UNCHANGED manifest
    <3>1. legacy(p)
      BY <1>1, <2>1, <2>2 DEF GiveUp, LegacyOrRefuse, Unrecorded, assertOwned
    <3>2. foreign' = foreign
      BY <1>11, <2>2 DEF SecondFence, foreign, listed
    <3> QED BY <1>3, <2>2, <3>1, <3>2 DEF legacy, StillCalm, Deciding
  <2>3. ASSUME NEW where \in {"copy", "drop"}, Goto(p, where), UNCHANGED <<kind, left, locks>>
        PROVE  StillCalm(p)
    <3>1. UNCHANGED temps
      BY <1>11 DEF SecondFence
    <3> QED BY <1>2, <2>1, <2>3, <3>1 DEF Goto, Deciding
  <2> QED BY <1>1, <1>11, <2>1, <2>2, <2>3 DEF SecondFence, assertOwned
<1>12. CASE copyVerified(p)
  <2>1. /\ pc[p] = "copy" /\ lock = p /\ dataLock = p
    BY <1>12 DEF copyVerified, Deciding
  <2>2. UNCHANGED <<pc, kind, left, locks, temps>>
    BY <1>1, <1>12, <2>1 DEF copyVerified, Unrecorded, assertOwned
  <2> QED BY <2>1, <2>2 DEF StillCalm
<1>13. CASE writeMarker(p)
  <2>1. /\ pc[p] = "copy" /\ lock = p /\ dataLock = p
    BY <1>13 DEF writeMarker, Deciding
  <2>2. /\ Goto(p, "drop") /\ UNCHANGED <<kind, left, temps, locks>>
    BY <1>1, <1>13, <2>1 DEF writeMarker
  <2> QED BY <1>2, <2>1, <2>2 DEF Goto, Deciding
<1>14. CASE unlinkIfIdentical(p)
  <2>1. /\ pc[p] = "drop" /\ lock = p /\ dataLock = p
    BY <1>14 DEF unlinkIfIdentical, Deciding
  <2>2. PICK w \in UpNext(p) :
           \/ Onward(p, w) /\ UNCHANGED left
           \/ Refuse(p) /\ UNCHANGED old /\ old[w[2]] # Absent /\ w[2] \in Credentials
    BY <1>1, <1>14, <2>1 DEF unlinkIfIdentical, assertOwned
  <2>3. CASE Onward(p, w) /\ UNCHANGED left
    <3>1. UNCHANGED <<pc, kind, left, locks, temps>>
      BY <1>14, <2>3 DEF unlinkIfIdentical, Onward
    <3> QED BY <2>1, <3>1 DEF StillCalm
  <2>4. CASE Refuse(p) /\ UNCHANGED old /\ old[w[2]] # Absent /\ w[2] \in Credentials
    <3>1. w[2] \in present' \cap Credentials
      BY <2>4 DEF present, Credentials
    <3> QED BY <1>3, <2>4, <3>1 DEF Refuse, StillCalm, Deciding
  <2> QED BY <2>2, <2>3, <2>4
<1>15. CASE removeOldAtomicTemps(p)
  <2>1. /\ pc[p] = "drop" /\ lock = p /\ dataLock = p
    BY <1>15 DEF removeOldAtomicTemps, Deciding
  <2>2. /\ Goto(p, "seal") /\ UNCHANGED <<kind, left, locks>> /\ temps' = FALSE
    BY <1>1, <1>15, <2>1 DEF removeOldAtomicTemps, assertOwned
  <2> QED BY <2>1, <2>2 DEF Goto, StillCalm, Inv, Types
<1>16. CASE Seal(p)
  <2>1. /\ pc[p] = "seal" /\ lock = p /\ dataLock = p
    BY <1>16 DEF Seal, Deciding
  <2>2. /\ Goto(p, "tidy") /\ UNCHANGED <<kind, left, locks, temps>> /\ marker'.removed
    BY <1>1, <1>16, <2>1 DEF Seal, assertOwned, Inv, Types
  <2> QED BY <1>2, <2>1, <2>2 DEF Goto, Deciding
<1>17. CASE removeManifestOwned(p)
  <2>1. /\ pc[p] = "tidy" /\ lock = p /\ marker.removed /\ ~temps
    BY <1>17 DEF removeManifestOwned, Deciding
  <2>2. /\ stateHome(p) /\ manifest' = Absent /\ UNCHANGED <<marker, temps>>
    BY <1>1, <1>17, <2>1 DEF removeManifestOwned, assertOwned
  <2> QED BY <1>3, <2>1, <2>2 DEF stateHome, StillCalm, Deciding
<1> QED
  BY <1>4, <1>5, <1>6, <1>7, <1>8, <1>9, <1>10, <1>11, <1>12, <1>13, <1>14, <1>15, <1>16, <1>17
  DEF decide

LEMMA CalmStep == Inv /\ Shape /\ Underway /\ Calm /\ [Next]_vars => Calm'
<1> SUFFICES ASSUME Inv, Shape, Underway, Calm, [Next]_vars, calm' \in Procs
             PROVE  StillCalm(calm')
  BY StillCalmSuffices
<1> USE CalmKnows
<1>1. ASSUME calm' = calm,
             UNCHANGED <<pc, kind, left, lock, dataLock, temps, marker, manifest>>,
             pc[calm] = "legacy" => foreign' = foreign,
             pc[calm] = "refused" => present' = present
      PROVE  StillCalm(calm')
  BY <1>1 DEF StillCalm
<1>2. CASE UNCHANGED vars
  BY <1>1, <1>2 DEF foreign, listed, present
<1>3. CASE Expire
  <2>1. /\ calm' = calm /\ UNCHANGED <<pc, kind, left, temps, marker, manifest, old, next>>
        /\ lock = calm => lock' = calm
        /\ dataLock = calm => dataLock' = calm
    BY <1>3 DEF Expire
  <2> QED BY <2>1 DEF StillCalm, foreign, listed, present
<1>4. ASSUME NEW p \in Procs, NEW k \in Kinds, Start(p, k) PROVE StillCalm(calm')
  <2>1. calm' = p /\ k = "new" /\ \A q \in Procs \ {p} : pc[q] = "down"
    BY <1>4 DEF Start, Alive
  <2>2. pc'[p] = "read" /\ kind'[p] = "new" /\ \A q \in Procs \ {p} : pc'[q] = "down"
    BY <1>4, <2>1 DEF Start, Goto, Inv, Types
  <2>3. ~left'[p]
    BY <1>4 DEF Start, Underway
  <2> QED BY <2>1, <2>2, <2>3 DEF StillCalm, Deciding
<1>5. ASSUME NEW p \in Procs, decide(p) PROVE StillCalm(calm')
  <2>1. calm' = calm
    BY <1>5, Counted DEF NoFault, Fault
  <2>2. pc[p] # "down"
    BY <1>5 DEF decide, Look, TakeLayoutLock, LayoutLockFails, Branch, FirstFence, takeDataLocks,
       DataLocksFail, SecondFence, copyVerified, writeMarker, unlinkIfIdentical,
       removeOldAtomicTemps, Seal, removeManifestOwned
  <2> QED BY <1>5, <2>1, <2>2, CalmDecision
<1>6. ASSUME NEW p \in Procs, Stop(p) PROVE StillCalm(calm')
  BY <1>6 DEF Stop, Alive
<1>7. ASSUME NEW p \in Procs, Lapse(p) PROVE StillCalm(calm')
  BY <1>7 DEF Lapse, Fault
<1>8. ASSUME NEW p \in Procs, startProcessHeartbeat(p) \/ releaseHeartbeat(p) PROVE StillCalm(calm')
  BY <1>1, <1>8 DEF startProcessHeartbeat, releaseHeartbeat, foreign, listed, present
<1>9. ASSUME NEW p \in Procs, Reload(p) PROVE StillCalm(calm')
  BY <1>9 DEF Reload, NoFault, Fault
<1>10. ASSUME NEW p \in Procs, NEW f \in {"state", "sess"}, Write(p, f) PROVE StillCalm(calm')
  <2>1. pc[p] \in Settled /\ calm' = calm
    BY <1>10 DEF Write
  <2>2. calm = p
    BY <2>1 DEF Settled
  <2>3. pc[p] = "legacy" => foreign' = foreign
    BY <1>10 DEF Write, foreign, listed
  <2> QED BY <1>1, <1>10, <2>1, <2>2, <2>3 DEF Write, Settled
<1>11. ASSUME NEW p \in Procs, Reconcile(p) \/ Disconnect(p) PROVE StillCalm(calm')
  <2>1. pc[p] \in Settled /\ calm' = calm
    BY <1>11 DEF Reconcile, Disconnect, Settled
  <2>2. calm = p
    BY <2>1 DEF Settled
  <2>3. pc[p] = "legacy" => foreign' = foreign
    BY <1>11 DEF Reconcile, Disconnect, foreign, listed
  <2> QED BY <1>1, <1>11, <2>1, <2>2, <2>3 DEF Reconcile, Disconnect, Settled
<1> QED
  BY <1>2, <1>3, <1>4, <1>5, <1>6, <1>7, <1>8, <1>9, <1>10, <1>11 DEF Next

-----------------------------------------------------------------------------

LEMMA SafeStep == Safe /\ [Next]_vars => Safe'
<1> SUFFICES ASSUME Safe, [Next]_vars PROVE Safe'
  OBVIOUS
<1>1. Inv /\ Shape /\ Underway /\ Content /\ Vault /\ Cleanup /\ Calm
  BY DEF Safe
<1>2. Inv' /\ Shape' /\ Underway'
  BY <1>1, InvStep, ShapeStep, UnderwayStep
<1>3. Content' /\ Vault' /\ Cleanup' /\ Calm'
  BY <1>1, ContentStep, CalmStep
<1> QED BY <1>2, <1>3 DEF Safe

LEMMA SafeHolds == Spec => []Safe
  BY SafeInit, SafeStep, PTL DEF Spec

(* The processes, the locks, the marker and the files of both layouts are   *)
(* well formed in every state of a move.                                    *)
THEOREM TypeCorrect == Spec => []TypeOK
<1>1. Safe => TypeOK
  <2>1. ASSUME Shape
        PROVE  /\ DOMAIN old = Files /\ DOMAIN next = Files
               /\ \A f \in Files \ {"enrol"} : {old[f], next[f]} \subseteq Nat \cup {Absent}
               /\ {old["enrol"], next["enrol"]} \subseteq VaultStates \cup {"pending", Absent}
    <3>1. old \in Folders /\ next \in Folders
      BY <2>1 DEF Shape
    <3>2. DOMAIN old = Files /\ DOMAIN next = Files
      BY <3>1 DEF Folders
    <3> QED BY <3>1, <3>2, FolderShape
  <2> QED BY <2>1 DEF Safe, Shape, Inv, Types, TypeOK
<1> QED BY <1>1, SafeHolds, PTL

(* Whoever crashes where, loses a lease or writes on by older rules: no     *)
(* content that was written last is lost, the layout that counts has it, an *)
(* install in vault mode stays one to an older version, a marker that calls *)
(* the old files dealt with is right, and a start that nothing disturbs     *)
(* completes the move (prepareRuntimeLayout, moveFiles, removeOldCopies).   *)
THEOREM FilesStaySafe == Spec => []FilesAreSafe
<1>1. Safe => FilesAreSafe
  BY DEF Safe, Content, Vault, Cleanup, Calm, FilesAreSafe
<1> QED BY <1>1, SafeHolds, PTL

HIDE LayoutAssumption DEF vars, proc, beats, disk, locks, used, ghost

(***************************************************************************)
(* Sidebar: types                                                          *)
(***************************************************************************)
AnyAccount == Locals \cup Vaults

Pins ==
    [acct : AnyAccount, assigned : Nat, seen : Nat, wire : Nat, by : Processes, late : BOOLEAN]

PinMaps == [Sessions -> Pins \cup {None}]

Readings == [first : Nat, second : Nat]

MainRows == [id : Nat, quota : Readings \cup {None}]

RouteMaps == [Sessions -> [acct : AnyAccount, at : Nat] \cup {None}]

SidebarFiles ==
    [vault : BOOLEAN, dead : SUBSET AnyAccount, main : MainRows,
     active : AnyAccount \cup {NoAccount}, routes : RouteMaps, pins : PinMaps]

Publications ==
    [do : {"publish"}, s : {None}]
        \cup [do : {"publish"}, s : Sessions, acct : AnyAccount \cup {NoAccount},
              pinned : BOOLEAN]

OfSession == {"route", "pin", "remove", "clear"}

WriteTypes ==
    [do : OfSession \cup {"machine", "legacy"}, s : Sessions \cup {None},
     mode : {"local", "vault", "any"}, stamp : Nat, newest : BOOLEAN, retried : BOOLEAN,
     row : MainRows \cup {None}, named : Nat, dead : SUBSET AnyAccount,
     acct : AnyAccount \cup {NoAccount}, at : Nat, roster : SUBSET AnyAccount,
     pin : Pins \cup {None}, then : Publications \cup {None}]

Writes ==
    {op \in WriteTypes :
        /\ op.do \in OfSession => op.s \in Sessions
        /\ op.do = "machine" => op.row \in MainRows
        /\ op.do \in {"route", "legacy"} => op.acct \in AnyAccount
        /\ op.do = "pin" => op.pin \in Pins}

(* A write of OpenCode 2 that others follow knows what it is part of.        *)
PublishedWrites ==
    {op \in Writes : op.do \in {"machine", "pin"} => op.then \in Publications}

LEMMA WriteFields ==
    ASSUME NEW op \in Writes
    PROVE  /\ op.do \in OfSession \cup {"machine", "legacy"}
           /\ op.s \in Sessions \cup {None} /\ op.mode \in {"local", "vault", "any"}
           /\ op.stamp \in Nat /\ op.newest \in BOOLEAN /\ op.retried \in BOOLEAN
           /\ op.dead \subseteq AnyAccount /\ op.at \in Nat /\ op.roster \subseteq AnyAccount
           /\ op.named \in Nat
           /\ op.do \in OfSession => op.s \in Sessions
           /\ op.do = "machine" => op.row \in MainRows
           /\ op.do \in {"route", "legacy"} => op.acct \in AnyAccount
           /\ op.do = "pin" => op.pin \in Pins
BY DEF Writes, WriteTypes

LEMMA FileFields ==
    ASSUME NEW f \in SidebarFiles
    PROVE  /\ f.vault \in BOOLEAN /\ f.dead \subseteq AnyAccount /\ f.main \in MainRows
           /\ f.active \in AnyAccount \cup {NoAccount}
           /\ f.routes \in RouteMaps /\ f.pins \in PinMaps
BY DEF SidebarFiles

(***************************************************************************)
(* Sidebar: readings                                                       *)
(***************************************************************************)
LEMMA MaxOfTwo ==
    ASSUME NEW a \in Nat, NEW b \in Nat
    PROVE  Max({a, b}) = IF a >= b THEN a ELSE b
<1>1. \E x \in {a, b} : \A y \in {a, b} : x >= y
  OBVIOUS
<1>2. Max({a, b}) \in {a, b} /\ \A y \in {a, b} : Max({a, b}) >= y
  BY <1>1 DEF Max
<1> QED BY <1>2

LEMMA LatestTyped ==
    ASSUME NEW q \in Readings \cup {None}
    PROVE  /\ latestQuotaCheckedAt(q) \in Nat
           /\ q # None => /\ q.first <= latestQuotaCheckedAt(q)
                          /\ q.second <= latestQuotaCheckedAt(q)
                          /\ latestQuotaCheckedAt(q) \in {q.first, q.second}
<1>1. CASE q = None
  BY <1>1 DEF latestQuotaCheckedAt
<1>2. CASE q # None
  <2>1. q.first \in Nat /\ q.second \in Nat
    BY <1>2 DEF Readings
  <2> QED BY <1>2, <2>1, MaxOfTwo DEF latestQuotaCheckedAt
<1> QED BY <1>1, <1>2

(* A merge by window is a reading of the two, no older than the one it       *)
(* replaces, and no window of it is older.                                   *)
LEMMA MergedByWindow ==
    ASSUME NEW i \in Readings \cup {None}, NEW e \in Readings \cup {None}
    PROVE  LET m == mergeQuotaByWindow(i, e)
           IN  /\ m \in Readings \cup {None}
               /\ m # None => \A k \in Windows : \/ i # None /\ m[k] = i[k]
                                                 \/ e # None /\ m[k] = e[k]
               /\ latestQuotaCheckedAt(m) >= latestQuotaCheckedAt(e)
               /\ e # None =>
                      \A k \in Windows :
                          /\ m[k] = 0 \/ m[k] >= e[k]
                          /\ e[k] = 0 /\ latestQuotaCheckedAt(i) < latestQuotaCheckedAt(e)
                             => m[k] = 0
<1> DEFINE m == mergeQuotaByWindow(i, e)
<1>0. latestQuotaCheckedAt(e) \in Nat /\ latestQuotaCheckedAt(i) \in Nat
  BY LatestTyped
<1>1. CASE i = None
  <2>1. m = e
    BY <1>1 DEF mergeQuotaByWindow
  <2>2. e # None => e.first \in Nat /\ e.second \in Nat
    BY DEF Readings
  <2> QED BY <1>0, <2>1, <2>2 DEF Windows
<1>2. CASE i # None /\ e = None
  <2>1. m = i
    BY <1>2 DEF mergeQuotaByWindow
  <2>2. latestQuotaCheckedAt(e) = 0
    BY <1>2 DEF latestQuotaCheckedAt
  <2> QED BY <1>0, <1>2, <2>1, <2>2
<1>3. CASE i # None /\ e # None
  <2> DEFINE fresher == latestQuotaCheckedAt(e) > latestQuotaCheckedAt(i)
             first == freshestWindow(i.first, e.first, fresher)
             second == freshestWindow(i.second, e.second, fresher)
  <2>1. /\ i \in Readings /\ e \in Readings
        /\ i.first \in Nat /\ i.second \in Nat /\ e.first \in Nat /\ e.second \in Nat
    BY <1>3 DEF Readings
  <2>2. m = [i EXCEPT !.first = first, !.second = second]
    BY <1>3 DEF mergeQuotaByWindow
  <2>3. /\ first \in Nat /\ second \in Nat
        /\ first \in {i.first, e.first} /\ second \in {i.second, e.second}
        /\ fresher => first >= e.first /\ second >= e.second
        /\ ~fresher => first >= i.first /\ second >= i.second
        /\ first = 0 \/ first >= e.first
        /\ second = 0 \/ second >= e.second
        /\ fresher /\ e.first = 0 => first = 0
        /\ fresher /\ e.second = 0 => second = 0
    BY <2>1, MaxOfTwo DEF freshestWindow
  <2> HIDE DEF first, second
  <2>4. m \in Readings /\ m.first = first /\ m.second = second
    BY <2>1, <2>2, <2>3 DEF Readings
  <2>5. m # None
    BY <2>4 DEF Readings, None
  <2>6. /\ first <= latestQuotaCheckedAt(m) /\ second <= latestQuotaCheckedAt(m)
        /\ latestQuotaCheckedAt(m) \in Nat
    BY <2>4, <2>5, LatestTyped
  <2>7. /\ latestQuotaCheckedAt(e) \in {e.first, e.second}
        /\ latestQuotaCheckedAt(i) \in {i.first, i.second}
    BY <1>3, LatestTyped
  <2>8. latestQuotaCheckedAt(m) >= latestQuotaCheckedAt(e)
    BY <1>0, <2>1, <2>3, <2>6, <2>7
  <2>9. \A k \in Windows : m[k] = i[k] \/ m[k] = e[k]
    BY <2>3, <2>4 DEF Windows
  <2>10. \A k \in Windows :
           /\ m[k] = 0 \/ m[k] >= e[k]
           /\ e[k] = 0 /\ latestQuotaCheckedAt(i) < latestQuotaCheckedAt(e) => m[k] = 0
    BY <1>0, <2>3, <2>4 DEF Windows
  <2> HIDE DEF m
  <2> QED BY <1>3, <2>4, <2>8, <2>9, <2>10 DEF m
<1> QED BY <1>1, <1>2, <1>3

LEMMA MergedRow ==
    ASSUME NEW i \in MainRows, NEW e \in MainRows
    PROVE  mergedRow(i, e) \in MainRows /\ KeepsReadings(e, i, mergedRow(i, e))
<1>1. /\ i.id \in Nat /\ i.quota \in Readings \cup {None}
      /\ e.id \in Nat /\ e.quota \in Readings \cup {None}
  BY DEF MainRows
<1> DEFINE r == mergedRow(i, e)
           q == IF sameAccountIdentity(i, e) THEN mergeQuotaByWindow(i.quota, e.quota)
                ELSE freshestQuota(i.quota, e.quota)
           kept == q = e.quota /\ q # i.quota
<1>2. /\ r = [id |-> IF kept /\ ~sameAccountIdentity(i, e) THEN e.id ELSE i.id, quota |-> q]
      /\ r.quota = q
      /\ r.id = IF kept /\ ~sameAccountIdentity(i, e) THEN e.id ELSE i.id
  BY DEF mergedRow
<1>3. latestQuotaCheckedAt(e.quota) \in Nat /\ latestQuotaCheckedAt(i.quota) \in Nat
  BY <1>1, LatestTyped
<1>4. CASE sameAccountIdentity(i, e)
  <2>1. i.id # 0 /\ i.id = e.id /\ r.id = i.id /\ q = mergeQuotaByWindow(i.quota, e.quota)
    BY <1>2, <1>4 DEF sameAccountIdentity
  <2>2. /\ q \in Readings \cup {None}
        /\ q # None => \A k \in Windows : \/ i.quota # None /\ q[k] = i.quota[k]
                                          \/ e.quota # None /\ q[k] = e.quota[k]
        /\ latestQuotaCheckedAt(q) >= latestQuotaCheckedAt(e.quota)
        /\ e.quota # None =>
               \A k \in Windows :
                   /\ q[k] = 0 \/ q[k] >= e.quota[k]
                   /\ e.quota[k] = 0
                        /\ latestQuotaCheckedAt(i.quota) < latestQuotaCheckedAt(e.quota)
                      => q[k] = 0
    BY <1>1, <2>1, MergedByWindow
  <2> HIDE DEF q, kept, r
  <2>3. r = [id |-> i.id, quota |-> q]
    BY <1>2, <2>1
  <2>4. r \in MainRows
    BY <1>1, <2>2, <2>3 DEF MainRows
  <2>5. Pairings(r) \subseteq Pairings(e) \cup Pairings(i)
    BY <1>2, <2>1, <2>2 DEF Pairings
  <2>6. KeepsReadings(e, i, r)
    BY <1>2, <2>2, <2>5 DEF KeepsReadings
  <2> QED BY <2>4, <2>6 DEF r
<1>5. CASE ~sameAccountIdentity(i, e)
  <2>1. q \in {i.quota, e.quota} /\ r.id = IF kept THEN e.id ELSE i.id
    BY <1>2, <1>5 DEF freshestQuota
  <2>2. latestQuotaCheckedAt(q) >= latestQuotaCheckedAt(e.quota)
    BY <1>3, <1>5 DEF freshestQuota
  <2>3. e.id = 0 \/ i.id # e.id
    BY <1>5 DEF sameAccountIdentity
  <2>4. CASE kept
    <3>1. r = [id |-> e.id, quota |-> e.quota]
      BY <1>2, <1>5, <2>4
    <3>2. r = e
      BY <3>1 DEF MainRows
    <3>3. \A k \in Windows : e.quota # None => e.quota[k] \in Nat
      BY <1>1 DEF Readings, Windows
    <3> HIDE DEF r, q, kept
    <3>4. KeepsReadings(e, i, r)
      BY <1>3, <3>2, <3>3 DEF KeepsReadings
    <3> QED BY <3>2, <3>4 DEF r
  <2>5. CASE ~kept
    <3>1. r = [id |-> i.id, quota |-> i.quota]
      BY <1>2, <1>5, <2>1, <2>5
    <3>2. r = i /\ q = i.quota
      BY <1>2, <3>1 DEF MainRows
    <3> HIDE DEF r, q, kept
    <3>3. KeepsReadings(e, i, r)
      BY <2>2, <2>3, <3>2 DEF KeepsReadings
    <3> QED BY <3>2, <3>3 DEF r
  <2> QED BY <2>4, <2>5
<1> QED BY <1>4, <1>5

(***************************************************************************)
(* Sidebar: merges into the file                                           *)
(***************************************************************************)
USE AccountsAssumption, AgesAssumption

LEMMA PrunedRoutes ==
    ASSUME NEW routes \in RouteMaps, NEW roster, NEW removed
    PROVE  pruneActiveRouting(routes, roster, removed) \in RouteMaps
BY DEF pruneActiveRouting, RouteMaps

LEMMA PrunedPins ==
    ASSUME NEW pins \in PinMaps, NEW roster, NEW removed
    PROVE  /\ pruneStickyAssignments(pins, roster, removed) \in PinMaps
           /\ \A t \in Sessions :
                /\ pruneStickyAssignments(pins, roster, removed)[t] \in {None, pins[t]}
                /\ t \in removed => pruneStickyAssignments(pins, roster, removed)[t] = None
BY DEF pruneStickyAssignments, PinMaps

LEMMA LimitedPins ==
    ASSUME NEW pins \in PinMaps, NEW s \in Sessions
    PROVE  /\ limitStickyAssignments(pins, s) \in PinMaps
           /\ \A t \in Sessions : limitStickyAssignments(pins, s)[t] \in {None, pins[t]}
<1> DEFINE others == {t \in Sessions \ {s} : pins[t] # None}
           over == Cardinality(others) + 1 - MaxPins
           evicted == IF over <= 0 THEN {}
                      ELSE CHOOSE G \in kSubset(over, others) :
                               \A g \in G, t \in others \ G : pins[g].seen <= pins[t].seen
<1>1. limitStickyAssignments(pins, s)
        = [t \in Sessions |-> IF t \in evicted THEN None ELSE pins[t]]
  BY DEF limitStickyAssignments
<1> HIDE DEF evicted
<1> QED BY <1>1 DEF PinMaps

LEMMA PinIsNotNone ==
    ASSUME NEW pin \in Pins
    PROVE  pin # None
<1>1. "acct" \in DOMAIN pin
  BY DEF Pins
<1>2. DOMAIN None = {}
  BY DEF None
<1> QED BY <1>1, <1>2

(* Of the pin that is written, its owner and its time stay.                  *)
WrittenPin(op, pin) ==
    /\ pin # None /\ pin.acct = op.pin.acct /\ pin.assigned = op.pin.assigned
    /\ pin.by = op.pin.by /\ pin.late = op.pin.late /\ pin.wire = op.pin.wire
    /\ pin.seen >= op.pin.seen

PinFrom(op, was, new) == \/ new \in {None, was}
                         \/ op.do = "pin" /\ WrittenPin(op, new)

LEMMA PinPersisted ==
    ASSUME NEW f \in SidebarFiles, NEW op \in Writes, op.do = "pin"
    PROVE  /\ persistSidebarStickyAssignment(f, op).pins \in PinMaps
           /\ persistSidebarStickyAssignment(f, op)
                = [f EXCEPT !.pins = persistSidebarStickyAssignment(f, op).pins]
           /\ \A t \in Sessions :
                \/ persistSidebarStickyAssignment(f, op).pins[t] \in {None, f.pins[t]}
                \/ t = op.s /\ WrittenPin(op, persistSidebarStickyAssignment(f, op).pins[t])
<1> DEFINE pins    == pruneStickyAssignments(f.pins, PinRoster(f, op), {})
           current == pins[op.s]
           like    == /\ current # None
                      /\ current.acct = op.pin.acct
                      /\ current.assigned = op.pin.assigned
           pin     == IF like THEN [op.pin EXCEPT !.seen = Max({@, current.seen})] ELSE op.pin
           put     == limitStickyAssignments([pins EXCEPT ![op.s] = pin], op.s)
           rest    == IF placedLater(current, op.pin) THEN pins ELSE put
<1>1. persistSidebarStickyAssignment(f, op) = [f EXCEPT !.pins = rest]
  BY DEF persistSidebarStickyAssignment
<1>2. op.s \in Sessions /\ op.pin \in Pins /\ f.pins \in PinMaps
  BY WriteFields, FileFields DEF OfSession
<1>3. pins \in PinMaps /\ \A t \in Sessions : pins[t] \in {None, f.pins[t]}
  BY <1>2, PrunedPins
<1> HIDE DEF pins
<1>4. current \in Pins \cup {None} /\ op.pin.seen \in Nat
  BY <1>2, <1>3 DEF PinMaps, Pins
<1>5. pin \in Pins /\ WrittenPin(op, pin)
  <2>0. op.pin # None
    BY <1>2, PinIsNotNone
  <2>1. CASE like
    <3>1. current.seen \in Nat /\ pin = [op.pin EXCEPT !.seen = Max({op.pin.seen, current.seen})]
      BY <1>4, <2>1 DEF Pins
    <3>2. Max({op.pin.seen, current.seen}) \in Nat
          /\ Max({op.pin.seen, current.seen}) >= op.pin.seen
      <4> HIDE DEF pin, current, like
      <4>1. op.pin.seen \in Nat /\ current.seen \in Nat
        BY <1>4, <3>1
      <4> QED BY <4>1, MaxOfTwo
    <3> HIDE DEF pin, current
    <3>3. pin \in Pins
      BY <1>2, <3>1, <3>2 DEF Pins
    <3>4. /\ pin.acct = op.pin.acct /\ pin.assigned = op.pin.assigned
          /\ pin.by = op.pin.by /\ pin.late = op.pin.late /\ pin.wire = op.pin.wire
          /\ pin.seen >= op.pin.seen
      BY <1>2, <3>1, <3>2 DEF Pins
    <3>5. pin # None
      BY <3>3, PinIsNotNone
    <3> QED BY <3>3, <3>4, <3>5 DEF WrittenPin
  <2>2. CASE ~like
    BY <1>2, <1>4, <2>0, <2>2 DEF WrittenPin
  <2> QED BY <2>1, <2>2
<1> HIDE DEF current, like, pin
<1>6. [pins EXCEPT ![op.s] = pin] \in PinMaps
  BY <1>2, <1>3, <1>5 DEF PinMaps
<1>7. put \in PinMaps /\ \A t \in Sessions : put[t] \in {None, [pins EXCEPT ![op.s] = pin][t]}
  BY <1>2, <1>6, LimitedPins
<1> HIDE DEF put
<1>8. \A t \in Sessions : put[t] \in {None, f.pins[t]} \/ (t = op.s /\ put[t] = pin)
  BY <1>2, <1>3, <1>7 DEF PinMaps
<1>9. /\ rest \in PinMaps
      /\ \A t \in Sessions : rest[t] \in {None, f.pins[t]} \/ (t = op.s /\ rest[t] = pin)
  BY <1>3, <1>7, <1>8
<1> HIDE DEF rest
<1>10. persistSidebarStickyAssignment(f, op).pins = rest
  BY <1>1 DEF SidebarFiles
<1> QED BY <1>1, <1>5, <1>9, <1>10

(* Only a display changes what is shown of the main account.                 *)
MainKept(f, op, main, vault) ==
    main # f.main =>
        op.do = "machine" /\ (~vault => KeepsReadings(f.main, op.row, main))

(* What every merge leaves in the file                                      *)
LEMMA Merged ==
    ASSUME NEW f \in SidebarFiles, NEW op \in Writes
    PROVE  /\ Merge(f, op) \in SidebarFiles
           /\ MainKept(f, op, Merge(f, op).main, op.mode = "vault")
           /\ \A t \in Sessions :
                /\ Merge(f, op).pins[t] \in {None, f.pins[t]}
                     \/ (op.do = "pin" /\ t = op.s /\ WrittenPin(op, Merge(f, op).pins[t]))
                /\ op.do \in {"remove", "clear"} /\ t = op.s => Merge(f, op).pins[t] = None
<1> DEFINE m == Merge(f, op)
<1>0. /\ f.vault \in BOOLEAN /\ f.dead \subseteq AnyAccount /\ f.main \in MainRows
      /\ f.active \in AnyAccount \cup {NoAccount}
      /\ f.routes \in RouteMaps /\ f.pins \in PinMaps
  BY FileFields
<1>1. /\ op.do \in OfSession \cup {"machine", "legacy"}
      /\ op.dead \subseteq AnyAccount /\ op.at \in Nat
      /\ op.do \in OfSession => op.s \in Sessions
      /\ op.do = "machine" => op.row \in MainRows
      /\ op.do \in {"route", "legacy"} => op.acct \in AnyAccount
      /\ op.do = "pin" => op.pin \in Pins
  BY WriteFields
<1>2. MainKept(f, op, f.main, op.mode = "vault")
  BY DEF MainKept
<1>3. CASE op.do = "machine"
  <2> DEFINE vault == op.mode = "vault"
             main == IF vault THEN [id |-> 0, quota |-> None] ELSE mergedRow(op.row, f.main)
             pins == pruneStickyAssignments(f.pins, IF vault THEN Locals \cup Vaults
                               ELSE {"main"} \cup (Locals \ op.dead), {})
  <2>1. m = [f EXCEPT !.vault = vault, !.dead = op.dead, !.main = main, !.pins = pins]
    BY <1>3 DEF Merge, setSidebarMachineState
  <2>2. pins \in PinMaps /\ \A t \in Sessions : pins[t] \in {None, f.pins[t]}
    BY <1>0, PrunedPins
  <2>3. /\ main \in MainRows
        /\ ~vault => KeepsReadings(f.main, op.row, main)
    <3>1. CASE vault
      <4>1. main = [id |-> 0, quota |-> None]
        BY <3>1
      <4> QED BY <3>1, <4>1 DEF MainRows
    <3>2. CASE ~vault
      BY <1>0, <1>1, <1>3, <3>2, MergedRow
    <3> QED BY <3>1, <3>2
  <2> HIDE DEF main, pins
  <2>4. /\ m \in SidebarFiles /\ m.main = main /\ m.pins = pins
    BY <1>0, <1>1, <2>1, <2>2, <2>3 DEF SidebarFiles
  <2> QED BY <1>3, <2>2, <2>3, <2>4 DEF MainKept
<1>4. CASE op.do = "route"
  <2> DEFINE routes == pruneActiveRouting([f.routes EXCEPT ![op.s] = [acct |-> op.acct, at |-> op.at]],
                                          op.roster, {})
             pins == pruneStickyAssignments(f.pins, PinRoster(f, op) \cup {"main"}, {})
  <2>1. m = [f EXCEPT !.active = op.acct, !.routes = routes, !.pins = pins]
    BY <1>4 DEF Merge, upsertSidebarActiveRouting
  <2>2. pins \in PinMaps /\ \A t \in Sessions : pins[t] \in {None, f.pins[t]}
    BY <1>0, PrunedPins
  <2>3. [f.routes EXCEPT ![op.s] = [acct |-> op.acct, at |-> op.at]] \in RouteMaps
    BY <1>0, <1>1, <1>4 DEF RouteMaps
  <2>4. routes \in RouteMaps
    BY <2>3, PrunedRoutes
  <2> HIDE DEF routes, pins
  <2>5. /\ m \in SidebarFiles /\ m.main = f.main /\ m.pins = pins
    BY <1>0, <1>1, <1>4, <2>1, <2>2, <2>4 DEF SidebarFiles
  <2> QED BY <1>2, <1>4, <2>2, <2>5
<1>5. CASE op.do = "legacy"
  <2>1. m = [f EXCEPT !.active = op.acct]
    BY <1>5 DEF Merge
  <2>2. /\ m \in SidebarFiles /\ m.main = f.main /\ m.pins = f.pins
    BY <1>0, <1>1, <1>5, <2>1 DEF SidebarFiles
  <2> QED BY <1>2, <1>5, <2>2
<1>6. CASE op.do = "pin"
  <2> DEFINE pins == persistSidebarStickyAssignment(f, op).pins
  <2>1. m = [f EXCEPT !.pins = pins]
    BY <1>6, PinPersisted DEF Merge
  <2>2. /\ pins \in PinMaps
        /\ \A t \in Sessions : pins[t] \in {None, f.pins[t]} \/ (t = op.s /\ WrittenPin(op, pins[t]))
    BY <1>6, PinPersisted
  <2> HIDE DEF pins
  <2>3. /\ m \in SidebarFiles /\ m.main = f.main /\ m.pins = pins
    BY <1>0, <2>1, <2>2 DEF SidebarFiles
  <2> QED BY <1>2, <1>6, <2>2, <2>3
<1>7. CASE op.do = "remove"
  <2> DEFINE routes == pruneActiveRouting(f.routes, op.roster, {op.s})
             pins == pruneStickyAssignments(f.pins, PinRoster(f, op) \cup {"main"}, {op.s})
  <2>1. m = [f EXCEPT !.routes = routes, !.pins = pins]
    BY <1>7 DEF Merge, removeSidebarActiveRouting
  <2>2. /\ pins \in PinMaps /\ routes \in RouteMaps
        /\ \A t \in Sessions : pins[t] \in {None, f.pins[t]} /\ (t = op.s => pins[t] = None)
    BY <1>0, PrunedPins, PrunedRoutes
  <2> HIDE DEF routes, pins
  <2>3. /\ m \in SidebarFiles /\ m.main = f.main /\ m.pins = pins
    BY <1>0, <2>1, <2>2 DEF SidebarFiles
  <2> QED BY <1>2, <1>7, <2>2, <2>3
<1>8. CASE op.do = "clear"
  <2>1. m = [f EXCEPT !.pins = [f.pins EXCEPT ![op.s] = None]]
    BY <1>8 DEF Merge, clearSidebarStickyAssignment
  <2>2. /\ m \in SidebarFiles /\ m.main = f.main /\ m.pins = [f.pins EXCEPT ![op.s] = None]
        /\ \A t \in Sessions : m.pins[t] \in {None, f.pins[t]} /\ (t = op.s => m.pins[t] = None)
    BY <1>0, <1>1, <1>8, <2>1 DEF SidebarFiles, PinMaps, OfSession
  <2> QED BY <1>2, <1>8, <2>2
<1> QED BY <1>1, <1>3, <1>4, <1>5, <1>6, <1>7, <1>8 DEF OfSession

(* The records of a file that shows the vault are of the vault's accounts.   *)
RecordsOfOneMode(f) ==
    f.vault =>
        /\ f.active \in Vaults \cup {NoAccount}
        /\ \A s \in Sessions :
               /\ f.routes[s] # None => f.routes[s].acct \in Vaults
               /\ f.pins[s] # None => f.pins[s].acct \in Vaults \ f.dead

LEMMA VaultOnly ==
    ASSUME NEW f \in SidebarFiles
    PROVE  /\ vaultOnly(f) \in SidebarFiles /\ RecordsOfOneMode(vaultOnly(f))
           /\ vaultOnly(f).main = f.main /\ vaultOnly(f).vault = f.vault
           /\ \A t \in Sessions : vaultOnly(f).pins[t] \in {None, f.pins[t]}
<1> DEFINE active == IF f.active \in Vaults THEN f.active ELSE NoAccount
           routes == [s \in Sessions |->
               IF f.routes[s] # None /\ f.routes[s].acct \in Vaults THEN f.routes[s] ELSE None]
           pins == [s \in Sessions |->
               IF /\ f.pins[s] # None /\ f.pins[s].acct \in Vaults
                  /\ ~(f.vault /\ f.pins[s].acct \in f.dead)
               THEN f.pins[s] ELSE None]
<1>1. vaultOnly(f) = [f EXCEPT !.active = active, !.routes = routes, !.pins = pins]
  BY DEF vaultOnly
<1>2. /\ f.vault \in BOOLEAN /\ f.active \in AnyAccount \cup {NoAccount}
      /\ f.routes \in RouteMaps /\ f.pins \in PinMaps
  BY FileFields
<1>3. active \in Vaults \cup {NoAccount}
  OBVIOUS
<1>4. /\ routes \in RouteMaps
      /\ \A s \in Sessions : routes[s] # None => routes[s].acct \in Vaults
  BY <1>2 DEF RouteMaps
<1>5. /\ pins \in PinMaps
      /\ \A s \in Sessions : /\ pins[s] \in {None, f.pins[s]}
                             /\ f.vault /\ pins[s] # None => pins[s].acct \in Vaults \ f.dead
  BY <1>2 DEF PinMaps
<1> HIDE DEF active, routes, pins
<1>6. /\ vaultOnly(f) \in SidebarFiles
      /\ vaultOnly(f).main = f.main /\ vaultOnly(f).vault = f.vault /\ vaultOnly(f).dead = f.dead
      /\ vaultOnly(f).active = active /\ vaultOnly(f).routes = routes
      /\ vaultOnly(f).pins = pins
  BY <1>1, <1>3, <1>4, <1>5 DEF SidebarFiles, AnyAccount
<1> QED BY <1>3, <1>4, <1>5, <1>6 DEF RecordsOfOneMode

(* What every write leaves in the file                                      *)
LEMMA MachineVault ==
    ASSUME NEW f \in SidebarFiles, NEW op, op.do = "machine"
    PROVE  Merge(f, op).vault = (op.mode = "vault")
BY DEF Merge, setSidebarMachineState, SidebarFiles

LEMMA WriteIsMerged ==
    ASSUME NEW f \in SidebarFiles, NEW op \in Writes
    PROVE  LET n == writeMergedSidebarState(f, op)
           IN  /\ n \in SidebarFiles /\ RecordsOfOneMode(n)
               /\ MainKept(f, op, n.main, n.vault)
               /\ \A t \in Sessions :
                    /\ n.pins[t] \in {None, f.pins[t]}
                         \/ (op.do = "pin" /\ t = op.s /\ WrittenPin(op, n.pins[t]))
                    /\ op.do \in {"remove", "clear"} /\ t = op.s => n.pins[t] = None
<1> DEFINE m == Merge(f, op)
           made == [m EXCEPT !.vault = m.vault /\ op.mode # "local"]
           n == writeMergedSidebarState(f, op)
           only == op.mode = "vault" \/ (op.mode = "any" /\ made.vault)
<1>1. n = IF only THEN vaultOnly(made) ELSE made
  BY DEF writeMergedSidebarState
<1>2. /\ m \in SidebarFiles
      /\ MainKept(f, op, m.main, op.mode = "vault")
      /\ op.do = "machine" => m.vault = (op.mode = "vault")
      /\ \A t \in Sessions :
           /\ m.pins[t] \in {None, f.pins[t]}
                \/ (op.do = "pin" /\ t = op.s /\ WrittenPin(op, m.pins[t]))
           /\ op.do \in {"remove", "clear"} /\ t = op.s => m.pins[t] = None
  BY Merged, MachineVault
<1> HIDE DEF m
<1>3. /\ made \in SidebarFiles /\ made.main = m.main /\ made.pins = m.pins
      /\ made.vault = (m.vault /\ op.mode # "local")
  BY <1>2 DEF SidebarFiles
<1> HIDE DEF made
<1>4. op.mode \in {"local", "vault", "any"}
  BY WriteFields
<1>5. CASE only
  <2>1. /\ n \in SidebarFiles /\ RecordsOfOneMode(n) /\ n.main = m.main /\ n.vault = made.vault
        /\ \A t \in Sessions : n.pins[t] \in {None, m.pins[t]}
    BY <1>1, <1>3, <1>5, VaultOnly
  <2>2. MainKept(f, op, n.main, n.vault)
    BY <1>2, <1>3, <2>1 DEF MainKept
  <2> QED BY <1>2, <2>1, <2>2
<1>6. CASE ~only
  <2>1. n = made /\ ~made.vault
    BY <1>1, <1>3, <1>4, <1>6
  <2>2. MainKept(f, op, n.main, n.vault)
    BY <1>2, <1>3, <2>1 DEF MainKept
  <2> QED BY <1>2, <1>3, <2>1, <2>2 DEF RecordsOfOneMode
<1> QED BY <1>5, <1>6

(***************************************************************************)
(* Sidebar: the queue of a process                                         *)
(***************************************************************************)
LEMMA MappedSeq ==
    ASSUME NEW T, NEW U, NEW s \in Seq(T), NEW g,
           g = [i \in DOMAIN s |-> g[i]], \A i \in DOMAIN s : g[i] \in U
    PROVE  g \in Seq(U) /\ Len(g) = Len(s) /\ DOMAIN g = DOMAIN s
<1>1. DOMAIN s = 1 .. Len(s) /\ Len(s) \in Nat
  OBVIOUS
<1>2. g \in [1 .. Len(s) -> U]
  BY <1>1
<1> QED BY <1>1, <1>2

LEMMA AppendedAt ==
    ASSUME NEW T, NEW s \in Seq(T), NEW x \in T
    PROVE  /\ DOMAIN s = 1 .. Len(s) /\ Len(s) \in Nat
           /\ DOMAIN Append(s, x) = 1 .. Len(s) + 1
           /\ Append(s, x)[Len(s) + 1] = x
           /\ \A i \in DOMAIN s : Append(s, x)[i] = s[i]
OBVIOUS

LEMMA TailAt ==
    ASSUME NEW T, NEW s \in Seq(T), s # <<>>
    PROVE  /\ Tail(s) \in Seq(T)
           /\ 1 \in DOMAIN s /\ Head(s) = s[1]
           /\ \A i \in DOMAIN Tail(s) : i \in Nat /\ i + 1 \in DOMAIN s /\ Tail(s)[i] = s[i + 1]
           /\ \A i \in DOMAIN s : i = 1 \/ (i - 1 \in DOMAIN Tail(s) /\ Tail(s)[i - 1] = s[i])
<1>1. /\ Len(s) \in Nat /\ Len(s) # 0 /\ DOMAIN s = 1 .. Len(s)
      /\ Tail(s) \in Seq(T) /\ Len(Tail(s)) = Len(s) - 1 /\ Head(s) = s[1]
  OBVIOUS
<1>2. \A i \in 1 .. Len(s) - 1 : Tail(s)[i] = s[i + 1]
  OBVIOUS
<1>3. DOMAIN Tail(s) = 1 .. Len(s) - 1
  BY <1>1
<1>4. ASSUME NEW i \in DOMAIN s, i # 1
      PROVE  i - 1 \in DOMAIN Tail(s) /\ Tail(s)[i - 1] = s[i]
  <2>1. i - 1 \in 1 .. Len(s) - 1 /\ (i - 1) + 1 = i
    BY <1>1, <1>4
  <2> QED BY <1>2, <1>3, <2>1
<1> QED BY <1>1, <1>2, <1>3, <1>4

LEMMA ConcatenatedAt ==
    ASSUME NEW T, NEW s \in Seq(T), NEW t \in Seq(T)
    PROVE  /\ s \o t \in Seq(T)
           /\ \A k \in DOMAIN (s \o t) :
                \/ k \in DOMAIN s /\ (s \o t)[k] = s[k]
                \/ k \notin DOMAIN s /\ k - Len(s) \in DOMAIN t /\ (s \o t)[k] = t[k - Len(s)]
           /\ DOMAIN s = 1 .. Len(s) /\ Len(s) \in Nat /\ DOMAIN (s \o t) \subseteq Nat
           /\ DOMAIN s \subseteq DOMAIN (s \o t)
<1>1. /\ Len(s) \in Nat /\ Len(t) \in Nat /\ s \o t \in Seq(T)
      /\ DOMAIN (s \o t) = 1 .. Len(s) + Len(t)
      /\ DOMAIN s = 1 .. Len(s) /\ DOMAIN t = 1 .. Len(t)
  OBVIOUS
<1>2. \A k \in 1 .. Len(s) : (s \o t)[k] = s[k]
  OBVIOUS
<1>3. \A k \in Len(s) + 1 .. Len(s) + Len(t) : (s \o t)[k] = t[k - Len(s)]
  OBVIOUS
<1>4. ASSUME NEW k \in DOMAIN (s \o t), k \notin DOMAIN s
      PROVE  k - Len(s) \in DOMAIN t /\ (s \o t)[k] = t[k - Len(s)]
  <2>1. k \in Len(s) + 1 .. Len(s) + Len(t)
    BY <1>1, <1>4
  <2>2. k - Len(s) \in 1 .. Len(t)
    BY <1>1, <2>1
  <2> QED BY <1>1, <1>3, <2>1, <2>2
<1> QED BY <1>1, <1>2, <1>4

(* A write that was called may only stop counting.                           *)
Weaker(new, was) ==
    /\ new.do = was.do /\ new.s = was.s /\ new.mode = was.mode /\ new.pin = was.pin
    /\ new.newest => was.newest

LEMMA ForgetTyped ==
    ASSUME NEW ops \in Seq(Writes), NEW do, NEW s
    PROVE  /\ Forget(ops, do, s) \in Seq(Writes) /\ Len(Forget(ops, do, s)) = Len(ops)
           /\ DOMAIN Forget(ops, do, s) = DOMAIN ops
           /\ \A i \in DOMAIN ops :
                /\ Weaker(Forget(ops, do, s)[i], ops[i])
                /\ SameKey(ops[i], do, s) => ~Forget(ops, do, s)[i].newest
                /\ ~SameKey(ops[i], do, s) => Forget(ops, do, s)[i] = ops[i]
<1> DEFINE g == Forget(ops, do, s)
<1>1. g = [i \in DOMAIN ops |-> IF SameKey(ops[i], do, s) THEN [ops[i] EXCEPT !.newest = FALSE]
                                ELSE ops[i]]
  BY DEF Forget
<1>2. ASSUME NEW op \in Writes
      PROVE  /\ [op EXCEPT !.newest = FALSE] \in Writes
             /\ Weaker([op EXCEPT !.newest = FALSE], op) /\ ~[op EXCEPT !.newest = FALSE].newest
  BY DEF Writes, WriteTypes, Weaker
<1>3. \A i \in DOMAIN ops : ops[i] \in Writes
  OBVIOUS
<1>4. \A i \in DOMAIN ops :
        /\ g[i] \in Writes /\ Weaker(g[i], ops[i])
        /\ SameKey(ops[i], do, s) => ~g[i].newest
        /\ ~SameKey(ops[i], do, s) => g[i] = ops[i]
  <2> SUFFICES ASSUME NEW i \in DOMAIN ops
               PROVE  /\ g[i] \in Writes /\ Weaker(g[i], ops[i])
                      /\ SameKey(ops[i], do, s) => ~g[i].newest
                      /\ ~SameKey(ops[i], do, s) => g[i] = ops[i]
    OBVIOUS
  <2>1. CASE SameKey(ops[i], do, s)
    <3>1. g[i] = [ops[i] EXCEPT !.newest = FALSE]
      BY <1>1, <2>1
    <3> QED BY <1>2, <1>3, <2>1, <3>1
  <2>2. CASE ~SameKey(ops[i], do, s)
    <3>1. g[i] = ops[i]
      BY <1>1, <2>2
    <3> QED BY <1>3, <2>2, <3>1 DEF Weaker
  <2> QED BY <2>1, <2>2
<1>5. g = [i \in DOMAIN ops |-> g[i]]
  BY <1>1
<1> HIDE DEF g
<1>6. g \in Seq(Writes) /\ Len(g) = Len(ops) /\ DOMAIN g = DOMAIN ops
  BY <1>4, <1>5, MappedSeq
<1> QED BY <1>4, <1>6 DEF g

LEMMA EnqueueTyped ==
    ASSUME NEW ops \in Seq(Writes), NEW op \in Writes
    PROVE  /\ Enqueue(ops, op) \in Seq(Writes)
           /\ DOMAIN ops = 1 .. Len(ops) /\ Len(ops) \in Nat
           /\ DOMAIN Enqueue(ops, op) = 1 .. Len(ops) + 1
           /\ Enqueue(ops, op)[Len(ops) + 1] = op
           /\ \A i \in DOMAIN ops :
                /\ Weaker(Enqueue(ops, op)[i], ops[i])
                /\ ~SameKey(ops[i], op.do, op.s) => Enqueue(ops, op)[i] = ops[i]
<1> DEFINE g == Forget(ops, op.do, op.s)
<1>1. /\ g \in Seq(Writes) /\ Len(g) = Len(ops) /\ DOMAIN g = DOMAIN ops
      /\ \A i \in DOMAIN ops : /\ Weaker(g[i], ops[i])
                               /\ ~SameKey(ops[i], op.do, op.s) => g[i] = ops[i]
  BY ForgetTyped
<1> HIDE DEF g
<1>2. /\ Append(g, op) \in Seq(Writes)
      /\ DOMAIN g = 1 .. Len(g) /\ Len(g) \in Nat
      /\ DOMAIN Append(g, op) = 1 .. Len(g) + 1
      /\ Append(g, op)[Len(g) + 1] = op
      /\ \A i \in DOMAIN g : Append(g, op)[i] = g[i]
  BY <1>1, AppendedAt, Appended
<1>3. Enqueue(ops, op) = Append(g, op)
  BY DEF Enqueue, g
<1> QED BY <1>1, <1>2, <1>3

LEMMA WithoutTyped ==
    ASSUME NEW ops \in Seq(Writes), NEW do, NEW s
    PROVE  /\ Without(ops, do, s) \in Seq(Writes)
           /\ Range(Without(ops, do, s)) = {op \in Range(ops) : ~SameKey(op, do, s)}
BY OnlyKeeps DEF Without

(* A pin placed before its session was deleted                              *)
EarlyPin(op, s) == SameKey(op, "pin", s) /\ ~op.pin.late

(* A removal is given up when it fails, and no mode stops it.                *)
Dropped(op) == ~op.newest /\ op.mode = "any"

(* What a queue c with retries r has of a session: no early pin follows the  *)
(* removal of the session or waits for a retry, and none is left once it is  *)
(* gone.                                                                     *)
RemovalsLast(c, r, state, s) ==
    /\ \A i \in DOMAIN c : SameKey(c[i], "remove", s) => state # "live" /\ Dropped(c[i])
    /\ \A op \in Range(r) : ~SameKey(op, "remove", s)
    /\ state # "live" =>
         /\ \A op \in Range(r) : ~EarlyPin(op, s)
         /\ \A i \in DOMAIN c : EarlyPin(c[i], s) => ~c[i].newest
    /\ \A i, j \in DOMAIN c : i < j /\ SameKey(c[i], "remove", s) => ~EarlyPin(c[j], s)
    /\ state = "gone" => \A i \in DOMAIN c : ~EarlyPin(c[i], s)

(* Every pin of E that is not written yet has its write in the queue.        *)
WriteOf(op, e) == SameKey(op, "pin", e.s) /\ op.newest /\ op.pin = e.pin

OnTheirWay(c, r, E) ==
    \A e \in E : e.landed = 0 /\ e.queued =>
        \E op \in Range(c) \cup Range(r) : WriteOf(op, e) /\ op.retried

OwnPins(c, r, p) ==
    \A op \in Range(c) \cup Range(r) : op.do = "pin" => op.pin.by = p

LEMMA InRange ==
    ASSUME NEW T, NEW s \in Seq(T)
    PROVE  /\ \A i \in DOMAIN s : s[i] \in Range(s) /\ s[i] \in T
           /\ \A x \in Range(s) : x \in T /\ \E i \in DOMAIN s : s[i] = x
           /\ DOMAIN s = 1 .. Len(s) /\ Len(s) \in Nat
BY DEF Range

(* A write is added.                                                        *)
LEMMA EnqueuedLast ==
    ASSUME NEW c \in Seq(Writes), NEW r \in Seq(Writes), NEW op \in Writes, NEW s, NEW state,
           RemovalsLast(c, r, state, s),
           op.do \notin {"remove", "clear"}, EarlyPin(op, s) => state = "live"
    PROVE  RemovalsLast(Enqueue(c, op), Unqueue(r, op), state, s)
<1> DEFINE d == Enqueue(c, op)
           q == Unqueue(r, op)
<1>1. /\ DOMAIN c = 1 .. Len(c) /\ Len(c) \in Nat
      /\ DOMAIN d = 1 .. Len(c) + 1 /\ d[Len(c) + 1] = op
      /\ \A i \in DOMAIN c : Weaker(d[i], c[i])
  BY EnqueueTyped
<1>2. Range(q) \subseteq Range(r)
  BY WithoutTyped DEF Unqueue
<1> HIDE DEF d, q
<1>3. \A i \in DOMAIN d : i \in DOMAIN c \/ (i = Len(c) + 1 /\ i \notin DOMAIN c)
  BY <1>1
<1>4. \A i \in DOMAIN c : /\ SameKey(d[i], "remove", s) <=> SameKey(c[i], "remove", s)
                          /\ EarlyPin(d[i], s) <=> EarlyPin(c[i], s)
                          /\ d[i].newest => c[i].newest
                          /\ d[i].mode = c[i].mode
  BY <1>1 DEF Weaker, SameKey, EarlyPin
<1>5. ~SameKey(op, "remove", s)
  BY DEF SameKey
<1>6. \A i \in DOMAIN d : SameKey(d[i], "remove", s) => state # "live" /\ Dropped(d[i])
  BY <1>1, <1>3, <1>4, <1>5 DEF RemovalsLast, Dropped
<1>7. \A i \in DOMAIN d : state # "live" /\ EarlyPin(d[i], s) => ~d[i].newest
  BY <1>1, <1>3, <1>4 DEF RemovalsLast
<1>8. ASSUME NEW i \in DOMAIN d, NEW j \in DOMAIN d, i < j, SameKey(d[i], "remove", s)
      PROVE  ~EarlyPin(d[j], s)
  <2>1. i \in DOMAIN c
    BY <1>1, <1>3, <1>5, <1>8
  <2>2. CASE j \in DOMAIN c
    BY <1>4, <1>8, <2>1, <2>2 DEF RemovalsLast
  <2>3. CASE j \notin DOMAIN c
    <3>1. state # "live" /\ d[j] = op
      BY <1>1, <1>3, <1>6, <1>8, <2>3
    <3> QED BY <3>1
  <2> QED BY <2>2, <2>3
<1>9. state = "gone" => \A i \in DOMAIN d : ~EarlyPin(d[i], s)
  BY <1>1, <1>3, <1>4 DEF RemovalsLast
<1>10. /\ \A x \in Range(q) : ~SameKey(x, "remove", s)
       /\ state # "live" => \A x \in Range(q) : ~EarlyPin(x, s)
  BY <1>2 DEF RemovalsLast
<1> QED BY <1>6, <1>7, <1>8, <1>9, <1>10 DEF RemovalsLast, d, q

LEMMA EnqueuedOnItsWay ==
    ASSUME NEW c \in Seq(Writes), NEW r \in Seq(Writes), NEW op \in Writes, NEW E,
           OnTheirWay(c, r, E), op.do # "pin" \/ \A e \in E : e.s # op.s
    PROVE  OnTheirWay(Enqueue(c, op), Unqueue(r, op), E)
<1> DEFINE d == Enqueue(c, op)
           q == Unqueue(r, op)
<1>1. /\ DOMAIN c \subseteq DOMAIN d
      /\ \A i \in DOMAIN c : ~SameKey(c[i], op.do, op.s) => d[i] = c[i]
  <2>1. /\ DOMAIN c = 1 .. Len(c) /\ Len(c) \in Nat /\ DOMAIN d = 1 .. Len(c) + 1
        /\ \A i \in DOMAIN c : ~SameKey(c[i], op.do, op.s) => d[i] = c[i]
    BY EnqueueTyped
  <2> QED BY <2>1
<1>2. Range(q) = {x \in Range(r) : ~SameKey(x, op.do, op.s)}
  BY WithoutTyped DEF Unqueue
<1> HIDE DEF d, q
<1> SUFFICES ASSUME NEW e \in E, e.landed = 0, e.queued
             PROVE  \E x \in Range(d) \cup Range(q) : WriteOf(x, e) /\ x.retried
  BY DEF OnTheirWay, d, q
<1>3. PICK x \in Range(c) \cup Range(r) : WriteOf(x, e) /\ x.retried
  BY DEF OnTheirWay
<1>4. ~SameKey(x, op.do, op.s)
  BY <1>3 DEF WriteOf, SameKey
<1>5. CASE x \in Range(r)
  BY <1>2, <1>3, <1>4, <1>5
<1>6. CASE x \in Range(c)
  <2>1. PICK i \in DOMAIN c : c[i] = x
    BY <1>6, InRange
  <2>2. i \in DOMAIN d /\ d[i] = x
    BY <1>1, <1>4, <2>1
  <2>3. x \in Range(d)
    BY <2>2 DEF Range
  <2> QED BY <1>3, <2>3
<1> QED BY <1>3, <1>5, <1>6

LEMMA EnqueuedIsThere ==
    ASSUME NEW c \in Seq(Writes), NEW op \in Writes
    PROVE  op \in Range(Enqueue(c, op))
<1>1. /\ Len(c) \in Nat /\ DOMAIN Enqueue(c, op) = 1 .. Len(c) + 1
      /\ Enqueue(c, op)[Len(c) + 1] = op
  BY EnqueueTyped
<1>2. Len(c) + 1 \in DOMAIN Enqueue(c, op)
  BY <1>1
<1> QED BY <1>1, <1>2 DEF Range

LEMMA EnqueuedOwn ==
    ASSUME NEW c \in Seq(Writes), NEW r \in Seq(Writes), NEW op \in Writes, NEW p,
           OwnPins(c, r, p), op.do = "pin" => op.pin.by = p
    PROVE  OwnPins(Enqueue(c, op), Unqueue(r, op), p)
<1> DEFINE d == Enqueue(c, op)
           q == Unqueue(r, op)
<1>1. /\ DOMAIN c = 1 .. Len(c) /\ Len(c) \in Nat
      /\ DOMAIN d = 1 .. Len(c) + 1 /\ d[Len(c) + 1] = op
      /\ \A i \in DOMAIN c : Weaker(d[i], c[i])
  BY EnqueueTyped
<1>2. Range(q) \subseteq Range(r)
  BY WithoutTyped DEF Unqueue
<1> HIDE DEF d, q
<1>3. ASSUME NEW x \in Range(d) PROVE x.do = "pin" => x.pin.by = p
  <2>1. PICK i \in DOMAIN d : d[i] = x
    BY DEF Range
  <2>2. CASE i \in DOMAIN c
    <3>1. c[i] \in Range(c) /\ x.do = c[i].do /\ x.pin = c[i].pin
      BY <1>1, <2>1, <2>2 DEF Range, Weaker
    <3> QED BY <3>1 DEF OwnPins
  <2>3. CASE i \notin DOMAIN c
    BY <1>1, <2>1, <2>3
  <2> QED BY <2>2, <2>3
<1> QED BY <1>2, <1>3 DEF OwnPins, d, q

(* The writes stay what they are, or count no more.                         *)
LEMMA WeakenedLast ==
    ASSUME NEW c, NEW d, NEW r, NEW q, NEW s, NEW state, RemovalsLast(c, r, state, s),
           DOMAIN d = DOMAIN c, \A i \in DOMAIN c : Weaker(d[i], c[i]),
           Range(q) \subseteq Range(r)
    PROVE  RemovalsLast(d, q, state, s)
<1>1. \A i \in DOMAIN c : /\ SameKey(d[i], "remove", s) <=> SameKey(c[i], "remove", s)
                          /\ EarlyPin(d[i], s) <=> EarlyPin(c[i], s)
                          /\ d[i].newest => c[i].newest
                          /\ d[i].mode = c[i].mode
  BY DEF Weaker, SameKey, EarlyPin
<1> QED BY <1>1 DEF RemovalsLast, Dropped

(* The oldest write is done: a removal that lands leaves no early pin.       *)
LEMMA DoneLast ==
    ASSUME NEW c \in Seq(Writes), c # <<>>, NEW r \in Seq(Writes), NEW s, NEW state,
           RemovalsLast(c, r, state, s)
    PROVE  /\ RemovalsLast(Tail(c), r, state, s)
           /\ SameKey(Head(c), "remove", s) => RemovalsLast(Tail(c), r, "gone", s)
<1> DEFINE d == Tail(c)
<1>1. /\ 1 \in DOMAIN c /\ Head(c) = c[1]
      /\ \A i \in DOMAIN d : i \in Nat /\ i + 1 \in DOMAIN c /\ d[i] = c[i + 1]
  BY TailAt
<1> HIDE DEF d
<1>2. \A i \in DOMAIN d : /\ SameKey(d[i], "remove", s) => state # "live" /\ Dropped(d[i])
                          /\ state # "live" /\ EarlyPin(d[i], s) => ~d[i].newest
                          /\ state = "gone" => ~EarlyPin(d[i], s)
  BY <1>1 DEF RemovalsLast
<1>3. ASSUME NEW i \in DOMAIN d, NEW j \in DOMAIN d, i < j, SameKey(d[i], "remove", s)
      PROVE  ~EarlyPin(d[j], s)
  <2>1. i + 1 < j + 1 /\ SameKey(c[i + 1], "remove", s)
    BY <1>1, <1>3
  <2> QED BY <1>1, <2>1 DEF RemovalsLast
<1>4. RemovalsLast(d, r, state, s)
  BY <1>2, <1>3 DEF RemovalsLast
<1>5. ASSUME SameKey(Head(c), "remove", s) PROVE RemovalsLast(d, r, "gone", s)
  <2>1. state # "live"
    BY <1>1, <1>5 DEF RemovalsLast
  <2>2. ASSUME NEW i \in DOMAIN d PROVE ~EarlyPin(d[i], s)
    <3>1. i + 1 \in DOMAIN c /\ 1 < i + 1 /\ d[i] = c[i + 1]
      <4>1. i # 0
        <5>1. \A k \in DOMAIN Tail(c) : k # 0
          <6>1. DOMAIN Tail(c) = 1 .. Len(Tail(c))
            BY TailAt
          <6> QED BY <6>1
        <5> QED BY <5>1 DEF d
      <4> QED BY <1>1, <4>1
    <3> QED BY <1>1, <1>5, <3>1 DEF RemovalsLast
  <2> QED BY <1>2, <1>4, <2>1, <2>2 DEF RemovalsLast
<1> QED BY <1>4, <1>5 DEF d

LEMMA DoneOnTheirWay ==
    ASSUME NEW c \in Seq(Writes), c # <<>>, NEW r, NEW E, OnTheirWay(c, r, E),
           \A e \in E : e.landed = 0 => ~WriteOf(Head(c), e)
    PROVE  OnTheirWay(Tail(c), r, E)
<1> SUFFICES ASSUME NEW e \in E, e.landed = 0, e.queued
             PROVE  \E op \in Range(Tail(c)) \cup Range(r) : WriteOf(op, e) /\ op.retried
  BY DEF OnTheirWay
<1>1. PICK op \in Range(c) \cup Range(r) : WriteOf(op, e) /\ op.retried
  BY DEF OnTheirWay
<1>2. CASE op \in Range(r)
  BY <1>1, <1>2
<1>3. CASE op \in Range(c)
  <2>1. PICK i \in DOMAIN c : c[i] = op
    BY <1>3 DEF Range
  <2>2. i # 1
    <3>1. Head(c) = c[1]
      BY TailAt
    <3> QED BY <1>1, <2>1, <3>1
  <2>3. i - 1 \in DOMAIN Tail(c) /\ Tail(c)[i - 1] = op
    BY <2>1, <2>2, TailAt
  <2>4. op \in Range(Tail(c))
    BY <2>3 DEF Range
  <2> QED BY <1>1, <2>4
<1> QED BY <1>1, <1>2, <1>3

LEMMA DoneOwn ==
    ASSUME NEW T, NEW c \in Seq(T), c # <<>>, NEW r, NEW p, OwnPins(c, r, p)
    PROVE  OwnPins(Tail(c), r, p)
BY HeadAndTail DEF OwnPins

(* The oldest write fails, and waits for its retry while it counts.          *)
LEMMA FailedLast ==
    ASSUME NEW c \in Seq(Writes), c # <<>>, NEW r \in Seq(Writes), NEW s, NEW state,
           RemovalsLast(c, r, state, s), Head(c).newest
    PROVE  RemovalsLast(Tail(c), Append(r, Head(c)), state, s)
<1>1. RemovalsLast(Tail(c), r, state, s)
  BY DoneLast
<1>2. /\ 1 \in DOMAIN c /\ Head(c) = c[1] /\ Head(c) \in Writes
  BY TailAt, HeadAndTail
<1>3. Range(Append(r, Head(c))) = Range(r) \cup {Head(c)}
  BY <1>2, Appended
<1>4. ~SameKey(Head(c), "remove", s) /\ (state # "live" => ~EarlyPin(Head(c), s))
  BY <1>2 DEF RemovalsLast, Dropped
<1> QED BY <1>1, <1>3, <1>4 DEF RemovalsLast

LEMMA FailedOnTheirWay ==
    ASSUME NEW c \in Seq(Writes), c # <<>>, NEW r \in Seq(Writes), NEW E, OnTheirWay(c, r, E),
           NEW q, q = IF Head(c).newest /\ Head(c).retried THEN Append(r, Head(c)) ELSE r
    PROVE  OnTheirWay(Tail(c), q, E)
<1>1. Head(c) \in Writes
  BY HeadAndTail
<1>2. Range(Append(r, Head(c))) = Range(r) \cup {Head(c)}
  BY <1>1, Appended
<1>3. Range(r) \subseteq Range(q)
  BY <1>2
<1> SUFFICES ASSUME NEW e \in E, e.landed = 0, e.queued
             PROVE  \E op \in Range(Tail(c)) \cup Range(q) : WriteOf(op, e) /\ op.retried
  BY DEF OnTheirWay
<1>4. PICK op \in Range(c) \cup Range(r) : WriteOf(op, e) /\ op.retried
  BY DEF OnTheirWay
<1>5. CASE op \in Range(r)
  BY <1>3, <1>4, <1>5
<1>6. CASE op \in Range(c)
  <2>1. PICK i \in DOMAIN c : c[i] = op
    BY <1>6 DEF Range
  <2>2. CASE i = 1
    <3>1. op = Head(c)
      BY <2>1, <2>2, TailAt
    <3>2. op \in Range(q)
      BY <1>2, <1>4, <3>1 DEF WriteOf
    <3> QED BY <1>4, <3>2
  <2>3. CASE i # 1
    <3>1. i - 1 \in DOMAIN Tail(c) /\ Tail(c)[i - 1] = op
      BY <2>1, <2>3, TailAt
    <3>2. op \in Range(Tail(c))
      BY <3>1 DEF Range
    <3> QED BY <1>4, <3>2
  <2> QED BY <2>2, <2>3
<1> QED BY <1>4, <1>5, <1>6

LEMMA FailedOwn ==
    ASSUME NEW c \in Seq(Writes), c # <<>>, NEW r \in Seq(Writes), NEW p, OwnPins(c, r, p)
    PROVE  OwnPins(Tail(c), Append(r, Head(c)), p)
<1>1. /\ Head(c) \in Writes /\ Head(c) \in Range(c) /\ Range(Tail(c)) \subseteq Range(c)
  BY HeadAndTail
<1>2. Range(Append(r, Head(c))) = Range(r) \cup {Head(c)}
  BY <1>1, Appended
<1> QED BY <1>1, <1>2 DEF OwnPins

(* The timer calls the kept writes again: only the display is built anew.    *)
CalledAgain(g, r) ==
    /\ DOMAIN g = DOMAIN r
    /\ \A i \in DOMAIN r : /\ g[i].do = r[i].do
                           /\ r[i].do # "machine" => g[i] = r[i]

LEMMA RetriedLast ==
    ASSUME NEW c \in Seq(Writes), NEW r \in Seq(Writes), NEW g \in Seq(Writes), CalledAgain(g, r),
           NEW s, NEW state, RemovalsLast(c, r, state, s)
    PROVE  RemovalsLast(c \o g, <<>>, state, s)
<1> DEFINE d == c \o g
<1>1. /\ \A k \in DOMAIN d :
           \/ k \in DOMAIN c /\ d[k] = c[k]
           \/ k \notin DOMAIN c /\ k - Len(c) \in DOMAIN g /\ d[k] = g[k - Len(c)]
      /\ DOMAIN c = 1 .. Len(c) /\ Len(c) \in Nat /\ DOMAIN d \subseteq Nat
  BY ConcatenatedAt
<1> HIDE DEF d
<1>2. ASSUME NEW i \in DOMAIN g
      PROVE  ~SameKey(g[i], "remove", s) /\ (state # "live" => ~EarlyPin(g[i], s))
  <2>1. /\ ~SameKey(r[i], "remove", s) /\ (state # "live" => ~EarlyPin(r[i], s))
    BY <1>2, InRange DEF RemovalsLast, CalledAgain
  <2>2. CASE r[i].do = "machine"
    BY <1>2, <2>2 DEF CalledAgain, SameKey, EarlyPin
  <2>3. CASE r[i].do # "machine"
    BY <1>2, <2>1, <2>3 DEF CalledAgain
  <2> QED BY <2>2, <2>3
<1>3. \A k \in DOMAIN d :
        /\ SameKey(d[k], "remove", s) =>
             k \in DOMAIN c /\ d[k] = c[k] /\ state # "live" /\ Dropped(d[k])
        /\ state # "live" /\ EarlyPin(d[k], s) => k \in DOMAIN c /\ d[k] = c[k] /\ ~d[k].newest
        /\ state = "gone" => ~EarlyPin(d[k], s)
  BY <1>1, <1>2 DEF RemovalsLast
<1>4. ASSUME NEW i \in DOMAIN d, NEW j \in DOMAIN d, i < j, SameKey(d[i], "remove", s)
      PROVE  ~EarlyPin(d[j], s)
  BY <1>3, <1>4 DEF RemovalsLast
<1>5. Range(<<>>) = {}
  BY DEF Range
<1> QED BY <1>3, <1>4, <1>5 DEF RemovalsLast, d

LEMMA RetriedRange ==
    ASSUME NEW c \in Seq(Writes), NEW r \in Seq(Writes), NEW g \in Seq(Writes), CalledAgain(g, r)
    PROVE  /\ Range(c) \subseteq Range(c \o g)
           /\ \A op \in Range(r) : op.do # "machine" => op \in Range(c \o g)
           /\ \A op \in Range(c \o g) : op.do # "machine" => op \in Range(c) \cup Range(r)
<1>1. Range(c \o g) = Range(c) \cup Range(g)
  BY Concatenated
<1>2. ASSUME NEW op \in Range(r), op.do # "machine" PROVE op \in Range(g)
  <2>1. PICK i \in DOMAIN r : r[i] = op
    BY DEF Range
  <2>2. i \in DOMAIN g /\ g[i] = op
    BY <1>2, <2>1 DEF CalledAgain
  <2> QED BY <2>2 DEF Range
<1>3. ASSUME NEW op \in Range(g), op.do # "machine" PROVE op \in Range(r)
  <2>1. PICK i \in DOMAIN g : g[i] = op
    BY DEF Range
  <2>2. i \in DOMAIN r /\ r[i] = op
    BY <1>3, <2>1 DEF CalledAgain
  <2> QED BY <2>2 DEF Range
<1> QED BY <1>1, <1>2, <1>3

LEMMA RetriedOnTheirWay ==
    ASSUME NEW c \in Seq(Writes), NEW r \in Seq(Writes), NEW g \in Seq(Writes), CalledAgain(g, r),
           NEW E, OnTheirWay(c, r, E)
    PROVE  OnTheirWay(c \o g, <<>>, E)
<1> SUFFICES ASSUME NEW e \in E, e.landed = 0, e.queued
             PROVE  \E op \in Range(c \o g) : WriteOf(op, e) /\ op.retried
  BY DEF OnTheirWay
<1>1. PICK op \in Range(c) \cup Range(r) : WriteOf(op, e) /\ op.retried
  BY DEF OnTheirWay
<1>2. op \in Range(c \o g)
  BY <1>1, RetriedRange DEF WriteOf, SameKey
<1> QED BY <1>1, <1>2

LEMMA RetriedOwn ==
    ASSUME NEW c \in Seq(Writes), NEW r \in Seq(Writes), NEW g \in Seq(Writes), CalledAgain(g, r),
           NEW p, OwnPins(c, r, p)
    PROVE  OwnPins(c \o g, <<>>, p)
<1>1. Range(<<>>) = {}
  BY DEF Range
<1>2. \A op \in Range(c \o g) : op.do = "pin" => op \in Range(c) \cup Range(r)
  BY RetriedRange
<1> QED BY <1>1, <1>2 DEF OwnPins

(* A removal, a clear or a display is added outside the queue's keys.        *)
LEMMA RemovalAdded ==
    ASSUME NEW c \in Seq(Writes), NEW r \in Seq(Writes), NEW op \in Writes, NEW s, NEW state,
           RemovalsLast(c, r, state, s), op.do \in {"remove", "clear", "machine"},
           ~op.newest, SameKey(op, "remove", s) => state # "live" /\ op.mode = "any"
    PROVE  RemovalsLast(Append(c, op), r, state, s)
<1> DEFINE d == Append(c, op)
<1>1. /\ DOMAIN c = 1 .. Len(c) /\ Len(c) \in Nat
      /\ DOMAIN d = 1 .. Len(c) + 1 /\ d[Len(c) + 1] = op
      /\ \A i \in DOMAIN c : d[i] = c[i]
  BY AppendedAt
<1> HIDE DEF d
<1>2. \A i \in DOMAIN d : (i \in DOMAIN c /\ d[i] = c[i]) \/ (i = Len(c) + 1 /\ d[i] = op)
  BY <1>1
<1>3. ~EarlyPin(op, s)
  BY DEF EarlyPin, SameKey
<1>4. \A i \in DOMAIN d :
        /\ SameKey(d[i], "remove", s) => state # "live" /\ Dropped(d[i])
        /\ state # "live" /\ EarlyPin(d[i], s) => ~d[i].newest
        /\ state = "gone" => ~EarlyPin(d[i], s)
  BY <1>2, <1>3 DEF RemovalsLast, Dropped
<1>5. ASSUME NEW i \in DOMAIN d, NEW j \in DOMAIN d, i < j, SameKey(d[i], "remove", s)
      PROVE  ~EarlyPin(d[j], s)
  <2>1. CASE j \in DOMAIN c
    <3>1. i \in DOMAIN c
      BY <1>1, <1>5, <2>1
    <3> QED BY <1>1, <1>5, <2>1, <3>1 DEF RemovalsLast
  <2>2. CASE j \notin DOMAIN c
    BY <1>2, <1>3, <2>2
  <2> QED BY <2>1, <2>2
<1> QED BY <1>4, <1>5 DEF RemovalsLast, d

LEMMA RemovalKeeps ==
    ASSUME NEW c \in Seq(Writes), NEW r, NEW op \in Writes,
           op.do \in {"remove", "clear", "machine"}
    PROVE  /\ \A E : OnTheirWay(c, r, E) => OnTheirWay(Append(c, op), r, E)
           /\ \A p : OwnPins(c, r, p) => OwnPins(Append(c, op), r, p)
<1>1. Range(Append(c, op)) = Range(c) \cup {op}
  BY Appended
<1> QED BY <1>1 DEF OnTheirWay, OwnPins

(* The deletion of a session forgets its pin and the write of it.            *)
LEMMA ForgottenLast ==
    ASSUME NEW c \in Seq(Writes), NEW r \in Seq(Writes), NEW s, NEW t, NEW state,
           RemovalsLast(c, r, state, t)
    PROVE  /\ RemovalsLast(Forget(c, "pin", s), Without(r, "pin", s), state, t)
           /\ t = s /\ state = "live" =>
                RemovalsLast(Forget(c, "pin", s), Without(r, "pin", s), "deleting", t)
<1> DEFINE d == Forget(c, "pin", s)
           q == Without(r, "pin", s)
<1>1. /\ DOMAIN d = DOMAIN c
      /\ \A i \in DOMAIN c : /\ Weaker(d[i], c[i])
                             /\ SameKey(c[i], "pin", s) => ~d[i].newest
  BY ForgetTyped
<1>2. Range(q) = {op \in Range(r) : ~SameKey(op, "pin", s)}
  BY WithoutTyped
<1> HIDE DEF d, q
<1>3. Range(q) \subseteq Range(r)
  BY <1>2
<1>4. RemovalsLast(d, q, state, t)
  BY <1>1, <1>3, WeakenedLast
<1>5. ASSUME t = s, state = "live" PROVE RemovalsLast(d, q, "deleting", t)
  <2>1. \A i \in DOMAIN d : ~SameKey(d[i], "remove", t)
    BY <1>4, <1>5 DEF RemovalsLast
  <2>2. \A i \in DOMAIN d : EarlyPin(d[i], t) => ~d[i].newest
    BY <1>1, <1>5 DEF EarlyPin, Weaker, SameKey
  <2>3. \A op \in Range(q) : ~EarlyPin(op, t)
    BY <1>2, <1>5 DEF EarlyPin
  <2> QED BY <1>4, <2>1, <2>2, <2>3 DEF RemovalsLast
<1> QED BY <1>4, <1>5 DEF d, q

LEMMA ForgottenKeeps ==
    ASSUME NEW c \in Seq(Writes), NEW r \in Seq(Writes), NEW s
    PROVE  /\ \A E : OnTheirWay(c, r, E) =>
                OnTheirWay(Forget(c, "pin", s), Without(r, "pin", s), {e \in E : e.s # s})
           /\ \A p : OwnPins(c, r, p) => OwnPins(Forget(c, "pin", s), Without(r, "pin", s), p)
<1> DEFINE d == Forget(c, "pin", s)
           q == Without(r, "pin", s)
<1>1. /\ DOMAIN d = DOMAIN c
      /\ \A i \in DOMAIN c : /\ Weaker(d[i], c[i])
                             /\ ~SameKey(c[i], "pin", s) => d[i] = c[i]
  BY ForgetTyped
<1>2. Range(q) = {op \in Range(r) : ~SameKey(op, "pin", s)}
  BY WithoutTyped
<1> HIDE DEF d, q
<1>3. ASSUME NEW E, OnTheirWay(c, r, E), NEW e \in E, e.s # s, e.landed = 0, e.queued
      PROVE  \E op \in Range(d) \cup Range(q) : WriteOf(op, e) /\ op.retried
  <2>1. PICK op \in Range(c) \cup Range(r) : WriteOf(op, e) /\ op.retried
    BY <1>3 DEF OnTheirWay
  <2>2. ~SameKey(op, "pin", s)
    BY <1>3, <2>1 DEF WriteOf, SameKey
  <2>3. CASE op \in Range(r)
    BY <1>2, <2>1, <2>2, <2>3
  <2>4. CASE op \in Range(c)
    <3>1. PICK i \in DOMAIN c : c[i] = op
      BY <2>4 DEF Range
    <3>2. i \in DOMAIN d /\ d[i] = op
      BY <1>1, <2>2, <3>1
    <3>3. op \in Range(d)
      BY <3>2 DEF Range
    <3> QED BY <2>1, <3>3
  <2> QED BY <2>1, <2>3, <2>4
<1>4. ASSUME NEW p, OwnPins(c, r, p) PROVE OwnPins(d, q, p)
  <2>1. ASSUME NEW x \in Range(d) PROVE x.do = "pin" => x.pin.by = p
    <3>1. PICK i \in DOMAIN d : d[i] = x
      BY DEF Range
    <3>2. c[i] \in Range(c) /\ x.do = c[i].do /\ x.pin = c[i].pin
      BY <1>1, <3>1 DEF Range, Weaker
    <3> QED BY <1>4, <3>2 DEF OwnPins
  <2> QED BY <1>2, <1>4, <2>1 DEF OwnPins
<1> QED BY <1>3, <1>4 DEF OnTheirWay, d, q

(***************************************************************************)
(* Sidebar: the invariant                                                  *)
(***************************************************************************)
Entries == [s : Sessions, pin : Pins, landed : Nat, queued : BOOLEAN]

ReadsUnderWay == [at : Nat, current : BOOLEAN]

Snapshots == [pins : PinMaps, at : Nat, current : BOOLEAN]

Deciders == [s : Sessions, pins : PinMaps, at : Nat, vault : BOOLEAN, behind : BOOLEAN]

WorldTypes ==
    /\ version \in [Processes -> {"v1", "v2"}]
    /\ clock \in Nat /\ clock > 0
    /\ enroll \in Nat /\ login \in [now : Nat, stored : Nat] /\ dead \subseteq AnyAccount
    /\ row \in [Processes -> MainRows]
    /\ file \in SidebarFiles /\ RecordsOfOneMode(file)

SnapshotTypes ==
    /\ cache \in [Processes -> Snapshots]
    /\ reads \in [Processes -> SUBSET ReadsUnderWay]
    /\ \A p \in Processes : \A r \in reads[p] : r.at <= clock
    /\ overlay \in [Processes -> Seq(Entries)]
    /\ requests \in [Processes -> SUBSET Deciders]
    /\ fate \in [Processes -> [Sessions -> {"live", "deleting", "removing", "gone"}]]

QueueOf(c, r, v) ==
    IF v = "v1" THEN c \in Seq(Writes) /\ r \in Seq(Writes)
    ELSE c \in Seq(PublishedWrites \cup Publications) /\ r = <<>>

QueueTypes ==
    /\ chain \in [Processes -> Seq(Writes \cup Publications)]
    /\ retries \in [Processes -> Seq(Writes)]
    /\ \A p \in Processes : QueueOf(chain[p], retries[p], version[p])

(* OpenCode 2 keeps its pins elsewhere.                                     *)
PublisherIsBare ==
    \A p \in Processes : version[p] = "v2" =>
        /\ overlay[p] = <<>> /\ requests[p] = {}
        /\ \A s \in Sessions : fate[p][s] = "live"

QueuesAreWhole ==
    \A p \in Processes : version[p] = "v1" =>
        /\ \A s \in Sessions : RemovalsLast(chain[p], retries[p], fate[p][s], s)
        /\ OnTheirWay(chain[p], retries[p], Range(overlay[p]))

QueuesAreOwn == \A p \in Processes : OwnPins(chain[p], retries[p], p)

SidebarInv ==
    /\ WorldTypes /\ SnapshotTypes /\ QueueTypes
    /\ PublisherIsBare /\ QueuesAreWhole /\ QueuesAreOwn /\ DeletedPinStaysGone

USE VersionsAssumption

LEMMA NoPinsTyped == NoPins \in PinMaps /\ NoPins \in RouteMaps
BY DEF NoPins, PinMaps, RouteMaps

LEMMA EmptyQueue ==
    /\ \A s, state : RemovalsLast(<<>>, <<>>, state, s)
    /\ \A E : E = {} => OnTheirWay(<<>>, <<>>, E)
    /\ \A p : OwnPins(<<>>, <<>>, p)
    /\ Range(<<>>) = {}
<1>1. Range(<<>>) = {} /\ DOMAIN <<>> = {}
  BY DEF Range
<1> QED BY <1>1 DEF RemovalsLast, OnTheirWay, OwnPins

LEMMA SidebarInvInit == SidebarInit => SidebarInv
<1> SUFFICES ASSUME SidebarInit PROVE SidebarInv
  OBVIOUS
<1> USE DEF SidebarInit
<1>1. WorldTypes
  <2>1. /\ version \in [Processes -> {"v1", "v2"}] /\ enroll \in Nat /\ clock \in Nat
        /\ login \in [now : Nat, stored : Nat]
        /\ clock > 0 /\ dead \subseteq AnyAccount
    OBVIOUS
  <2>2. [id |-> 0, quota |-> None] \in MainRows
    BY DEF MainRows
  <2>3. row \in [Processes -> MainRows]
    BY <2>2
  <2>4. file \in SidebarFiles
    BY <2>2, NoPinsTyped DEF SidebarFiles
  <2>5. RecordsOfOneMode(file)
    BY DEF RecordsOfOneMode
  <2> QED BY <2>1, <2>3, <2>4, <2>5 DEF WorldTypes
<1>2. SnapshotTypes
  <2>1. NoSnapshot \in Snapshots
    BY NoPinsTyped DEF NoSnapshot, Snapshots
  <2>2. <<>> \in Seq(Entries)
    OBVIOUS
  <2> QED BY <2>1, <2>2 DEF SnapshotTypes
<1>3. QueueTypes
  <2>1. <<>> \in Seq(Writes) /\ <<>> \in Seq(Writes \cup Publications)
        /\ <<>> \in Seq(PublishedWrites \cup Publications)
    OBVIOUS
  <2> QED BY <2>1 DEF QueueTypes, QueueOf
<1>4. PublisherIsBare /\ QueuesAreWhole /\ QueuesAreOwn
  BY EmptyQueue DEF PublisherIsBare, QueuesAreWhole, QueuesAreOwn
<1>5. DeletedPinStaysGone
  BY DEF DeletedPinStaysGone
<1> QED BY <1>1, <1>2, <1>3, <1>4, <1>5 DEF SidebarInv

LEMMA QueuedWriteTyped ==
    ASSUME enroll \in Nat, NEW do \in OfSession \cup {"machine", "legacy"},
           NEW s \in Sessions \cup {None}, NEW mode \in {"local", "vault", "any"}
    PROVE  /\ QueuedWrite(do, s, mode) \in WriteTypes
           /\ QueuedWrite(do, s, mode).do = do /\ QueuedWrite(do, s, mode).s = s
           /\ QueuedWrite(do, s, mode).mode = mode
           /\ QueuedWrite(do, s, mode).newest /\ QueuedWrite(do, s, mode).retried
BY DEF QueuedWrite, WriteTypes

(* What this process may write is a write.                                   *)
LEMMA WrittenTyped ==
    ASSUME WorldTypes, NEW p \in Processes, NEW v \in BOOLEAN
    PROVE  /\ \A held \in MainRows, named \in Nat :
                /\ MachineWrite(p, v, held, named) \in Writes
                /\ MachineWrite(p, v, held, named).do = "machine"
                /\ \A job \in Publications :
                     [MachineWrite(p, v, held, named) EXCEPT !.then = job] \in PublishedWrites
           /\ \A acct \in Accounts(v) :
                /\ [QueuedWrite("legacy", None, Mode(v)) EXCEPT !.acct = acct] \in Writes
                /\ [QueuedWrite("legacy", None, Mode(v)) EXCEPT !.acct = acct].do = "legacy"
<1>1. /\ enroll \in Nat /\ dead \cap Accounts(v) \subseteq AnyAccount
      /\ login.stored \in Nat
      /\ Mode(v) \in {"local", "vault", "any"} /\ Accounts(v) \subseteq AnyAccount
  BY DEF WorldTypes, Mode, Accounts, AnyAccount
<1> DEFINE q == QueuedWrite("machine", None, Mode(v))
           l == QueuedWrite("legacy", None, Mode(v))
<1>2. q \in WriteTypes /\ q.do = "machine" /\ l \in WriteTypes /\ l.do = "legacy"
  BY <1>1, QueuedWriteTyped
<1> HIDE DEF l
<1>3. ASSUME NEW held \in MainRows, NEW named \in Nat
      PROVE  /\ MachineWrite(p, v, held, named) \in Writes
             /\ MachineWrite(p, v, held, named).do = "machine"
             /\ \A job \in Publications :
                  [MachineWrite(p, v, held, named) EXCEPT !.then = job] \in PublishedWrites
  <2> DEFINE w == MachineWrite(p, v, held, named)
             shown == DisplayedRow(p, held, named)
  <2>1. shown \in MainRows
    BY <1>1 DEF DisplayedRow, MainRows
  <2>2. w = [q EXCEPT !.row = shown, !.named = named, !.dead = dead \cap Accounts(v)]
    BY DEF MachineWrite
  <2> HIDE DEF q, w, shown
  <2>3. w \in WriteTypes /\ w.do = "machine" /\ w.row = shown
    BY <1>1, <1>2, <2>1, <2>2 DEF WriteTypes
  <2>4. w \in Writes
    BY <2>1, <2>3 DEF Writes, OfSession
  <2>5. ASSUME NEW job \in Publications
        PROVE  [w EXCEPT !.then = job] \in PublishedWrites
    <3> DEFINE o == [w EXCEPT !.then = job]
    <3>1. o \in WriteTypes /\ o.do = "machine" /\ o.row = shown /\ o.then = job
      BY <2>3 DEF WriteTypes
    <3> HIDE DEF o
    <3>2. o \in PublishedWrites
      BY <2>1, <3>1 DEF PublishedWrites, Writes, OfSession
    <3> QED BY <3>2 DEF o
  <2> QED BY <2>3, <2>4, <2>5 DEF w
<1>4. ASSUME NEW acct \in Accounts(v)
      PROVE  [l EXCEPT !.acct = acct] \in Writes /\ [l EXCEPT !.acct = acct].do = "legacy"
  <2> DEFINE o == [l EXCEPT !.acct = acct]
  <2>1. o \in WriteTypes /\ o.do = "legacy" /\ o.acct = acct
    BY <1>1, <1>2 DEF WriteTypes
  <2> HIDE DEF o
  <2>2. o \in Writes
    BY <1>1, <2>1 DEF Writes, OfSession
  <2> QED BY <2>1, <2>2 DEF o
<1> HIDE DEF q
<1> QED BY <1>3, <1>4 DEF l

RemovalOf(s, roster) ==
    [QueuedWrite("remove", s, "any") EXCEPT !.newest = FALSE, !.roster = roster]

ClearingOf(s) == [QueuedWrite("clear", s, "any") EXCEPT !.newest = FALSE]

LEMMA RemovalTyped ==
    ASSUME enroll \in Nat, NEW s \in Sessions, NEW roster, roster \subseteq AnyAccount
    PROVE  /\ RemovalOf(s, roster) \in Writes /\ RemovalOf(s, roster).do = "remove"
           /\ RemovalOf(s, roster).s = s
           /\ ~RemovalOf(s, roster).newest /\ RemovalOf(s, roster).mode = "any"
           /\ ClearingOf(s) \in Writes /\ ClearingOf(s).do = "clear"
           /\ ~ClearingOf(s).newest /\ ClearingOf(s).mode = "any"
<1> DEFINE r == QueuedWrite("remove", s, "any")
           c == QueuedWrite("clear", s, "any")
           r2 == [r EXCEPT !.newest = FALSE, !.roster = roster]
           c2 == [c EXCEPT !.newest = FALSE]
<1>1. /\ r \in WriteTypes /\ r.do = "remove" /\ r.s = s /\ r.mode = "any"
      /\ c \in WriteTypes /\ c.do = "clear" /\ c.s = s /\ c.mode = "any"
  BY QueuedWriteTyped DEF OfSession
<1> HIDE DEF r, c
<1>2. /\ r2 \in WriteTypes /\ r2.do = "remove" /\ r2.s = s /\ r2.newest = FALSE
      /\ r2.mode = "any"
  BY <1>1 DEF WriteTypes
<1>3. /\ c2 \in WriteTypes /\ c2.do = "clear" /\ c2.s = s /\ c2.newest = FALSE
      /\ c2.mode = "any"
  BY <1>1 DEF WriteTypes
<1> HIDE DEF r2, c2
<1>4. r2 \in Writes /\ c2 \in Writes
  BY <1>2, <1>3 DEF Writes, OfSession
<1> QED BY <1>2, <1>3, <1>4 DEF RemovalOf, ClearingOf, r2, c2, r, c

LEMMA RequestWriteTyped ==
    ASSUME WorldTypes, NEW r, r.s \in Sessions, r.vault \in BOOLEAN
    PROVE  /\ \A acct \in AnyAccount :
                LET op == RouteWrite(r, acct)
                IN  op \in Writes /\ op.do = "route" /\ op.s = r.s
           /\ \A pin \in Pins, valid \in SUBSET AnyAccount :
                LET op == PinWrite(r, pin, valid)
                IN  /\ op \in Writes /\ op.do = "pin" /\ op.s = r.s /\ op.pin = pin
                    /\ op.newest /\ op.retried
<1> DEFINE q == QueuedWrite("route", r.s, Mode(r.vault))
           w == QueuedWrite("pin", r.s, Mode(r.vault))
<1>1. /\ enroll \in Nat /\ clock \in Nat
      /\ Mode(r.vault) \in {"local", "vault", "any"} /\ Accounts(r.vault) \subseteq AnyAccount
  BY DEF WorldTypes, Mode, Accounts, AnyAccount
<1>2. /\ q \in WriteTypes /\ q.do = "route" /\ q.s = r.s
      /\ w \in WriteTypes /\ w.do = "pin" /\ w.s = r.s /\ w.newest /\ w.retried
  BY <1>1, QueuedWriteTyped DEF OfSession
<1> HIDE DEF q, w
<1>3. ASSUME NEW acct \in AnyAccount
      PROVE  LET op == RouteWrite(r, acct)
             IN  op \in Writes /\ op.do = "route" /\ op.s = r.s
  <2> DEFINE o == [q EXCEPT !.acct = acct, !.at = clock, !.roster = Accounts(r.vault)]
  <2>1. o \in WriteTypes /\ o.do = "route" /\ o.s = r.s /\ o.acct = acct
    BY <1>1, <1>2 DEF WriteTypes
  <2> HIDE DEF o
  <2>2. o \in Writes
    BY <2>1 DEF Writes, OfSession
  <2>3. RouteWrite(r, acct) = o
    BY DEF RouteWrite, o, q
  <2> QED BY <2>1, <2>2, <2>3
<1>4. ASSUME NEW pin \in Pins, NEW valid \in SUBSET AnyAccount
      PROVE  LET op == PinWrite(r, pin, valid)
             IN  /\ op \in Writes /\ op.do = "pin" /\ op.s = r.s /\ op.pin = pin
                 /\ op.newest /\ op.retried
  <2> DEFINE o == [w EXCEPT !.pin = pin, !.roster = valid]
  <2>1. o \in WriteTypes /\ o.do = "pin" /\ o.s = r.s /\ o.pin = pin /\ o.newest /\ o.retried
    BY <1>2 DEF WriteTypes
  <2> HIDE DEF o
  <2>2. o \in Writes
    BY <2>1 DEF Writes, OfSession
  <2>3. PinWrite(r, pin, valid) = o
    BY DEF PinWrite, o, w
  <2> QED BY <2>1, <2>2, <2>3
<1> QED BY <1>3, <1>4

(***************************************************************************)
(* Sidebar: steps                                                          *)
(***************************************************************************)
LEMMA WiderSeq ==
    ASSUME NEW T, NEW U, T \subseteq U, NEW s \in Seq(T)
    PROVE  s \in Seq(U)
OBVIOUS

LEMMA QueueStep ==
    ASSUME SidebarInv, NEW p \in Processes, version' = version, NEW c, NEW r,
           chain' = [chain EXCEPT ![p] = c], retries' = [retries EXCEPT ![p] = r],
           QueueOf(c, r, version[p]), OwnPins(c, r, p)
    PROVE  QueueTypes' /\ QueuesAreOwn'
<1>1. /\ chain \in [Processes -> Seq(Writes \cup Publications)]
      /\ retries \in [Processes -> Seq(Writes)]
      /\ \A q \in Processes : QueueOf(chain[q], retries[q], version[q])
      /\ \A q \in Processes : OwnPins(chain[q], retries[q], q)
      /\ version[p] \in {"v1", "v2"}
  BY DEF SidebarInv, QueueTypes, QueuesAreOwn, WorldTypes
<1>2. c \in Seq(Writes \cup Publications)
  <2>1. c \in Seq(Writes) \/ c \in Seq(PublishedWrites \cup Publications)
    BY DEF QueueOf
  <2>2. Writes \subseteq Writes \cup Publications
        /\ PublishedWrites \cup Publications \subseteq Writes \cup Publications
    BY DEF PublishedWrites
  <2> QED BY <2>1, <2>2, WiderSeq
<1>3. r \in Seq(Writes)
  <2>1. <<>> \in Seq(Writes)
    OBVIOUS
  <2> QED BY <2>1 DEF QueueOf
<1>4. /\ chain' \in [Processes -> Seq(Writes \cup Publications)]
      /\ retries' \in [Processes -> Seq(Writes)]
      /\ chain'[p] = c /\ retries'[p] = r
      /\ \A q \in Processes \ {p} : chain'[q] = chain[q] /\ retries'[q] = retries[q]
  BY <1>1, <1>2, <1>3
<1>5. \A q \in Processes : QueueOf(chain'[q], retries'[q], version'[q])
  <2> TAKE q \in Processes
  <2>1. CASE q = p
    BY <1>4, <2>1
  <2>2. CASE q # p
    BY <1>1, <1>4, <2>2
  <2> QED BY <2>1, <2>2
<1>6. \A q \in Processes : OwnPins(chain'[q], retries'[q], q)
  <2> TAKE q \in Processes
  <2>1. CASE q = p
    BY <1>4, <2>1
  <2>2. CASE q # p
    BY <1>1, <1>4, <2>2
  <2> QED BY <2>1, <2>2
<1> QED BY <1>4, <1>5, <1>6 DEF QueueTypes, QueuesAreOwn

LEMMA WholeStep ==
    ASSUME SidebarInv, NEW p \in Processes, version' = version, NEW c, NEW r,
           chain' = [chain EXCEPT ![p] = c], retries' = [retries EXCEPT ![p] = r],
           \A q \in Processes \ {p} : overlay'[q] = overlay[q] /\ fate'[q] = fate[q],
           version[p] = "v1" =>
               /\ \A s \in Sessions : RemovalsLast(c, r, fate'[p][s], s)
               /\ OnTheirWay(c, r, Range(overlay'[p]))
    PROVE  QueuesAreWhole'
<1>1. /\ chain \in [Processes -> Seq(Writes \cup Publications)]
      /\ retries \in [Processes -> Seq(Writes)]
  BY DEF SidebarInv, QueueTypes
<1>2. /\ chain'[p] = c /\ retries'[p] = r
      /\ \A q \in Processes \ {p} : chain'[q] = chain[q] /\ retries'[q] = retries[q]
  BY <1>1
<1> SUFFICES ASSUME NEW q \in Processes, version[q] = "v1"
             PROVE  /\ \A s \in Sessions : RemovalsLast(chain'[q], retries'[q], fate'[q][s], s)
                    /\ OnTheirWay(chain'[q], retries'[q], Range(overlay'[q]))
  BY DEF QueuesAreWhole
<1>3. CASE q = p
  BY <1>2, <1>3
<1>4. CASE q # p
  <2>1. /\ \A s \in Sessions : RemovalsLast(chain[q], retries[q], fate[q][s], s)
        /\ OnTheirWay(chain[q], retries[q], Range(overlay[q]))
    BY DEF SidebarInv, QueuesAreWhole
  <2>2. /\ chain'[q] = chain[q] /\ retries'[q] = retries[q]
        /\ overlay'[q] = overlay[q] /\ fate'[q] = fate[q]
    BY <1>2, <1>4
  <2> QED BY <2>1, <2>2
<1> QED BY <1>3, <1>4

(* The queues do not change, nor what is in the file.                        *)
LEMMA QueuesStay ==
    ASSUME SidebarInv, UNCHANGED <<version, file, chain, retries, overlay, fate>>
    PROVE  QueueTypes' /\ QueuesAreOwn' /\ QueuesAreWhole' /\ DeletedPinStaysGone'
<1> USE DEF SidebarInv
<1>1. QueueTypes'
  BY DEF QueueTypes
<1>2. QueuesAreOwn'
  BY DEF QueuesAreOwn
<1>3. QueuesAreWhole'
  BY DEF QueuesAreWhole
<1>4. DeletedPinStaysGone'
  BY DEF DeletedPinStaysGone
<1> QED BY <1>1, <1>2, <1>3, <1>4

LEMMA SidebarStutters ==
    ASSUME SidebarInv, UNCHANGED sidebarVars
    PROVE  SidebarInv'
<1> USE DEF SidebarInv, sidebarVars, host, hot, past
<1>1. WorldTypes' /\ SnapshotTypes' /\ PublisherIsBare'
  BY DEF WorldTypes, SnapshotTypes, PublisherIsBare
<1> QED BY <1>1, QueuesStay

(* Time, the enrollment files, the login and the killswitch                  *)
LEMMA HostMoves ==
    ASSUME SidebarInv,
           \/ Tick \/ EnrollmentChanges \/ Login \/ NameLogin
           \/ \E p \in Processes : ReadAuthority(p)
           \/ \E a \in Locals \cup Vaults : Killswitch(a)
    PROVE  SidebarInv'
<1> USE DEF SidebarInv, Tick, EnrollmentChanges, Login, NameLogin, ReadAuthority, Killswitch, hot,
           past
<1>1. UNCHANGED <<version, file, chain, retries, overlay, fate, cache, reads, requests, row>>
  OBVIOUS
<1>2. clock' \in {clock, clock + 1} /\ enroll' \in {enroll, enroll + 1}
      /\ login' \in [now : Nat, stored : Nat]
  BY DEF WorldTypes
<1>3. dead' \subseteq AnyAccount
  BY DEF WorldTypes, AnyAccount
<1>4. WorldTypes'
  BY <1>1, <1>2, <1>3 DEF WorldTypes
<1>5. SnapshotTypes'
  <2>1. \A p \in Processes : \A r \in reads[p] : r.at <= clock'
    BY <1>2 DEF SnapshotTypes, WorldTypes, ReadsUnderWay
  <2> QED BY <1>1, <2>1 DEF SnapshotTypes
<1>6. PublisherIsBare'
  BY <1>1 DEF PublisherIsBare
<1> QED BY <1>1, <1>4, <1>5, <1>6, QueuesStay

(***************************************************************************)
(* Sidebar: snapshots                                                      *)
(***************************************************************************)
LEMMA ReadDoneKeeps ==
    ASSUME SidebarInv, NEW p \in Processes, ReadDone(p)
    PROVE  SidebarInv'
<1> USE DEF SidebarInv
<1>1. PICK r \in reads[p] :
        /\ cache' = Landed(p, [pins |-> file.pins, at |-> r.at, current |-> r.current])
        /\ reads' = [reads EXCEPT ![p] = @ \ {r}]
  BY DEF ReadDone
<1>2. UNCHANGED <<version, clock, enroll, login, dead, row, file, chain, retries, overlay,
                  requests, fate>>
  BY DEF ReadDone, host, past
<1>3. r \in ReadsUnderWay /\ file.pins \in PinMaps
  BY <1>1, FileFields DEF SnapshotTypes, WorldTypes
<1>4. [pins |-> file.pins, at |-> r.at, current |-> r.current] \in Snapshots
  BY <1>3 DEF Snapshots, ReadsUnderWay
<1>5. cache' \in [Processes -> Snapshots]
  BY <1>1, <1>4 DEF SnapshotTypes, Landed
<1>6. SnapshotTypes'
  BY <1>1, <1>2, <1>5 DEF SnapshotTypes
<1>7. WorldTypes' /\ PublisherIsBare'
  BY <1>2 DEF WorldTypes, PublisherIsBare
<1> QED BY <1>2, <1>6, <1>7, QueuesStay

LEMMA ReadAdded ==
    ASSUME SnapshotTypes, NEW p \in Processes, NEW at \in Nat, at <= clock, NEW more,
           more = [reads EXCEPT ![p] = @ \cup {[at |-> at, current |-> TRUE]}]
    PROVE  /\ more \in [Processes -> SUBSET ReadsUnderWay]
           /\ \A q \in Processes : \A r \in more[q] : r.at <= clock
<1> DEFINE new == [at |-> at, current |-> TRUE]
<1>1. new \in ReadsUnderWay /\ new.at <= clock
  BY DEF ReadsUnderWay
<1> HIDE DEF new
<1>2. /\ reads \in [Processes -> SUBSET ReadsUnderWay]
      /\ \A q \in Processes : \A r \in reads[q] : r.at <= clock
      /\ more = [reads EXCEPT ![p] = @ \cup {new}]
  BY DEF SnapshotTypes, new
<1>3. more \in [Processes -> SUBSET ReadsUnderWay]
  BY <1>1, <1>2
<1>4. \A q \in Processes : more[q] \subseteq reads[q] \cup {new}
  BY <1>2
<1> QED BY <1>1, <1>2, <1>3, <1>4

LEMMA WarmKeeps ==
    ASSUME SidebarInv, NEW p \in Processes, Warm(p)
    PROVE  SidebarInv'
<1> USE DEF SidebarInv
<1>1. /\ reads' = [reads EXCEPT ![p] = @ \cup {[at |-> clock, current |-> TRUE]}]
      /\ UNCHANGED <<version, clock, enroll, login, dead, row, file, chain, retries, cache,
                     overlay, requests, fate>>
  BY DEF Warm, host, past
<1>2. clock \in Nat /\ clock <= clock
  BY DEF WorldTypes
<1>3. SnapshotTypes'
  BY <1>1, <1>2, ReadAdded DEF SnapshotTypes
<1>4. WorldTypes' /\ PublisherIsBare'
  BY <1>1 DEF WorldTypes, PublisherIsBare
<1> QED BY <1>1, <1>3, <1>4, QueuesStay

(* The start of a shared read is no later than now.                          *)
LEMMA ReadStart ==
    ASSUME SidebarInv, NEW p \in Processes, NEW like, like \subseteq reads[p]
    PROVE  LET at == IF like = {} THEN clock ELSE Max({r.at : r \in like})
           IN  at \in Nat /\ at <= clock /\ \A r \in like : r.at <= at
<1> DEFINE ats == {r.at : r \in like}
<1>1. /\ clock \in Nat /\ ats \subseteq Nat /\ \A a \in ats : a <= clock
  BY DEF SidebarInv, WorldTypes, SnapshotTypes, ReadsUnderWay
<1>2. CASE like = {}
  BY <1>1, <1>2
<1>3. CASE like # {}
  <2>1. ats # {}
    <3>1. PICK x \in like : TRUE
      BY <1>3
    <3>2. x.at \in ats
      BY <3>1
    <3> HIDE DEF ats
    <3> QED BY <3>2
  <2>2. \E m \in ats : \A x \in ats : x <= m
    BY <1>1, <2>1, GreatestMember
  <2>3. \E m \in ats : \A x \in ats : m >= x
    BY <1>1, <2>2
  <2>4. Max(ats) \in ats /\ \A x \in ats : Max(ats) >= x
    BY <2>3 DEF Max
  <2>5. Max(ats) \in Nat /\ Max(ats) <= clock /\ \A r \in like : r.at <= Max(ats)
    BY <1>1, <2>4
  <2> QED BY <1>3, <2>5
<1> QED BY <1>2, <1>3

LEMMA BeginKeeps ==
    ASSUME SidebarInv, NEW p \in Processes, NEW s \in Sessions, Begin(p, s)
    PROVE  SidebarInv'
<1> USE DEF SidebarInv
<1> DEFINE like == {r \in reads[p] : r.current}
           read == [pins |-> file.pins, current |-> TRUE,
                    at |-> IF like = {} THEN clock ELSE Max({r.at : r \in like})]
           begun(snap) == [s |-> s, pins |-> snap.pins, at |-> snap.at,
                           vault |-> inVault, behind |-> FALSE]
<1>1. /\ UNCHANGED <<version, clock, enroll, login, dead, row, file, chain, retries, overlay, fate>>
      /\ version[p] = "v1"
  BY DEF Begin, past
<1>2. read.at \in Nat /\ read.at <= clock /\ file.pins \in PinMaps /\ clock \in Nat
  BY ReadStart, FileFields DEF WorldTypes
<1> DEFINE at == read.at
<1>3. read \in Snapshots
  BY <1>2 DEF Snapshots
<1>4. \A snap \in Snapshots : begun(snap) \in Deciders
  BY DEF Deciders, Snapshots, inVault
<1>5. \E snap \in Snapshots :
        /\ requests' = [requests EXCEPT ![p] = @ \cup {begun(snap)}]
        /\ cache' \in {cache, Landed(p, read)}
        /\ reads' \in {reads, [reads EXCEPT ![p] = @ \ like],
                       [reads EXCEPT ![p] = @ \cup {[at |-> read.at, current |-> TRUE]}]}
  <2>1. cache[p] \in Snapshots
    BY DEF SnapshotTypes
  <2>2. CASE /\ requests' = [requests EXCEPT ![p] = @ \cup {begun(cache[p])}]
             /\ UNCHANGED <<cache, reads>>
    BY <2>1, <2>2
  <2>3. CASE /\ requests' = [requests EXCEPT ![p] = @ \cup {begun(read)}]
             /\ cache' = Landed(p, read) /\ reads' = [reads EXCEPT ![p] = @ \ like]
    BY <1>3, <2>3
  <2>4. CASE /\ requests' = [requests EXCEPT ![p] = @ \cup {begun(cache[p])}]
             /\ UNCHANGED cache
             /\ reads' = [reads EXCEPT ![p] = @ \cup {[at |-> read.at, current |-> TRUE]}]
    BY <2>1, <2>4
  <2> QED BY <2>2, <2>3, <2>4 DEF Begin
<1> HIDE DEF read, like
<1>6. cache' \in [Processes -> Snapshots]
  BY <1>3, <1>5 DEF SnapshotTypes, Landed
<1>7. requests' \in [Processes -> SUBSET Deciders]
      /\ \A q \in Processes \ {p} : requests'[q] = requests[q]
  BY <1>4, <1>5 DEF SnapshotTypes
<1>8. reads' \in [Processes -> SUBSET ReadsUnderWay]
      /\ \A q \in Processes : \A r \in reads'[q] : r.at <= clock
  <2>1. CASE reads' = [reads EXCEPT ![p] = @ \cup {[at |-> read.at, current |-> TRUE]}]
    BY <1>2, <2>1, ReadAdded
  <2>2. CASE reads' \in {reads, [reads EXCEPT ![p] = @ \ like]}
    BY <2>2 DEF SnapshotTypes
  <2> QED BY <1>5, <2>1, <2>2
<1>9. SnapshotTypes'
  BY <1>1, <1>6, <1>7, <1>8 DEF SnapshotTypes
<1>10. WorldTypes' /\ PublisherIsBare'
  <2>1. \A q \in Processes : version[q] = "v2" => requests'[q] = {}
    BY <1>1, <1>7 DEF PublisherIsBare
  <2> QED BY <1>1, <2>1 DEF WorldTypes, PublisherIsBare
<1> QED BY <1>1, <1>9, <1>10, QueuesStay

(***************************************************************************)
(* Sidebar: the display, and requests without a session                    *)
(***************************************************************************)
LEMMA GoneStays ==
    ASSUME SidebarInv, file' = file,
           \A p \in Processes, s \in Sessions : fate'[p][s] = "gone" => fate[p][s] = "gone"
    PROVE  DeletedPinStaysGone'
BY DEF SidebarInv, DeletedPinStaysGone

LEMMA QueueCalled ==
    ASSUME SidebarInv, NEW p \in Processes, version[p] = "v1", NEW op \in Writes,
           op.do \in {"machine", "legacy", "route"}, Queue(p, op),
           UNCHANGED <<version, file, overlay, fate>>
    PROVE  QueueTypes' /\ QueuesAreOwn' /\ QueuesAreWhole' /\ DeletedPinStaysGone'
<1> DEFINE c == Enqueue(chain[p], op)
           r == Unqueue(retries[p], op)
<1>1. /\ chain' = [chain EXCEPT ![p] = c] /\ retries' = [retries EXCEPT ![p] = r]
  BY DEF Queue
<1>2. chain[p] \in Seq(Writes) /\ retries[p] \in Seq(Writes)
  BY DEF SidebarInv, QueueTypes, QueueOf
<1>3. c \in Seq(Writes) /\ r \in Seq(Writes)
  BY <1>2, EnqueueTyped, WithoutTyped DEF Unqueue
<1>4. OwnPins(c, r, p)
  BY <1>2, EnqueuedOwn DEF SidebarInv, QueuesAreOwn
<1>5. \A s \in Sessions : RemovalsLast(c, r, fate[p][s], s)
  <2> TAKE s \in Sessions
  <2>1. RemovalsLast(chain[p], retries[p], fate[p][s], s) /\ ~EarlyPin(op, s)
    BY DEF SidebarInv, QueuesAreWhole, EarlyPin, SameKey
  <2> QED BY <1>2, <2>1, EnqueuedLast
<1>6. OnTheirWay(c, r, Range(overlay[p]))
  <2>1. OnTheirWay(chain[p], retries[p], Range(overlay[p]))
    BY DEF SidebarInv, QueuesAreWhole
  <2> QED BY <1>2, <2>1, EnqueuedOnItsWay
<1> HIDE DEF c, r
<1>7. QueueTypes' /\ QueuesAreOwn'
  BY <1>1, <1>3, <1>4, QueueStep DEF QueueOf
<1>8. QueuesAreWhole'
  BY <1>1, <1>5, <1>6, WholeStep
<1> QED BY <1>7, <1>8, GoneStays

LEMMA QueueNow ==
    ASSUME SidebarInv, NEW p \in Processes
    PROVE  /\ version[p] \in {"v1", "v2"}
           /\ OwnPins(chain[p], retries[p], p)
           /\ version[p] = "v1" =>
                /\ chain[p] \in Seq(Writes) /\ retries[p] \in Seq(Writes)
                /\ \A s \in Sessions : RemovalsLast(chain[p], retries[p], fate[p][s], s)
                /\ OnTheirWay(chain[p], retries[p], Range(overlay[p]))
           /\ version[p] = "v2" =>
                chain[p] \in Seq(PublishedWrites \cup Publications) /\ retries[p] = <<>>
           /\ chain = [chain EXCEPT ![p] = chain[p]]
           /\ retries = [retries EXCEPT ![p] = retries[p]]
BY DEF SidebarInv, WorldTypes, QueueTypes, QueueOf, QueuesAreOwn, QueuesAreWhole

(* A display outside the queue is the last of what waits, and not the newest. *)
LEMMA ShowCalled ==
    ASSUME SidebarInv, NEW p \in Processes, version[p] = "v1",
           NEW op \in Writes, op.do = "machine", Show(p, op),
           UNCHANGED <<version, file, overlay, fate>>
    PROVE  QueueTypes' /\ QueuesAreOwn' /\ QueuesAreWhole' /\ DeletedPinStaysGone'
<1> DEFINE shown == [op EXCEPT !.newest = FALSE]
           c == Append(chain[p], shown)
           r == retries[p]
<1>1. chain' = [chain EXCEPT ![p] = c] /\ UNCHANGED retries
  BY DEF Show
<1>2. /\ chain[p] \in Seq(Writes) /\ r \in Seq(Writes)
      /\ OwnPins(chain[p], r, p)
      /\ \A s \in Sessions : RemovalsLast(chain[p], r, fate[p][s], s)
      /\ OnTheirWay(chain[p], r, Range(overlay[p]))
      /\ retries = [retries EXCEPT ![p] = r]
  BY QueueNow
<1>3. shown \in Writes /\ shown.do = "machine" /\ ~shown.newest
  <2>1. op \in WriteTypes /\ op.row \in MainRows
    BY DEF Writes
  <2>2. /\ shown \in WriteTypes /\ shown.do = "machine" /\ ~shown.newest
        /\ shown.row = op.row
    BY <2>1 DEF WriteTypes
  <2> HIDE DEF shown
  <2> QED BY <2>1, <2>2 DEF Writes, OfSession
<1> HIDE DEF shown
<1>4. \A s \in Sessions : RemovalsLast(c, r, fate[p][s], s)
  <2> TAKE s \in Sessions
  <2>1. ~SameKey(shown, "remove", s)
    BY <1>3 DEF SameKey
  <2> QED BY <1>2, <1>3, <2>1, RemovalAdded
<1>5. OnTheirWay(c, r, Range(overlay[p])) /\ OwnPins(c, r, p)
  BY <1>2, <1>3, RemovalKeeps
<1>6. QueueOf(c, r, version[p])
  BY <1>2, <1>3, Appended DEF QueueOf
<1>7. retries' = [retries EXCEPT ![p] = r]
  BY <1>1, <1>2
<1> HIDE DEF c, r
<1>8. QueueTypes' /\ QueuesAreOwn'
  BY <1>1, <1>5, <1>6, <1>7, QueueStep
<1>9. QueuesAreWhole'
  BY <1>1, <1>4, <1>5, <1>7, WholeStep
<1> QED BY <1>8, <1>9, GoneStays

LEMMA RefreshKeeps ==
    ASSUME SidebarInv, NEW p \in Processes, Refresh(p)
    PROVE  SidebarInv'
<1> USE DEF SidebarInv
<1> DEFINE op == MachineWrite(p, mayBeEnrolled(p), row[p], 0)
<1>1. /\ version[p] = "v1"
      /\ Show(p, op) \/ Queue(p, op)
      /\ UNCHANGED <<version, clock, enroll, login, dead, row, file, cache, reads, overlay,
                     requests, fate>>
  BY DEF Refresh, host, hot, past
<1>2. op \in Writes /\ op.do = "machine"
  <2>1. mayBeEnrolled(p) \in BOOLEAN /\ row[p] \in MainRows
    BY DEF mayBeEnrolled, WorldTypes
  <2> QED BY <2>1, WrittenTyped
<1> HIDE DEF op
<1>3. QueueTypes' /\ QueuesAreOwn' /\ QueuesAreWhole' /\ DeletedPinStaysGone'
  BY <1>1, <1>2, QueueCalled, ShowCalled
<1>4. WorldTypes' /\ SnapshotTypes' /\ PublisherIsBare'
  BY <1>1 DEF WorldTypes, SnapshotTypes, PublisherIsBare
<1> QED BY <1>3, <1>4

LEMMA LegacyKeeps ==
    ASSUME SidebarInv, NEW p \in Processes, Legacy(p)
    PROVE  SidebarInv'
<1> USE DEF SidebarInv
<1>1. /\ version[p] = "v1"
      /\ UNCHANGED <<version, clock, enroll, login, dead, row, file, cache, reads, overlay,
                     requests, fate>>
  BY DEF Legacy, hot, past
<1>2. PICK acct \in Accounts(inVault) :
        Queue(p, [QueuedWrite("legacy", None, Mode(inVault)) EXCEPT !.acct = acct])
  BY DEF Legacy
<1>3. /\ [QueuedWrite("legacy", None, Mode(inVault)) EXCEPT !.acct = acct] \in Writes
      /\ [QueuedWrite("legacy", None, Mode(inVault)) EXCEPT !.acct = acct].do = "legacy"
  <2>1. inVault \in BOOLEAN
    BY DEF inVault
  <2> QED BY <2>1, WrittenTyped
<1>4. QueueTypes' /\ QueuesAreOwn' /\ QueuesAreWhole' /\ DeletedPinStaysGone'
  BY <1>1, <1>2, <1>3, QueueCalled
<1>5. WorldTypes' /\ SnapshotTypes' /\ PublisherIsBare'
  BY <1>1 DEF WorldTypes, SnapshotTypes, PublisherIsBare
<1> QED BY <1>4, <1>5

(* A publication is added to the queue of OpenCode 2.                        *)
LEMMA PublicationAdded ==
    ASSUME SidebarInv, NEW p \in Processes, version[p] = "v2", NEW job \in Publications,
           chain' = [chain EXCEPT ![p] = Append(@, job)],
           UNCHANGED <<version, file, retries, overlay, fate>>
    PROVE  QueueTypes' /\ QueuesAreOwn' /\ QueuesAreWhole' /\ DeletedPinStaysGone'
<1> DEFINE c == Append(chain[p], job)
<1>1. /\ chain[p] \in Seq(PublishedWrites \cup Publications) /\ retries[p] = <<>>
      /\ retries \in [Processes -> Seq(Writes)]
  BY DEF SidebarInv, QueueTypes, QueueOf
<1>2. /\ c \in Seq(PublishedWrites \cup Publications)
      /\ Range(c) = Range(chain[p]) \cup {job}
  <2> DEFINE T == PublishedWrites \cup Publications
  <2>1. chain[p] \in Seq(T) /\ job \in T
    BY <1>1
  <2> HIDE DEF T
  <2>2. c \in Seq(T) /\ Range(c) = Range(chain[p]) \cup {job}
    BY <2>1, Appended
  <2> QED BY <2>2 DEF T
<1>3. job.do = "publish"
  BY DEF Publications
<1>4. OwnPins(c, retries[p], p)
  BY <1>2, <1>3 DEF SidebarInv, QueuesAreOwn, OwnPins
<1>5. chain' = [chain EXCEPT ![p] = c] /\ retries' = [retries EXCEPT ![p] = retries[p]]
  BY <1>1
<1> HIDE DEF c
<1>6. QueueTypes' /\ QueuesAreOwn'
  BY <1>1, <1>2, <1>4, <1>5, QueueStep DEF QueueOf
<1>7. QueuesAreWhole'
  BY <1>5, WholeStep
<1> QED BY <1>6, <1>7, GoneStays

LEMMA ReadingKeeps ==
    ASSUME SidebarInv, NEW p \in Processes, Reading(p)
    PROVE  SidebarInv'
<1> USE DEF SidebarInv
<1>1. /\ UNCHANGED <<version, clock, enroll, login, dead, file, cache, reads, overlay,
                     requests, fate>>
      /\ version[p] \in {"v1", "v2"}
  BY DEF Reading, host, hot, past, WorldTypes
<1> DEFINE op(id) == MachineWrite(p, mayBeEnrolled(p), row'[p], id)
<1>2. PICK second \in {0, clock}, id \in {0} \cup Max({1, row[p].id})..login.now :
        /\ row' = [row EXCEPT ![p] = [id |-> id, quota |-> [first |-> clock, second |-> second]]]
        /\ version[p] = "v1" => Queue(p, op(id)) \/ Show(p, op(id))
  BY DEF Reading
<1>3. id \in Nat
  <2>1. row[p].id \in Nat
    BY DEF WorldTypes, MainRows
  <2>2. \A x \in Nat : Max({1, x}) \in Nat
    <3> TAKE x \in Nat
    <3>1. 1 \in Nat
      OBVIOUS
    <3>2. Max({1, x}) = IF 1 >= x THEN 1 ELSE x
      BY <3>1, MaxOfTwo
    <3> QED BY <3>2
  <2>3. Max({1, row[p].id}) \in Nat
    BY <2>1, <2>2
  <2> HIDE DEF op
  <2> QED BY <2>3, <1>2 DEF WorldTypes
<1>4. row' \in [Processes -> MainRows]
  <2>1. [id |-> id, quota |-> [first |-> clock, second |-> second]] \in MainRows
    BY <1>3 DEF MainRows, Readings, WorldTypes
  <2> QED BY <1>2, <2>1 DEF WorldTypes
<1>5. WorldTypes' /\ SnapshotTypes' /\ PublisherIsBare'
  BY <1>1, <1>4 DEF WorldTypes, SnapshotTypes, PublisherIsBare
<1>6. CASE version[p] = "v1"
  <2>1. op(id) \in Writes /\ op(id).do = "machine"
    <3>1. mayBeEnrolled(p) \in BOOLEAN /\ row'[p] \in MainRows
      BY <1>4 DEF mayBeEnrolled
    <3> QED BY <1>3, <3>1, WrittenTyped
  <2> HIDE DEF op
  <2> QED BY <1>1, <1>2, <1>5, <1>6, <2>1, QueueCalled, ShowCalled
<1>7. CASE version[p] # "v1"
  <2>1. /\ chain' = [chain EXCEPT ![p] = Append(@, [do |-> "publish", s |-> None])]
        /\ UNCHANGED retries /\ version[p] = "v2"
    BY <1>1, <1>7 DEF Reading
  <2>2. [do |-> "publish", s |-> None] \in Publications
    BY DEF Publications
  <2> QED BY <1>1, <1>5, <2>1, <2>2, PublicationAdded
<1> QED BY <1>6, <1>7

LEMMA PublishKeeps ==
    ASSUME SidebarInv, NEW p \in Processes, NEW s \in Sessions, Publish(p, s)
    PROVE  SidebarInv'
<1> USE DEF SidebarInv
<1>1. /\ version[p] = "v2"
      /\ UNCHANGED <<version, clock, enroll, login, dead, row, file, cache, reads, overlay,
                     requests, fate, retries>>
  BY DEF Publish, host, hot, past
<1>2. PICK acct \in Accounts(inVault) \cup {NoAccount}, pinned \in BOOLEAN :
        chain' = [chain EXCEPT ![p] =
            Append(@, [do |-> "publish", s |-> s, acct |-> acct, pinned |-> pinned])]
  BY DEF Publish
<1>3. [do |-> "publish", s |-> s, acct |-> acct, pinned |-> pinned] \in Publications
  BY DEF Publications, Accounts, AnyAccount
<1>4. WorldTypes' /\ SnapshotTypes' /\ PublisherIsBare'
  BY <1>1 DEF WorldTypes, SnapshotTypes, PublisherIsBare
<1> QED BY <1>1, <1>2, <1>3, <1>4, PublicationAdded

(***************************************************************************)
(* Sidebar: failures and retries                                           *)
(***************************************************************************)
(* Only the queue of a process changes.                                     *)
LEMMA OnlyTheQueue ==
    ASSUME SidebarInv, NEW p \in Processes, NEW c, NEW r,
           chain' = [chain EXCEPT ![p] = c], retries' = [retries EXCEPT ![p] = r],
           UNCHANGED <<version, clock, enroll, login, dead, row, file, cache, reads, overlay,
                       requests, fate>>,
           QueueOf(c, r, version[p]), OwnPins(c, r, p),
           version[p] = "v1" =>
               /\ \A s \in Sessions : RemovalsLast(c, r, fate[p][s], s)
               /\ OnTheirWay(c, r, Range(overlay[p]))
    PROVE  SidebarInv'
<1>1. QueueTypes' /\ QueuesAreOwn'
  BY QueueStep
<1>2. QueuesAreWhole'
  BY WholeStep
<1>3. DeletedPinStaysGone'
  BY GoneStays
<1>4. WorldTypes' /\ SnapshotTypes' /\ PublisherIsBare'
  BY DEF SidebarInv, WorldTypes, SnapshotTypes, PublisherIsBare
<1> QED BY <1>1, <1>2, <1>3, <1>4 DEF SidebarInv

LEMMA FailsKeeps ==
    ASSUME SidebarInv, NEW p \in Processes, Fails(p)
    PROVE  SidebarInv'
<1> DEFINE c == chain[p]
           kept == version[p] = "v1" /\ Head(c).newest /\ Head(c).retried
           r == IF kept THEN Append(retries[p], Head(c)) ELSE retries[p]
<1>1. /\ c # <<>>
      /\ chain' = [chain EXCEPT ![p] = Tail(c)] /\ retries' = [retries EXCEPT ![p] = r]
      /\ UNCHANGED <<version, clock, enroll, login, dead, row, file, cache, reads, overlay,
                     requests, fate>>
  BY DEF Fails, host, hot, past
<1>2. CASE version[p] = "v1"
  <2>1. /\ c \in Seq(Writes) /\ retries[p] \in Seq(Writes) /\ OwnPins(c, retries[p], p)
        /\ \A s \in Sessions : RemovalsLast(c, retries[p], fate[p][s], s)
        /\ OnTheirWay(c, retries[p], Range(overlay[p]))
    BY <1>2, QueueNow
  <2>2. /\ Tail(c) \in Seq(Writes) /\ Head(c) \in Writes
        /\ Append(retries[p], Head(c)) \in Seq(Writes)
    BY <1>1, <2>1, HeadAndTail, Appended
  <2>3. r \in Seq(Writes)
    BY <2>1, <2>2
  <2>4. OwnPins(Tail(c), r, p)
    BY <1>1, <2>1, DoneOwn, FailedOwn
  <2>5. \A s \in Sessions : RemovalsLast(Tail(c), r, fate[p][s], s)
    BY <1>1, <2>1, DoneLast, FailedLast
  <2>6. OnTheirWay(Tail(c), r, Range(overlay[p]))
    <3>1. r = IF Head(c).newest /\ Head(c).retried THEN Append(retries[p], Head(c)) ELSE retries[p]
      BY <1>2
    <3> HIDE DEF r
    <3> QED BY <1>1, <2>1, <3>1, FailedOnTheirWay
  <2>7. QueueOf(Tail(c), r, version[p])
    BY <1>2, <2>2, <2>3 DEF QueueOf
  <2> HIDE DEF r, c
  <2> QED BY <1>1, <2>4, <2>5, <2>6, <2>7, OnlyTheQueue
<1>3. CASE version[p] = "v2"
  <2>1. /\ c \in Seq(PublishedWrites \cup Publications) /\ retries[p] = <<>>
        /\ OwnPins(c, retries[p], p)
    BY <1>3, QueueNow
  <2>2. /\ Tail(c) \in Seq(PublishedWrites \cup Publications) /\ r = retries[p]
        /\ OwnPins(Tail(c), retries[p], p)
    BY <1>1, <1>3, <2>1, DoneOwn, HeadAndTail
  <2>3. QueueOf(Tail(c), r, version[p])
    BY <1>3, <2>1, <2>2 DEF QueueOf
  <2> HIDE DEF r, c
  <2> QED BY <1>1, <1>3, <2>2, <2>3, OnlyTheQueue
<1> QED BY <1>2, <1>3, QueueNow

LEMMA RetryTimerKeeps ==
    ASSUME SidebarInv, NEW p \in Processes, RetryTimer(p)
    PROVE  SidebarInv'
<1> DEFINE c == chain[p]
           r == retries[p]
           g == [i \in DOMAIN r |-> Again(p, r[i])]
<1>1. /\ r # <<>>
      /\ chain' = [chain EXCEPT ![p] = c \o g] /\ retries' = [retries EXCEPT ![p] = <<>>]
      /\ UNCHANGED <<version, clock, enroll, login, dead, row, file, cache, reads, overlay,
                     requests, fate>>
  BY DEF RetryTimer, host, hot, past
<1>2. version[p] = "v1"
  BY <1>1, QueueNow
<1>3. /\ c \in Seq(Writes) /\ r \in Seq(Writes) /\ OwnPins(c, r, p)
      /\ \A s \in Sessions : RemovalsLast(c, r, fate[p][s], s)
      /\ OnTheirWay(c, r, Range(overlay[p]))
  BY <1>2, QueueNow
<1>4. \A i \in DOMAIN r : /\ g[i] \in Writes /\ g[i].do = r[i].do
                          /\ r[i].do # "machine" => g[i] = r[i]
  <2>1. \A named \in Nat : /\ MachineWrite(p, mayBeEnrolled(p), row[p], named) \in Writes
                           /\ MachineWrite(p, mayBeEnrolled(p), row[p], named).do = "machine"
    <3>1. mayBeEnrolled(p) \in BOOLEAN /\ row[p] \in MainRows
      BY DEF mayBeEnrolled, SidebarInv, WorldTypes
    <3> QED BY <3>1, WrittenTyped DEF SidebarInv
  <2>2. \A i \in DOMAIN r : r[i] \in Writes /\ r[i].named \in Nat
    BY <1>3, WriteFields
  <2> QED BY <2>1, <2>2 DEF Again
<1>5. g \in Seq(Writes) /\ CalledAgain(g, r)
  <2>1. g = [i \in DOMAIN r |-> g[i]]
    OBVIOUS
  <2> HIDE DEF g
  <2>2. g \in Seq(Writes) /\ DOMAIN g = DOMAIN r
    BY <1>3, <1>4, <2>1, MappedSeq
  <2> QED BY <1>4, <2>2 DEF CalledAgain
<1> HIDE DEF g
<1>6. OwnPins(c \o g, <<>>, p)
  BY <1>3, <1>5, RetriedOwn
<1>7. \A s \in Sessions : RemovalsLast(c \o g, <<>>, fate[p][s], s)
  BY <1>3, <1>5, RetriedLast
<1>8. OnTheirWay(c \o g, <<>>, Range(overlay[p]))
  BY <1>3, <1>5, RetriedOnTheirWay
<1>9. QueueOf(c \o g, <<>>, version[p])
  <2>1. c \o g \in Seq(Writes) /\ <<>> \in Seq(Writes)
    BY <1>3, <1>5, Concatenated
  <2> QED BY <1>2, <2>1 DEF QueueOf
<1> HIDE DEF c, r
<1> QED BY <1>1, <1>6, <1>7, <1>8, <1>9, OnlyTheQueue

(***************************************************************************)
(* Sidebar: sessions deleted, pins cleared                                 *)
(***************************************************************************)
LEMMA EntriesButTyped ==
    ASSUME NEW o \in Seq(Entries), NEW s
    PROVE  /\ EntriesBut(o, s) \in Seq(Entries)
           /\ Range(EntriesBut(o, s)) = {e \in Range(o) : e.s # s}
BY OnlyKeeps DEF EntriesBut

(* What a step leaves of the process's pins                                 *)
LEMMA OverlayStep ==
    ASSUME SidebarInv, NEW p \in Processes, version[p] = "v1",
           NEW o \in Seq(Entries), overlay' = [overlay EXCEPT ![p] = o],
           fate' \in [Processes -> [Sessions -> {"live", "deleting", "removing", "gone"}]],
           \A q \in Processes \ {p} : fate'[q] = fate[q],
           UNCHANGED <<version, clock, enroll, login, dead, row, file, cache, reads, requests>>
    PROVE  WorldTypes' /\ SnapshotTypes' /\ PublisherIsBare'
<1>1. /\ overlay' \in [Processes -> Seq(Entries)]
      /\ \A q \in Processes \ {p} : overlay'[q] = overlay[q]
  BY DEF SidebarInv, SnapshotTypes
<1>2. SnapshotTypes'
  BY <1>1 DEF SidebarInv, SnapshotTypes
<1>3. \A q \in Processes : version[q] = "v2" => q # p
  OBVIOUS
<1>4. PublisherIsBare'
  BY <1>1, <1>3 DEF SidebarInv, PublisherIsBare
<1>5. WorldTypes'
  BY DEF SidebarInv, WorldTypes
<1> QED BY <1>2, <1>4, <1>5

LEMMA OverlayNow ==
    ASSUME SidebarInv, NEW p \in Processes
    PROVE  /\ overlay \in [Processes -> Seq(Entries)] /\ overlay[p] \in Seq(Entries)
           /\ overlay = [overlay EXCEPT ![p] = overlay[p]]
           /\ fate \in [Processes -> [Sessions -> {"live", "deleting", "removing", "gone"}]]
BY DEF SidebarInv, SnapshotTypes

LEMMA DeleteKeeps ==
    ASSUME SidebarInv, NEW p \in Processes, NEW s \in Sessions, Delete(p, s)
    PROVE  SidebarInv'
<1> DEFINE c == Forget(chain[p], "pin", s)
           r == Without(retries[p], "pin", s)
           o == EntriesBut(overlay[p], s)
<1>1. /\ version[p] = "v1" /\ fate[p][s] = "live"
      /\ chain' = [chain EXCEPT ![p] = c] /\ retries' = [retries EXCEPT ![p] = r]
      /\ overlay' = [overlay EXCEPT ![p] = o]
      /\ fate' = [fate EXCEPT ![p][s] = "deleting"]
      /\ UNCHANGED <<version, clock, enroll, login, dead, row, file, cache, reads, requests>>
  BY DEF Delete, ForgetPin, host
<1>2. /\ chain[p] \in Seq(Writes) /\ retries[p] \in Seq(Writes)
      /\ OwnPins(chain[p], retries[p], p)
      /\ \A t \in Sessions : RemovalsLast(chain[p], retries[p], fate[p][t], t)
      /\ OnTheirWay(chain[p], retries[p], Range(overlay[p]))
  BY <1>1, QueueNow
<1>3. /\ fate' \in [Processes -> [Sessions -> {"live", "deleting", "removing", "gone"}]]
      /\ \A q \in Processes \ {p} : fate'[q] = fate[q]
      /\ \A t \in Sessions : fate'[p][t] = IF t = s THEN "deleting" ELSE fate[p][t]
  BY <1>1, OverlayNow
<1>4. o \in Seq(Entries) /\ Range(o) = {e \in Range(overlay[p]) : e.s # s}
  BY OverlayNow, EntriesButTyped
<1>5. overlay'[p] = o /\ \A q \in Processes \ {p} : overlay'[q] = overlay[q]
  BY <1>1, OverlayNow
<1>6. \A t \in Sessions : RemovalsLast(c, r, fate'[p][t], t)
  BY <1>1, <1>2, <1>3, ForgottenLast
<1>7. OnTheirWay(c, r, Range(o)) /\ OwnPins(c, r, p)
  BY <1>2, <1>4, ForgottenKeeps
<1>8. QueueOf(c, r, version[p])
  BY <1>1, <1>2, ForgetTyped, WithoutTyped DEF QueueOf
<1> HIDE DEF c, r, o
<1>9. QueueTypes' /\ QueuesAreOwn'
  BY <1>1, <1>7, <1>8, QueueStep
<1>10. QueuesAreWhole'
  BY <1>1, <1>3, <1>5, <1>6, <1>7, WholeStep
<1>11. DeletedPinStaysGone'
  <2>1. \A q \in Processes, t \in Sessions : fate'[q][t] = "gone" => fate[q][t] = "gone"
    BY <1>3
  <2> QED BY <1>1, <2>1, GoneStays
<1>12. WorldTypes' /\ SnapshotTypes' /\ PublisherIsBare'
  BY <1>1, <1>3, <1>4, OverlayStep
<1> QED BY <1>9, <1>10, <1>11, <1>12 DEF SidebarInv

LEMMA RemoveRouteKeeps ==
    ASSUME SidebarInv, NEW p \in Processes, NEW s \in Sessions, RemoveRoute(p, s)
    PROVE  SidebarInv'
<1> DEFINE op == RemovalOf(s, Accounts(inVault))
           c == Append(chain[p], op)
           r == retries[p]
<1>1. /\ fate[p][s] = "deleting"
      /\ fate' = [fate EXCEPT ![p][s] = "removing"]
      /\ chain' = [chain EXCEPT ![p] = c]
      /\ UNCHANGED <<version, clock, enroll, login, dead, row, file, retries, cache, reads,
                     overlay, requests>>
  BY DEF RemoveRoute, RemovalOf, host, hot
<1>2. version[p] = "v1"
  BY <1>1, QueueNow DEF SidebarInv, PublisherIsBare
<1>3. /\ chain[p] \in Seq(Writes) /\ r \in Seq(Writes)
      /\ OwnPins(chain[p], r, p)
      /\ \A t \in Sessions : RemovalsLast(chain[p], r, fate[p][t], t)
      /\ OnTheirWay(chain[p], r, Range(overlay[p]))
      /\ retries = [retries EXCEPT ![p] = r]
  BY <1>2, QueueNow
<1>4. op \in Writes /\ op.do = "remove" /\ op.s = s /\ ~op.newest /\ op.mode = "any"
  <2> DEFINE roster == Accounts(inVault)
  <2>1. roster \subseteq AnyAccount /\ enroll \in Nat
    BY DEF Accounts, AnyAccount, SidebarInv, WorldTypes
  <2>2. op = RemovalOf(s, roster)
    OBVIOUS
  <2> HIDE DEF roster, op
  <2> QED BY <2>1, <2>2, RemovalTyped
<1>5. /\ fate' \in [Processes -> [Sessions -> {"live", "deleting", "removing", "gone"}]]
      /\ \A q \in Processes \ {p} : fate'[q] = fate[q]
      /\ \A t \in Sessions : fate'[p][t] = IF t = s THEN "removing" ELSE fate[p][t]
  BY <1>1, OverlayNow
<1> HIDE DEF op
<1>6. ASSUME NEW t \in Sessions PROVE RemovalsLast(c, r, fate'[p][t], t)
  <2>1. RemovalsLast(chain[p], r, fate'[p][t], t)
    <3>1. RemovalsLast(chain[p], r, fate[p][t], t)
      BY <1>3
    <3>2. CASE t = s
      BY <1>1, <1>5, <3>1, <3>2 DEF RemovalsLast
    <3>3. CASE t # s
      BY <1>5, <3>1, <3>3
    <3> QED BY <3>2, <3>3
  <2>2. SameKey(op, "remove", t) => fate'[p][t] # "live"
    BY <1>4, <1>5 DEF SameKey
  <2> QED BY <1>3, <1>4, <2>1, <2>2, RemovalAdded
<1>7. OnTheirWay(c, r, Range(overlay[p])) /\ OwnPins(c, r, p)
  BY <1>3, <1>4, RemovalKeeps
<1>8. QueueOf(c, r, version[p])
  BY <1>2, <1>3, <1>4, Appended DEF QueueOf
<1>9. retries' = [retries EXCEPT ![p] = r]
  BY <1>1, <1>3
<1> HIDE DEF c, r
<1>10. QueueTypes' /\ QueuesAreOwn'
  BY <1>1, <1>7, <1>8, <1>9, QueueStep
<1>11. QueuesAreWhole'
  BY <1>1, <1>5, <1>6, <1>7, <1>9, WholeStep
<1>12. DeletedPinStaysGone'
  <2>1. \A q \in Processes, t \in Sessions : fate'[q][t] = "gone" => fate[q][t] = "gone"
    BY <1>5
  <2> QED BY <1>1, <2>1, GoneStays
<1>13. WorldTypes' /\ SnapshotTypes' /\ PublisherIsBare'
  BY <1>1, <1>2, <1>5, OverlayNow, OverlayStep
<1> QED BY <1>10, <1>11, <1>12, <1>13 DEF SidebarInv

LEMMA ClearKeeps ==
    ASSUME SidebarInv, NEW p \in Processes, NEW s \in Sessions, Clear(p, s)
    PROVE  SidebarInv'
<1> DEFINE op == ClearingOf(s)
           g == Forget(chain[p], "pin", s)
           c == Append(g, op)
           r == Without(retries[p], "pin", s)
           o == EntriesBut(overlay[p], s)
<1>1. /\ version[p] = "v1"
      /\ chain' = [chain EXCEPT ![p] = c] /\ retries' = [retries EXCEPT ![p] = r]
      /\ overlay' = [overlay EXCEPT ![p] = o]
      /\ UNCHANGED <<version, clock, enroll, login, dead, row, file, cache, reads, requests,
                     fate>>
  BY DEF Clear, ClearingOf, ForgetPin, host
<1>2. /\ chain[p] \in Seq(Writes) /\ retries[p] \in Seq(Writes)
      /\ OwnPins(chain[p], retries[p], p)
      /\ \A t \in Sessions : RemovalsLast(chain[p], retries[p], fate[p][t], t)
      /\ OnTheirWay(chain[p], retries[p], Range(overlay[p]))
  BY <1>1, QueueNow
<1>3. op \in Writes /\ op.do = "clear" /\ ~op.newest /\ op.mode = "any"
  BY RemovalTyped DEF SidebarInv, WorldTypes
<1>4. o \in Seq(Entries) /\ Range(o) = {e \in Range(overlay[p]) : e.s # s}
  BY OverlayNow, EntriesButTyped
<1>5. overlay'[p] = o /\ \A q \in Processes \ {p} : overlay'[q] = overlay[q]
  BY <1>1, OverlayNow
<1>6. /\ \A t \in Sessions : RemovalsLast(g, r, fate[p][t], t)
      /\ OnTheirWay(g, r, Range(o)) /\ OwnPins(g, r, p)
      /\ g \in Seq(Writes) /\ r \in Seq(Writes)
  BY <1>2, <1>4, ForgottenLast, ForgottenKeeps, ForgetTyped, WithoutTyped
<1> HIDE DEF op, g, r, o
<1>7. \A t \in Sessions : RemovalsLast(c, r, fate'[p][t], t)
  <2> TAKE t \in Sessions
  <2>1. ~SameKey(op, "remove", t)
    BY <1>3 DEF SameKey
  <2> QED BY <1>1, <1>3, <1>6, <2>1, RemovalAdded
<1>8. OnTheirWay(c, r, Range(o)) /\ OwnPins(c, r, p)
  BY <1>3, <1>6, RemovalKeeps
<1>9. QueueOf(c, r, version[p])
  BY <1>1, <1>3, <1>6, Appended DEF QueueOf
<1> HIDE DEF c
<1>10. QueueTypes' /\ QueuesAreOwn'
  BY <1>1, <1>8, <1>9, QueueStep
<1>11. QueuesAreWhole'
  BY <1>1, <1>5, <1>7, <1>8, WholeStep
<1>12. DeletedPinStaysGone'
  BY <1>1, GoneStays
<1>13. WorldTypes' /\ SnapshotTypes' /\ PublisherIsBare'
  BY <1>1, <1>4, OverlayNow, OverlayStep
<1> QED BY <1>10, <1>11, <1>12, <1>13 DEF SidebarInv

LEMMA LoaderRestartsKeeps ==
    ASSUME SidebarInv, NEW p \in Processes, LoaderRestarts(p)
    PROVE  SidebarInv'
<1> USE DEF SidebarInv
<1> DEFINE c == [i \in DOMAIN chain[p] |-> [chain[p][i] EXCEPT !.retried = FALSE]]
           o == [i \in DOMAIN overlay[p] |-> [overlay[p][i] EXCEPT !.queued = FALSE]]
<1>1. /\ version[p] = "v1"
      /\ chain' = [chain EXCEPT ![p] = c] /\ retries' = [retries EXCEPT ![p] = <<>>]
      /\ cache' = [cache EXCEPT ![p] = NoSnapshot] /\ reads' = [reads EXCEPT ![p] = {}]
      /\ overlay' = [overlay EXCEPT ![p] = o]
      /\ UNCHANGED <<version, clock, enroll, login, dead, row, file, requests, fate>>
  BY DEF LoaderRestarts, host
<1>2. /\ chain[p] \in Seq(Writes) /\ retries[p] \in Seq(Writes)
      /\ OwnPins(chain[p], retries[p], p)
      /\ \A t \in Sessions : RemovalsLast(chain[p], retries[p], fate[p][t], t)
      /\ overlay[p] \in Seq(Entries)
  BY <1>1, QueueNow, OverlayNow
<1>3. ASSUME NEW op \in Writes
      PROVE  [op EXCEPT !.retried = FALSE] \in Writes /\ Weaker([op EXCEPT !.retried = FALSE], op)
  BY DEF Writes, WriteTypes, Weaker
<1>4. /\ c = [i \in DOMAIN chain[p] |-> c[i]]
      /\ \A i \in DOMAIN chain[p] : c[i] \in Writes /\ Weaker(c[i], chain[p][i])
  BY <1>2, <1>3, InRange
<1>5. ASSUME NEW e \in Entries
      PROVE  [e EXCEPT !.queued = FALSE] \in Entries /\ ~[e EXCEPT !.queued = FALSE].queued
  BY DEF Entries
<1>6. /\ o = [i \in DOMAIN overlay[p] |-> o[i]]
      /\ \A i \in DOMAIN overlay[p] : o[i] \in Entries /\ ~o[i].queued
  BY <1>2, <1>5, InRange
<1> HIDE DEF c, o
<1>7. c \in Seq(Writes) /\ DOMAIN c = DOMAIN chain[p]
  BY <1>2, <1>4, MappedSeq
<1>8. o \in Seq(Entries) /\ DOMAIN o = DOMAIN overlay[p]
  BY <1>2, <1>6, MappedSeq
<1>9. Range(<<>>) = {} /\ <<>> \in Seq(Writes)
  BY EmptyQueue
<1>10. \A t \in Sessions : RemovalsLast(c, <<>>, fate[p][t], t)
  BY <1>2, <1>4, <1>7, <1>9, WeakenedLast
<1>11. OnTheirWay(c, <<>>, Range(o))
  <2>1. \A e \in Range(o) : ~e.queued
    BY <1>6, <1>8 DEF Range
  <2> QED BY <2>1 DEF OnTheirWay
<1>12. OwnPins(c, <<>>, p)
  <2>1. ASSUME NEW x \in Range(c) PROVE x.do = "pin" => x.pin.by = p
    <3>1. PICK i \in DOMAIN c : c[i] = x
      BY DEF Range
    <3>2. chain[p][i] \in Range(chain[p]) /\ x.do = chain[p][i].do /\ x.pin = chain[p][i].pin
      BY <1>4, <1>7, <3>1 DEF Range, Weaker
    <3> QED BY <1>2, <3>2 DEF OwnPins
  <2> QED BY <1>9, <2>1 DEF OwnPins
<1>13. overlay'[p] = o /\ \A q \in Processes \ {p} : overlay'[q] = overlay[q]
  BY <1>1, OverlayNow
<1>14. QueueTypes' /\ QueuesAreOwn'
  <2>1. QueueOf(c, <<>>, version[p])
    BY <1>1, <1>7, <1>9 DEF QueueOf
  <2> QED BY <1>1, <1>12, <2>1, QueueStep
<1>15. QueuesAreWhole'
  BY <1>1, <1>10, <1>11, <1>13, WholeStep
<1>16. DeletedPinStaysGone'
  BY <1>1, GoneStays
<1>17. SnapshotTypes'
  <2>1. NoSnapshot \in Snapshots
    BY NoPinsTyped DEF NoSnapshot, Snapshots
  <2>2. cache' \in [Processes -> Snapshots]
    BY <1>1, <2>1 DEF SnapshotTypes
  <2>3. /\ reads' \in [Processes -> SUBSET ReadsUnderWay]
        /\ \A q \in Processes : reads'[q] \subseteq reads[q]
    BY <1>1 DEF SnapshotTypes
  <2>4. overlay' \in [Processes -> Seq(Entries)]
    BY <1>1, <1>8 DEF SnapshotTypes
  <2> QED BY <1>1, <2>2, <2>3, <2>4 DEF SnapshotTypes
<1>18. PublisherIsBare'
  <2>1. \A q \in Processes : version[q] = "v2" => q # p
    BY <1>1
  <2> QED BY <1>1, <1>13, <2>1 DEF PublisherIsBare
<1>19. WorldTypes'
  BY <1>1 DEF WorldTypes
<1> QED BY <1>14, <1>15, <1>16, <1>17, <1>18, <1>19

LEMMA ExitKeeps ==
    ASSUME SidebarInv, NEW p \in Processes, Exit(p)
    PROVE  SidebarInv'
<1> USE DEF SidebarInv
<1>1. /\ chain' = [chain EXCEPT ![p] = <<>>] /\ retries' = [retries EXCEPT ![p] = <<>>]
      /\ cache' = [cache EXCEPT ![p] = NoSnapshot] /\ reads' = [reads EXCEPT ![p] = {}]
      /\ overlay' = [overlay EXCEPT ![p] = <<>>] /\ requests' = [requests EXCEPT ![p] = {}]
      /\ row' = [row EXCEPT ![p] = [id |-> 0, quota |-> None]]
      /\ UNCHANGED <<version, clock, enroll, login, dead, file, fate>>
  BY DEF Exit, host
<1>2. Range(<<>>) = {} /\ <<>> \in Seq(Writes) /\ <<>> \in Seq(Entries)
      /\ <<>> \in Seq(PublishedWrites \cup Publications)
  BY EmptyQueue
<1>3. overlay'[p] = <<>> /\ \A q \in Processes \ {p} : overlay'[q] = overlay[q]
  BY <1>1, OverlayNow
<1>4. QueueTypes' /\ QueuesAreOwn'
  <2>1. QueueOf(<<>>, <<>>, version[p]) /\ OwnPins(<<>>, <<>>, p)
    BY <1>2, EmptyQueue DEF QueueOf
  <2> QED BY <1>1, <2>1, QueueStep
<1>5. QueuesAreWhole'
  <2>1. /\ \A s \in Sessions : RemovalsLast(<<>>, <<>>, fate'[p][s], s)
        /\ OnTheirWay(<<>>, <<>>, Range(overlay'[p]))
    BY <1>2, <1>3, EmptyQueue
  <2> QED BY <1>1, <1>3, <2>1, WholeStep
<1>6. DeletedPinStaysGone'
  BY <1>1, GoneStays
<1>7. SnapshotTypes'
  <2>1. NoSnapshot \in Snapshots
    BY NoPinsTyped DEF NoSnapshot, Snapshots
  <2>2. cache' \in [Processes -> Snapshots]
    BY <1>1, <2>1 DEF SnapshotTypes
  <2>3. /\ reads' \in [Processes -> SUBSET ReadsUnderWay]
        /\ \A q \in Processes : reads'[q] \subseteq reads[q]
    BY <1>1 DEF SnapshotTypes
  <2>4. overlay' \in [Processes -> Seq(Entries)]
    BY <1>1, <1>2 DEF SnapshotTypes
  <2>5. requests' \in [Processes -> SUBSET Deciders]
    BY <1>1 DEF SnapshotTypes
  <2> QED BY <1>1, <2>2, <2>3, <2>4, <2>5 DEF SnapshotTypes
<1>8. PublisherIsBare'
  BY <1>1 DEF PublisherIsBare, SnapshotTypes
<1>9. WorldTypes'
  <2>1. [id |-> 0, quota |-> None] \in MainRows
    BY DEF MainRows
  <2> QED BY <1>1, <2>1 DEF WorldTypes
<1> QED BY <1>4, <1>5, <1>6, <1>7, <1>8, <1>9

(***************************************************************************)
(* Sidebar: a write lands                                                  *)
(***************************************************************************)
(* What a write under the lock leaves in the file of its process p           *)
LEMMA FileStep ==
    ASSUME SidebarInv, NEW p \in Processes, NEW op \in Writes, op.do = "pin" => op.pin.by = p,
           NEW made, made = writeMergedSidebarState(file, op),
           UNCHANGED <<version, clock, enroll, login, dead, row, requests>>,
           \/ Written(made)
           \/ UNCHANGED <<file, cache, reads>>
    PROVE  /\ WorldTypes'
           /\ cache' \in [Processes -> Snapshots]
           /\ reads' \in [Processes -> SUBSET ReadsUnderWay]
           /\ \A q \in Processes : \A r \in reads'[q] : r.at <= clock'
           /\ \A t \in Sessions :
                \/ file'.pins[t] \in {None, file.pins[t]}
                \/ t = op.s /\ op.do = "pin" /\ file'.pins[t].by = p
                     /\ file'.pins[t].late = op.pin.late
<1> USE DEF SidebarInv
<1>1. file \in SidebarFiles
  BY DEF WorldTypes
<1>2. /\ made \in SidebarFiles /\ RecordsOfOneMode(made)
      /\ \A t \in Sessions :
           made.pins[t] \in {None, file.pins[t]}
             \/ (op.do = "pin" /\ t = op.s /\ WrittenPin(op, made.pins[t]))
  BY <1>1, WriteIsMerged
<1>3. CASE UNCHANGED <<file, cache, reads>>
  BY <1>3 DEF WorldTypes, SnapshotTypes
<1>4. CASE Written(made)
  <2>1. /\ file' = made
        /\ cache' = [q \in Processes |-> [cache[q] EXCEPT !.current = FALSE]]
        /\ reads' = [q \in Processes |-> {[r EXCEPT !.current = FALSE] : r \in reads[q]}]
    BY <1>4 DEF Written
  <2>2. cache' \in [Processes -> Snapshots]
    <3>1. \A snap \in Snapshots : [snap EXCEPT !.current = FALSE] \in Snapshots
      BY DEF Snapshots
    <3> QED BY <2>1, <3>1 DEF SnapshotTypes
  <2>3. \A r \in ReadsUnderWay : /\ [r EXCEPT !.current = FALSE] \in ReadsUnderWay
                                 /\ [r EXCEPT !.current = FALSE].at = r.at
    BY DEF ReadsUnderWay
  <2>4. /\ reads' \in [Processes -> SUBSET ReadsUnderWay]
        /\ \A q \in Processes : \A r \in reads'[q] : r.at <= clock'
    <3>1. ASSUME NEW q \in Processes
          PROVE  /\ reads[q] \subseteq ReadsUnderWay /\ \A r \in reads[q] : r.at <= clock
                 /\ reads'[q] = {[r EXCEPT !.current = FALSE] : r \in reads[q]}
      BY <2>1 DEF SnapshotTypes
    <3>2. ASSUME NEW q \in Processes, NEW x \in reads'[q]
          PROVE  x \in ReadsUnderWay /\ x.at <= clock
      <4>1. PICK r \in reads[q] : x = [r EXCEPT !.current = FALSE]
        BY <3>1, <3>2
      <4> QED BY <2>3, <3>1, <4>1
    <3> QED BY <2>1, <3>2
  <2>5. WorldTypes'
    BY <1>2, <2>1 DEF WorldTypes
  <2>6. \A t \in Sessions :
          \/ file'.pins[t] \in {None, file.pins[t]}
          \/ t = op.s /\ op.do = "pin" /\ file'.pins[t].by = p
               /\ file'.pins[t].late = op.pin.late
    BY <1>2, <2>1 DEF WrittenPin
  <2> QED BY <2>2, <2>4, <2>5, <2>6
<1> QED BY <1>3, <1>4

LEMMA PersistedTyped ==
    ASSUME SidebarInv, NEW p \in Processes, version[p] = "v1", chain[p] # <<>>
    PROVE  LET op == Head(chain[p])
               o  == Persisted(p, op)
           IN  /\ o \in Seq(Entries)
               /\ \A e \in Range(o) : e.landed = 0 => e \in Range(overlay[p]) /\ ~WriteOf(op, e)
<1> DEFINE op == Head(chain[p])
           o  == Persisted(p, op)
<1>1. clock \in Nat /\ clock > 0 /\ overlay[p] \in Seq(Entries)
  BY OverlayNow DEF SidebarInv, WorldTypes
<1>2. o = [i \in DOMAIN overlay[p] |->
            IF op.do = "pin" /\ op.newest /\ overlay[p][i].s = op.s
            THEN [overlay[p][i] EXCEPT !.landed = clock] ELSE overlay[p][i]]
  BY DEF Persisted
<1> HIDE DEF op
<1>3. ASSUME NEW e \in Entries
      PROVE  [e EXCEPT !.landed = clock] \in Entries /\ [e EXCEPT !.landed = clock].landed # 0
  BY <1>1 DEF Entries
<1>4. ASSUME NEW i \in DOMAIN overlay[p]
      PROVE  /\ o[i] \in Entries
             /\ o[i].landed = 0 => o[i] \in Range(overlay[p]) /\ ~WriteOf(op, o[i])
  <2>1. overlay[p][i] \in Entries /\ overlay[p][i] \in Range(overlay[p])
    BY <1>1, <1>4, InRange
  <2>2. CASE op.do = "pin" /\ op.newest /\ overlay[p][i].s = op.s
    <3>1. o[i] = [overlay[p][i] EXCEPT !.landed = clock]
      BY <1>2, <2>2
    <3> QED BY <1>3, <2>1, <3>1
  <2>3. CASE ~(op.do = "pin" /\ op.newest /\ overlay[p][i].s = op.s)
    <3>1. o[i] = overlay[p][i]
      BY <1>2, <2>3
    <3> QED BY <2>1, <2>3, <3>1 DEF WriteOf, SameKey
  <2> QED BY <2>2, <2>3
<1>5. o = [i \in DOMAIN overlay[p] |-> o[i]]
  BY <1>2
<1> HIDE DEF o
<1>6. o \in Seq(Entries) /\ DOMAIN o = DOMAIN overlay[p]
  BY <1>1, <1>4, <1>5, MappedSeq
<1>7. \A e \in Range(o) : e.landed = 0 => e \in Range(overlay[p]) /\ ~WriteOf(op, e)
  BY <1>4, <1>6 DEF Range
<1> QED BY <1>6, <1>7 DEF o, op

LEMMA LandsKeeps ==
    ASSUME SidebarInv, NEW p \in Processes, Lands(p)
    PROVE  SidebarInv'
<1> USE DEF SidebarInv
<1> DEFINE op == Head(chain[p])
           made == writeMergedSidebarState(file, op)
           c == Tail(chain[p])
           r == retries[p]
           o == Persisted(p, op)
<1>1. /\ version[p] = "v1" /\ chain[p] # <<>>
      /\ IF canWrite(p, op) /\ ~NothingToWrite(op, made)
         THEN Written(made) ELSE UNCHANGED <<file, cache, reads>>
      /\ overlay' = [overlay EXCEPT ![p] = o]
      /\ fate' = [fate EXCEPT ![p] = [s \in Sessions |->
             IF SameKey(op, "remove", s) THEN "gone" ELSE fate[p][s]]]
      /\ chain' = [chain EXCEPT ![p] = c]
      /\ UNCHANGED <<version, clock, enroll, login, dead, row, retries, requests>>
  BY DEF Lands, host
<1>2. /\ chain[p] \in Seq(Writes) /\ r \in Seq(Writes)
      /\ OwnPins(chain[p], r, p)
      /\ \A s \in Sessions : RemovalsLast(chain[p], r, fate[p][s], s)
      /\ OnTheirWay(chain[p], r, Range(overlay[p]))
      /\ retries = [retries EXCEPT ![p] = r]
  BY <1>1, QueueNow
<1>3. /\ op \in Writes /\ c \in Seq(Writes) /\ op \in Range(chain[p])
      /\ 1 \in DOMAIN chain[p] /\ op = chain[p][1]
  BY <1>1, <1>2, HeadAndTail, TailAt
<1>4. op.do = "pin" => op.pin.by = p
  BY <1>2, <1>3 DEF OwnPins
<1>5. /\ o \in Seq(Entries)
      /\ \A e \in Range(o) : e.landed = 0 => e \in Range(overlay[p]) /\ ~WriteOf(op, e)
  BY <1>1, PersistedTyped
<1>6. /\ fate' \in [Processes -> [Sessions -> {"live", "deleting", "removing", "gone"}]]
      /\ \A q \in Processes \ {p} : fate'[q] = fate[q]
      /\ \A s \in Sessions :
           fate'[p][s] = IF SameKey(op, "remove", s) THEN "gone" ELSE fate[p][s]
  BY <1>1, OverlayNow
<1>7. overlay'[p] = o /\ \A q \in Processes \ {p} : overlay'[q] = overlay[q]
  BY <1>1, OverlayNow
<1>8. Written(made) \/ UNCHANGED <<file, cache, reads>>
  BY <1>1
<1>9. /\ WorldTypes'
      /\ cache' \in [Processes -> Snapshots]
      /\ reads' \in [Processes -> SUBSET ReadsUnderWay]
      /\ \A q \in Processes : \A x \in reads'[q] : x.at <= clock'
      /\ \A t \in Sessions :
           \/ file'.pins[t] \in {None, file.pins[t]}
           \/ t = op.s /\ op.do = "pin" /\ file'.pins[t].by = p
                /\ file'.pins[t].late = op.pin.late
  <2> HIDE DEF op
  <2> QED BY <1>1, <1>3, <1>4, <1>8, FileStep
<1>10. \A s \in Sessions : RemovalsLast(c, r, fate'[p][s], s)
  BY <1>1, <1>2, <1>6, DoneLast
<1>11. OnTheirWay(c, r, Range(o))
  <2>1. OnTheirWay(chain[p], r, Range(o))
    BY <1>2, <1>5 DEF OnTheirWay
  <2>2. \A e \in Range(o) : e.landed = 0 => ~WriteOf(Head(chain[p]), e)
    BY <1>5
  <2> HIDE DEF o
  <2> QED BY <1>1, <1>2, <2>1, <2>2, DoneOnTheirWay
<1>12. OwnPins(c, r, p)
  BY <1>1, <1>2, DoneOwn
<1>13. retries' = [retries EXCEPT ![p] = r]
  BY <1>1, <1>2
<1>14. ASSUME NEW s \in Sessions, SameKey(op, "remove", s) PROVE file'.pins[s] = None
  <2>1. op.mode = "any" /\ op.do = "remove" /\ op.s = s
    BY <1>2, <1>3, <1>14 DEF RemovalsLast, SameKey, Dropped
  <2>2. canWrite(p, op) /\ ~NothingToWrite(op, made)
    BY <2>1 DEF canWrite, NothingToWrite
  <2>3. file' = made
    BY <1>1, <2>2 DEF Written
  <2>4. made.pins[s] = None
    <3>1. file \in SidebarFiles
      BY DEF WorldTypes
    <3> HIDE DEF op
    <3> QED BY <1>3, <2>1, <3>1, WriteIsMerged
  <2> QED BY <2>3, <2>4
<1>15. DeletedPinStaysGone'
  <2> SUFFICES ASSUME NEW q \in Processes, NEW s \in Sessions, fate'[q][s] = "gone",
                      file'.pins[s] # None, file'.pins[s].by = q
               PROVE  file'.pins[s].late
    BY DEF DeletedPinStaysGone
  <2>1. fate[q][s] = "gone"
    BY <1>6, <1>14
  <2>2. CASE file'.pins[s] \in {None, file.pins[s]}
    BY <2>1, <2>2 DEF DeletedPinStaysGone
  <2>3. CASE /\ s = op.s /\ op.do = "pin" /\ file'.pins[s].by = p
             /\ file'.pins[s].late = op.pin.late
    <3>1. q = p
      BY <2>3
    <3>2. ~EarlyPin(op, s)
      BY <1>2, <1>3, <2>1, <3>1 DEF RemovalsLast
    <3> QED BY <2>3, <3>2 DEF EarlyPin, SameKey
  <2> QED BY <1>9, <2>2, <2>3
<1> HIDE DEF op, made, c, r, o
<1>16. QueueTypes' /\ QueuesAreOwn'
  <2>1. QueueOf(c, r, version[p])
    BY <1>1, <1>2, <1>3 DEF QueueOf
  <2> QED BY <1>1, <1>12, <1>13, <2>1, QueueStep
<1>17. QueuesAreWhole'
  <2>1. /\ version' = version /\ chain' = [chain EXCEPT ![p] = c]
        /\ \A q \in Processes \ {p} : overlay'[q] = overlay[q] /\ fate'[q] = fate[q]
        /\ \A s \in Sessions : RemovalsLast(c, r, fate'[p][s], s)
        /\ OnTheirWay(c, r, Range(overlay'[p]))
    BY <1>1, <1>6, <1>7, <1>10, <1>11
  <2> QED BY <1>13, <2>1, WholeStep
<1>18. SnapshotTypes'
  <2>1. overlay' \in [Processes -> Seq(Entries)]
    BY <1>1, <1>5, OverlayNow
  <2> QED BY <1>1, <1>6, <1>9, <2>1 DEF SnapshotTypes
<1>19. PublisherIsBare'
  <2>1. \A q \in Processes : version[q] = "v2" => q # p
    BY <1>1
  <2> QED BY <1>1, <1>6, <1>7, <2>1 DEF PublisherIsBare
<1> QED BY <1>9, <1>15, <1>16, <1>17, <1>18, <1>19

(***************************************************************************)
(* Sidebar: a request decides its pin                                      *)
(***************************************************************************)
EntryOf(s, pin) == [s |-> s, pin |-> pin, landed |-> 0, queued |-> TRUE]

LEMMA RememberTyped ==
    ASSUME NEW o \in Seq(Entries), NEW s \in Sessions, NEW pin \in Pins
    PROVE  /\ rememberStickyPin(o, s, pin) \in Seq(Entries)
           /\ \A e \in Range(rememberStickyPin(o, s, pin)) :
                (e \in Range(o) /\ e.s # s) \/ e = EntryOf(s, pin)
<1> DEFINE new == EntryOf(s, pin)
           kept == Append(EntriesBut(o, s), new)
<1>1. new \in Entries
  BY DEF EntryOf, Entries
<1>2. /\ EntriesBut(o, s) \in Seq(Entries)
      /\ Range(EntriesBut(o, s)) = {e \in Range(o) : e.s # s}
  BY EntriesButTyped
<1> HIDE DEF new
<1>3. kept \in Seq(Entries) /\ Range(kept) = Range(EntriesBut(o, s)) \cup {new} /\ kept # <<>>
  <2>1. kept \in Seq(Entries) /\ Range(kept) = Range(EntriesBut(o, s)) \cup {new}
    BY <1>1, <1>2, Appended
  <2>2. new \in Range(kept)
    BY <2>1
  <2> HIDE DEF kept
  <2> QED BY <2>1, <2>2, EmptyRange
<1>4. rememberStickyPin(o, s, pin) \in {kept, Tail(kept)}
  BY DEF rememberStickyPin, new, EntryOf
<1> HIDE DEF kept
<1>5. Tail(kept) \in Seq(Entries) /\ Range(Tail(kept)) \subseteq Range(kept)
  BY <1>3, HeadAndTail
<1> QED BY <1>2, <1>3, <1>4, <1>5 DEF new

LEMMA WireTyped ==
    ASSUME WorldTypes, NEW p \in Processes, NEW acct
    PROVE  Wire(p, acct) \in Nat
BY DEF Wire, WorldTypes

LEMMA PlannedTyped ==
    ASSUME WorldTypes, NEW p \in Processes, NEW pin \in Pins \cup {None}, NEW valid,
           NEW fresh \in AnyAccount
    PROVE  planSidebarStickyAssignment(p, pin, valid, fresh) \in Pins
<1> DEFINE new == planSidebarStickyAssignment(p, pin, valid, fresh)
<1>1. clock \in Nat /\ Wire(p, fresh) \in Nat /\ Wire(p, pin.acct) \in Nat
  BY WireTyped DEF WorldTypes
<1>2. CASE keepsPin(p, pin, valid)
  <2> DEFINE w == IF pin.wire = 0 THEN Wire(p, pin.acct) ELSE pin.wire
             a == IF clock - pin.seen >= Touch THEN clock ELSE pin.seen
  <2>1. pin \in Pins
    BY <1>2 DEF keepsPin
  <2>2. new = [pin EXCEPT !.wire = w, !.seen = a]
    BY <1>2 DEF planSidebarStickyAssignment, refreshed
  <2>3. w \in Nat /\ a \in Nat
    BY <1>1, <2>1 DEF Pins
  <2> HIDE DEF w, a
  <2> QED BY <2>1, <2>2, <2>3 DEF Pins
<1>3. CASE ~keepsPin(p, pin, valid)
  <2>1. new = [acct |-> fresh, assigned |-> clock, seen |-> clock,
               wire |-> Wire(p, fresh), by |-> p, late |-> FALSE]
    BY <1>3 DEF planSidebarStickyAssignment
  <2> QED BY <1>1, <2>1 DEF Pins
<1> QED BY <1>2, <1>3

LEMMA FewerOnTheirWay ==
    ASSUME NEW c, NEW r, NEW E, NEW F, OnTheirWay(c, r, E), F \subseteq E
    PROVE  OnTheirWay(c, r, F)
BY DEF OnTheirWay

(* The write of a pin this process now uses                                 *)
LEMMA PinQueued ==
    ASSUME NEW c \in Seq(Writes), NEW r \in Seq(Writes), NEW op \in Writes, op.do = "pin",
           op.newest, op.retried, NEW p, op.pin.by = p, NEW state, op.pin.late = (state[op.s] # "live"),
           OwnPins(c, r, p), \A s \in Sessions : RemovalsLast(c, r, state[s], s),
           NEW E, OnTheirWay(c, r, E),
           NEW F, \A e \in F : (e \in E /\ e.s # op.s) \/ e = EntryOf(op.s, op.pin)
    PROVE  LET d == Enqueue(c, op)
               q == Unqueue(r, op)
           IN  /\ d \in Seq(Writes) /\ q \in Seq(Writes) /\ OwnPins(d, q, p)
               /\ \A s \in Sessions : RemovalsLast(d, q, state[s], s)
               /\ OnTheirWay(d, q, F)
<1> DEFINE d == Enqueue(c, op)
           q == Unqueue(r, op)
<1>1. d \in Seq(Writes) /\ q \in Seq(Writes)
  BY EnqueueTyped, WithoutTyped DEF Unqueue
<1>2. OwnPins(d, q, p)
  BY EnqueuedOwn
<1>3. ASSUME NEW s \in Sessions PROVE RemovalsLast(d, q, state[s], s)
  <2>1. EarlyPin(op, s) => state[s] = "live"
    BY DEF EarlyPin, SameKey
  <2>2. RemovalsLast(c, r, state[s], s)
    OBVIOUS
  <2> QED BY <2>1, <2>2, EnqueuedLast
<1>4. OnTheirWay(d, q, {e \in E : e.s # op.s})
  <2> DEFINE G == {e \in E : e.s # op.s}
  <2>1. OnTheirWay(c, r, G) /\ \A e \in G : e.s # op.s
    BY FewerOnTheirWay
  <2> HIDE DEF G
  <2>2. OnTheirWay(d, q, G)
    BY <2>1, EnqueuedOnItsWay
  <2> QED BY <2>2 DEF G
<1>5. op \in Range(d)
  BY EnqueuedIsThere
<1>6. WriteOf(op, EntryOf(op.s, op.pin))
  BY DEF WriteOf, SameKey, EntryOf
<1> HIDE DEF d, q
<1>7. OnTheirWay(d, q, F)
  <2> SUFFICES ASSUME NEW e \in F, e.landed = 0, e.queued
               PROVE  \E x \in Range(d) \cup Range(q) : WriteOf(x, e) /\ x.retried
    BY DEF OnTheirWay
  <2>1. CASE e \in E /\ e.s # op.s
    BY <1>4, <2>1 DEF OnTheirWay
  <2>2. CASE e = EntryOf(op.s, op.pin)
    BY <1>5, <1>6, <2>2
  <2> QED BY <2>1, <2>2
<1> QED BY <1>1, <1>2, <1>3, <1>7 DEF d, q

KeptBy(p, r) == Only(overlay[p], {e \in Range(overlay[p]) : ~seenInFile(e, r)})

LEMMA KeptTyped ==
    ASSUME SidebarInv, NEW p \in Processes, NEW r \in requests[p]
    PROVE  /\ KeptBy(p, r) \in Seq(Entries)
           /\ Range(KeptBy(p, r)) \subseteq Range(overlay[p])
           /\ r \in Deciders
           /\ applyStickyPinOverlay(r, KeptBy(p, r))[r.s] \in Pins \cup {None}
<1> DEFINE k == KeptBy(p, r)
<1>1. overlay[p] \in Seq(Entries) /\ r \in Deciders
  BY DEF SidebarInv, SnapshotTypes
<1>2. k \in Seq(Entries) /\ Range(k) \subseteq Range(overlay[p])
  BY <1>1, OnlyKeeps DEF KeptBy
<1> HIDE DEF k
<1>3. r.s \in Sessions /\ r.pins[r.s] \in Pins \cup {None}
  BY <1>1 DEF Deciders, PinMaps
<1> DEFINE own == {i \in DOMAIN k : k[i].s = r.s}
<1> DEFINE laid == applyStickyPinOverlay(r, k)[r.s]
<1>4. ASSUME own = {} PROVE laid \in Pins \cup {None}
  BY <1>3, <1>4 DEF applyStickyPinOverlay
<1>5. ASSUME own # {} PROVE laid \in Pins \cup {None}
  <2>1. (CHOOSE i \in own : TRUE) \in own
    BY <1>5
  <2>2. applyStickyPinOverlay(r, k)[r.s] = k[CHOOSE i \in own : TRUE].pin
    BY <1>3, <1>5 DEF applyStickyPinOverlay
  <2> DEFINE i == CHOOSE i \in own : TRUE
  <2>3. i \in DOMAIN k
    BY <2>1
  <2> HIDE DEF i
  <2>4. k[i] \in Entries
    BY <1>2, <2>3
  <2> QED BY <2>2, <2>4 DEF Entries, i
<1> QED BY <1>1, <1>2, <1>4, <1>5 DEF k

LEMMA PlaceKeeps ==
    ASSUME SidebarInv, NEW p \in Processes, Place(p)
    PROVE  SidebarInv'
<1> USE DEF SidebarInv
<1>2. PICK r \in requests[p] : \E valid \in {Accounts(r.vault), Accounts(r.vault) \ dead} :
          \E fresh \in valid \ dead : PlaceOn(p, r, valid, fresh)
  BY DEF Place
<1>3. PICK valid \in {Accounts(r.vault), Accounts(r.vault) \ dead} :
          \E fresh \in valid \ dead : PlaceOn(p, r, valid, fresh)
  BY <1>2
<1>4. PICK fresh \in valid \ dead : PlaceOn(p, r, valid, fresh)
  BY <1>3
<1>1. UNCHANGED <<version, clock, enroll, login, dead, row, file, cache, reads, fate>>
  BY <1>4 DEF PlaceOn, host
<1> DEFINE entries == KeptBy(p, r)
           pin     == applyStickyPinOverlay(r, entries)[r.s]
           decided == planSidebarStickyAssignment(p, pin, valid, fresh)
           write   == ~stickyAssignmentIsCurrent(p, pin, valid)
           noted   == [decided EXCEPT !.by = p, !.late = fate[p][r.s] # "live"]
           route   == RouteWrite(r, decided.acct)
           pinned  == PinWrite(r, noted, valid)
           overtaken(q) == \E i \in DOMAIN overlay[p] :
                LET e == overlay[p][i]
                IN  e.s = q.s /\ seenInFile(e, r) /\ ~seenInFile(e, q)
           c == IF write THEN Enqueue(chain[p], pinned) ELSE chain[p]
           w == IF write THEN Unqueue(retries[p], pinned) ELSE retries[p]
           o == IF write THEN rememberStickyPin(entries, r.s, noted) ELSE entries
           rest == {[q EXCEPT !.behind = q.behind \/ q.s = r.s \/ overtaken(q)] :
                        q \in requests[p] \ {r}}
<1>5. /\ overlay' = [overlay EXCEPT ![p] = o]
      /\ chain' = [chain EXCEPT ![p] = Enqueue(c, route)]
      /\ retries' = [retries EXCEPT ![p] = Unqueue(w, route)]
      /\ requests' = [requests EXCEPT ![p] = rest]
  <2>1. /\ chain \in [Processes -> Seq(Writes \cup Publications)]
        /\ retries \in [Processes -> Seq(Writes)]
        /\ requests \in [Processes -> SUBSET Deciders]
    BY DEF QueueTypes, SnapshotTypes
  <2>2. /\ overlay' = [overlay EXCEPT ![p] = o]
        /\ requests' = [requests EXCEPT ![p] = rest]
    BY <1>4, <2>1 DEF PlaceOn, KeptBy
  <2>3. chain' = [chain EXCEPT ![p] = Enqueue(c, route)]
    BY <1>4, <2>1 DEF PlaceOn, KeptBy
  <2>4. retries' = [retries EXCEPT ![p] = Unqueue(w, route)]
    BY <1>4, <2>1 DEF PlaceOn, KeptBy
  <2> QED BY <2>2, <2>3, <2>4
<1>6. /\ version[p] = "v1"
      /\ entries \in Seq(Entries) /\ Range(entries) \subseteq Range(overlay[p])
      /\ r \in Deciders /\ pin \in Pins \cup {None}
  <2>1. version[p] = "v1"
    BY QueueNow DEF PublisherIsBare
  <2> QED BY <2>1, KeptTyped
<1>7. r.s \in Sessions /\ r.vault \in BOOLEAN /\ valid \subseteq AnyAccount /\ fresh \in AnyAccount
  BY <1>6 DEF Deciders, Accounts, AnyAccount
<1> HIDE DEF entries, pin
<1>8. decided \in Pins
  BY <1>6, <1>7, PlannedTyped
<1> HIDE DEF decided
<1>9. noted \in Pins /\ noted.by = p /\ noted.late = (fate[p][r.s] # "live")
  BY <1>8 DEF Pins
<1> HIDE DEF noted
<1>10. /\ pinned \in Writes /\ pinned.do = "pin" /\ pinned.s = r.s /\ pinned.pin = noted
       /\ pinned.newest /\ pinned.retried
       /\ route \in Writes /\ route.do = "route"
  <2>1. decided.acct \in AnyAccount
    BY <1>8 DEF Pins
  <2> QED BY <1>7, <1>9, <2>1, RequestWriteTyped
<1> HIDE DEF pinned, route
<1>11. /\ chain[p] \in Seq(Writes) /\ retries[p] \in Seq(Writes)
       /\ OwnPins(chain[p], retries[p], p)
       /\ \A s \in Sessions : RemovalsLast(chain[p], retries[p], fate[p][s], s)
       /\ OnTheirWay(chain[p], retries[p], Range(overlay[p]))
  BY <1>6, QueueNow
<1>12. /\ o \in Seq(Entries) /\ c \in Seq(Writes) /\ w \in Seq(Writes) /\ OwnPins(c, w, p)
       /\ \A s \in Sessions : RemovalsLast(c, w, fate[p][s], s)
       /\ OnTheirWay(c, w, Range(o))
  <2>1. CASE write
    <3> DEFINE kept == rememberStickyPin(entries, r.s, noted)
               d == Enqueue(chain[p], pinned)
               q == Unqueue(retries[p], pinned)
               state == fate[p]
    <3>1. /\ kept \in Seq(Entries)
          /\ \A e \in Range(kept) :
               (e \in Range(entries) /\ e.s # r.s) \/ e = EntryOf(r.s, noted)
      BY <1>6, <1>7, <1>9, RememberTyped
    <3>2. o = kept /\ c = d /\ w = q
      BY <2>1
    <3> HIDE DEF kept, o, c, w
    <3>3. \A e \in Range(kept) :
             (e \in Range(overlay[p]) /\ e.s # pinned.s) \/ e = EntryOf(pinned.s, pinned.pin)
      BY <1>6, <1>10, <3>1
    <3>4. /\ pinned.pin.by = p /\ pinned.pin.late = (state[pinned.s] # "live")
      BY <1>9, <1>10
    <3>5. \A s \in Sessions : RemovalsLast(chain[p], retries[p], state[s], s)
      BY <1>11
    <3> HIDE DEF state
    <3>6. /\ d \in Seq(Writes) /\ q \in Seq(Writes) /\ OwnPins(d, q, p)
          /\ \A s \in Sessions : RemovalsLast(d, q, state[s], s)
          /\ OnTheirWay(d, q, Range(kept))
      BY <1>10, <1>11, <3>3, <3>4, <3>5, PinQueued
    <3> HIDE DEF d, q
    <3> QED BY <3>1, <3>2, <3>6 DEF state
  <2>2. CASE ~write
    <3>1. o = entries /\ c = chain[p] /\ w = retries[p]
      BY <2>2
    <3>2. OnTheirWay(chain[p], retries[p], Range(entries))
      BY <1>6, <1>11, FewerOnTheirWay
    <3> QED BY <1>6, <1>11, <3>1, <3>2
  <2> QED BY <2>1, <2>2
<1> HIDE DEF o, c, w, write
<1> DEFINE c2 == Enqueue(c, route)
           w2 == Unqueue(w, route)
<1>13. c2 \in Seq(Writes) /\ w2 \in Seq(Writes)
  BY <1>10, <1>12, EnqueueTyped, WithoutTyped DEF Unqueue
<1>14. OwnPins(c2, w2, p)
  BY <1>10, <1>12, EnqueuedOwn
<1>15. \A s \in Sessions : RemovalsLast(c2, w2, fate[p][s], s)
  <2> TAKE s \in Sessions
  <2>1. RemovalsLast(c, w, fate[p][s], s) /\ ~EarlyPin(route, s)
    BY <1>10, <1>12 DEF EarlyPin, SameKey
  <2> QED BY <1>10, <1>12, <2>1, EnqueuedLast
<1>16. OnTheirWay(c2, w2, Range(o))
  <2> DEFINE E == Range(o)
  <2>1. OnTheirWay(c, w, E)
    BY <1>12
  <2>3. route.do # "pin"
    BY <1>10
  <2> HIDE DEF E
  <2>2. OnTheirWay(c2, w2, E)
    BY <1>10, <1>12, <2>1, <2>3, EnqueuedOnItsWay
  <2> QED BY <2>2 DEF E
<1> HIDE DEF c2, w2
<1>17. rest \subseteq Deciders
  <2>1. \A q \in Deciders : \A b \in BOOLEAN : [q EXCEPT !.behind = b] \in Deciders
    BY DEF Deciders
  <2>2. requests[p] \subseteq Deciders
    BY DEF SnapshotTypes
  <2> HIDE DEF overtaken
  <2> QED BY <2>1, <2>2
<1> HIDE DEF rest
<1>18. chain' = [chain EXCEPT ![p] = c2] /\ retries' = [retries EXCEPT ![p] = w2]
  BY <1>5 DEF c2, w2
<1>19. QueueTypes' /\ QueuesAreOwn'
  <2>1. QueueOf(c2, w2, version[p])
    BY <1>6, <1>13 DEF QueueOf
  <2> QED BY <1>1, <1>14, <1>18, <2>1, QueueStep
<1>20. overlay' \in [Processes -> Seq(Entries)] /\ overlay'[p] = o
       /\ \A q \in Processes \ {p} : overlay'[q] = overlay[q]
  BY <1>5, <1>12, OverlayNow
<1>21. requests' \in [Processes -> SUBSET Deciders]
       /\ \A q \in Processes \ {p} : requests'[q] = requests[q]
  BY <1>5, <1>17 DEF SnapshotTypes
<1>22. QueuesAreWhole'
  <2>1. /\ \A s \in Sessions : RemovalsLast(c2, w2, fate'[p][s], s)
        /\ OnTheirWay(c2, w2, Range(overlay'[p]))
        /\ \A q \in Processes \ {p} : overlay'[q] = overlay[q] /\ fate'[q] = fate[q]
    BY <1>1, <1>15, <1>16, <1>20
  <2> QED BY <1>1, <1>18, <2>1, WholeStep
<1>23. DeletedPinStaysGone'
  BY <1>1, GoneStays
<1>24. WorldTypes' /\ SnapshotTypes' /\ PublisherIsBare'
  <2>1. \A q \in Processes : version[q] = "v2" => q # p
    BY <1>6
  <2> QED BY <1>1, <1>20, <1>21, <2>1 DEF WorldTypes, SnapshotTypes, PublisherIsBare
<1> QED BY <1>19, <1>22, <1>23, <1>24

(***************************************************************************)
(* Sidebar: publications                                                   *)
(***************************************************************************)
LEMMA OneWrite ==
    ASSUME NEW p, NEW op \in PublishedWrites, op.do = "pin" => op.pin.by = p
    PROVE  /\ <<op>> \in Seq(PublishedWrites)
           /\ \A x \in Range(<<op>>) : x.do = "pin" => x.pin.by = p
<1>1. Range(<<op>>) = {op}
  <2>1. DOMAIN <<op>> = {1} /\ <<op>>[1] = op
    OBVIOUS
  <2> QED BY <2>1 DEF Range
<1> QED BY <1>1

(* The rest of a publication is typed, and its pin is the process's own.     *)
LEMMA ContinuedTyped ==
    ASSUME WorldTypes, NEW p \in Processes, NEW op \in PublishedWrites,
           op.do \in {"machine", "pin"}
    PROVE  /\ Continue(p, op) \in Seq(PublishedWrites)
           /\ \A x \in Range(Continue(p, op)) : x.do = "pin" => x.pin.by = p
<1> DEFINE job == op.then
           vault == ~(op.mode = "local")
           alive == Accounts(vault) \ op.dead
           part(do, accts) == [op EXCEPT !.do = do, !.s = job.s, !.roster = accts]
           pin == [acct |-> job.acct, assigned |-> clock, seen |-> clock,
                   wire |-> Wire(p, job.acct), by |-> p, late |-> FALSE]
           removal == part("remove", alive)
           pinned == [part("pin", Accounts(vault)) EXCEPT !.pin = pin]
           routed == [part("route", alive) EXCEPT !.acct = job.acct, !.at = clock]
<1>1. /\ op \in WriteTypes /\ job \in Publications
      /\ Accounts(vault) \subseteq AnyAccount /\ alive \subseteq AnyAccount
      /\ clock \in Nat /\ Wire(p, job.acct) \in Nat
  BY WireTyped DEF PublishedWrites, Writes, WorldTypes, Accounts, AnyAccount
<1>2. CASE job.s = None \/ ~canWrite(p, op)
  <2>1. Continue(p, op) = <<>>
    BY <1>2 DEF Continue
  <2>2. <<>> \in Seq(PublishedWrites) /\ Range(<<>>) = {}
    BY EmptyQueue
  <2> QED BY <2>1, <2>2
<1>3. CASE job.s # None /\ canWrite(p, op)
  <2>1. job.s \in Sessions /\ job.acct \in AnyAccount \cup {NoAccount} /\ job.pinned \in BOOLEAN
    BY <1>1, <1>3 DEF Publications
  <2>2. \A do \in OfSession, accts \in SUBSET AnyAccount :
          /\ part(do, accts) \in WriteTypes /\ part(do, accts).do = do
          /\ part(do, accts).s = job.s /\ part(do, accts).then = job
    BY <1>1, <2>1 DEF WriteTypes
  <2>3. Continue(p, op) =
          IF job.acct = NoAccount THEN <<removal>>
          ELSE IF op.do = "machine" /\ job.pinned THEN <<pinned>> ELSE <<routed>>
    BY <1>3 DEF Continue
  <2>4. CASE job.acct = NoAccount
    <3>1. removal \in WriteTypes /\ removal.do = "remove" /\ removal.s = job.s
      BY <1>1, <2>2 DEF OfSession
    <3> HIDE DEF removal
    <3>2. removal \in PublishedWrites
      BY <2>1, <3>1 DEF PublishedWrites, Writes, OfSession
    <3>3. Continue(p, op) = <<removal>>
      BY <2>3, <2>4
    <3> QED BY <3>1, <3>2, <3>3, OneWrite
  <2>5. CASE job.acct # NoAccount /\ op.do = "machine" /\ job.pinned
    <3> DEFINE base == part("pin", Accounts(vault))
    <3>1. base \in WriteTypes /\ base.do = "pin" /\ base.s = job.s /\ base.then = job
      BY <1>1, <2>2 DEF OfSession
    <3>2. pin \in Pins /\ pin.by = p
      BY <1>1, <2>1, <2>5 DEF Pins
    <3>3. Continue(p, op) = <<pinned>> /\ pinned = [base EXCEPT !.pin = pin]
      BY <2>3, <2>5
    <3> HIDE DEF base, pin
    <3>4. /\ pinned \in WriteTypes /\ pinned.do = "pin" /\ pinned.s = job.s
          /\ pinned.then = job /\ pinned.pin = pin
      <4>1. /\ [base EXCEPT !.pin = pin] \in WriteTypes
            /\ [base EXCEPT !.pin = pin].do = "pin" /\ [base EXCEPT !.pin = pin].s = job.s
            /\ [base EXCEPT !.pin = pin].then = job /\ [base EXCEPT !.pin = pin].pin = pin
        BY <3>1, <3>2 DEF WriteTypes
      <4> HIDE DEF pinned
      <4> QED BY <3>3, <4>1
    <3> HIDE DEF pinned
    <3>5. pinned \in PublishedWrites
      BY <1>1, <2>1, <3>2, <3>4 DEF PublishedWrites, Writes, OfSession
    <3>6. Continue(p, op) = <<pinned>> /\ (pinned.do = "pin" => pinned.pin.by = p)
      BY <3>2, <3>3, <3>4
    <3> HIDE DEF pin, part, alive, vault
    <3> QED BY <3>5, <3>6, OneWrite
  <2>6. CASE job.acct # NoAccount /\ ~(op.do = "machine" /\ job.pinned)
    <3> DEFINE base == part("route", alive)
    <3>1. base \in WriteTypes /\ base.do = "route" /\ base.s = job.s
      BY <1>1, <2>2 DEF OfSession
    <3>2. job.acct \in AnyAccount
      BY <2>1, <2>6
    <3>3. Continue(p, op) = <<routed>> /\ routed = [base EXCEPT !.acct = job.acct, !.at = clock]
      BY <2>3, <2>6
    <3> HIDE DEF base
    <3>4. /\ routed \in WriteTypes /\ routed.do = "route" /\ routed.s = job.s
          /\ routed.acct = job.acct
      <4> DEFINE x == [base EXCEPT !.acct = job.acct, !.at = clock]
      <4>1. x \in WriteTypes /\ x.do = "route" /\ x.s = job.s /\ x.acct = job.acct
        BY <1>1, <3>1, <3>2 DEF WriteTypes
      <4> HIDE DEF routed, x
      <4>2. routed = x
        BY <3>3 DEF x
      <4> QED BY <4>1, <4>2
    <3> HIDE DEF routed
    <3>5. routed \in PublishedWrites
      BY <2>1, <3>2, <3>4 DEF PublishedWrites, Writes, OfSession
    <3>6. Continue(p, op) = <<routed>> /\ routed.do # "pin"
      BY <3>3, <3>4
    <3> HIDE DEF pin, part, alive, vault
    <3> QED BY <3>5, <3>6, OneWrite
  <2> QED BY <2>4, <2>5, <2>6
<1> QED BY <1>2, <1>3

(* What the queue of OpenCode 2 holds once its first job gave way to others  *)
LEMMA PublicationStep ==
    ASSUME SidebarInv, NEW p \in Processes, version[p] = "v2", chain[p] # <<>>,
           NEW more \in Seq(PublishedWrites),
           \A x \in Range(more) : x.do = "pin" => x.pin.by = p
    PROVE  LET c == more \o Tail(chain[p])
           IN  QueueOf(c, retries[p], version[p]) /\ OwnPins(c, retries[p], p)
<1> DEFINE T == PublishedWrites \cup Publications
           t == Tail(chain[p])
           c == more \o t
<1>1. /\ chain[p] \in Seq(T) /\ retries[p] = <<>> /\ OwnPins(chain[p], retries[p], p)
  BY QueueNow
<1>2. more \in Seq(T)
  <2>1. PublishedWrites \subseteq T
    OBVIOUS
  <2> HIDE DEF T
  <2> QED BY <2>1, WiderSeq
<1> HIDE DEF T
<1>3. t \in Seq(T) /\ Range(t) \subseteq Range(chain[p])
  BY <1>1, HeadAndTail
<1> HIDE DEF t
<1>4. c \in Seq(T) /\ Range(c) = Range(more) \cup Range(t)
  BY <1>2, <1>3, Concatenated
<1> HIDE DEF c
<1>5. OwnPins(c, retries[p], p)
  BY <1>1, <1>3, <1>4 DEF OwnPins
<1>6. QueueOf(c, retries[p], version[p])
  BY <1>1, <1>4 DEF QueueOf, T
<1> QED BY <1>5, <1>6 DEF c, t

LEMMA StartPublicationKeeps ==
    ASSUME SidebarInv, NEW p \in Processes, StartPublication(p)
    PROVE  SidebarInv'
<1> DEFINE job == Head(chain[p])
           op == [MachineWrite(p, inVault, row[p], 0) EXCEPT !.then = job]
           c == <<op>> \o Tail(chain[p])
<1>1. /\ chain[p] # <<>> /\ job.do = "publish"
      /\ chain' = [chain EXCEPT ![p] = c]
      /\ UNCHANGED <<version, clock, enroll, login, dead, row, file, retries, cache, reads, overlay,
                     requests, fate>>
  BY DEF StartPublication, hot, past
<1>2. version[p] = "v2"
  <2>1. ASSUME version[p] = "v1" PROVE FALSE
    <3>1. chain[p] \in Seq(Writes)
      BY <2>1, QueueNow
    <3>2. job \in Writes
      BY <1>1, <3>1, HeadAndTail
    <3> QED BY <1>1, <3>2, WriteFields DEF OfSession
  <2> QED BY <2>1, QueueNow
<1>3. job \in Publications
  <2> DEFINE T == PublishedWrites \cup Publications
  <2>1. chain[p] \in Seq(T)
    BY <1>2, QueueNow
  <2> HIDE DEF T
  <2>2. job \in T
    BY <1>1, <2>1, HeadAndTail
  <2>3. ASSUME job \in Writes PROVE FALSE
    BY <1>1, <2>3, WriteFields DEF OfSession
  <2> QED BY <2>2, <2>3 DEF T, PublishedWrites
<1>4. op \in PublishedWrites /\ op.do = "machine"
  <2> DEFINE w == MachineWrite(p, inVault, row[p], 0)
  <2>1. inVault \in BOOLEAN /\ row[p] \in MainRows
    BY DEF inVault, SidebarInv, WorldTypes
  <2>2. /\ w \in Writes /\ w.do = "machine"
        /\ \A x \in Publications : [w EXCEPT !.then = x] \in PublishedWrites
    BY <2>1, WrittenTyped DEF SidebarInv
  <2> HIDE DEF w
  <2>3. [w EXCEPT !.then = job].do = "machine"
    BY <2>2 DEF Writes, WriteTypes
  <2> QED BY <1>3, <2>2, <2>3 DEF w
<1> HIDE DEF op, job
<1>5. QueueOf(c, retries[p], version[p]) /\ OwnPins(c, retries[p], p)
  <2>1. <<op>> \in Seq(PublishedWrites) /\ \A x \in Range(<<op>>) : x.do = "pin" => x.pin.by = p
    BY <1>4, OneWrite
  <2> DEFINE more == <<op>>
  <2> HIDE DEF more
  <2>2. more \in Seq(PublishedWrites) /\ \A x \in Range(more) : x.do = "pin" => x.pin.by = p
    BY <2>1 DEF more
  <2>3. LET d == more \o Tail(chain[p])
        IN  QueueOf(d, retries[p], version[p]) /\ OwnPins(d, retries[p], p)
    BY <1>1, <1>2, <2>2, PublicationStep
  <2> QED BY <2>3 DEF more
<1>6. retries' = [retries EXCEPT ![p] = retries[p]]
  BY <1>1, QueueNow
<1> HIDE DEF c
<1> QED BY <1>1, <1>2, <1>5, <1>6, OnlyTheQueue

LEMMA PublishesKeeps ==
    ASSUME SidebarInv, NEW p \in Processes, Publishes(p)
    PROVE  SidebarInv'
<1> USE DEF SidebarInv
<1> DEFINE op == Head(chain[p])
           made == writeMergedSidebarState(file, op)
           more == IF op.do \in {"machine", "pin"} THEN Continue(p, op) ELSE <<>>
           c == more \o Tail(chain[p])
           r == retries[p]
<1>1. /\ version[p] = "v2" /\ chain[p] # <<>> /\ op.do # "publish"
      /\ IF canWrite(p, op) /\ ~NothingToWrite(op, made)
         THEN Written(made) ELSE UNCHANGED <<file, cache, reads>>
      /\ chain' = [chain EXCEPT ![p] = c]
      /\ UNCHANGED <<version, clock, enroll, login, dead, row, retries, overlay, requests, fate>>
  BY DEF Publishes, host
<1>2. op \in PublishedWrites /\ op \in Range(chain[p])
  <2> DEFINE T == PublishedWrites \cup Publications
  <2>1. chain[p] \in Seq(T)
    BY <1>1, QueueNow
  <2> HIDE DEF T
  <2>2. op \in T /\ op \in Range(chain[p])
    BY <1>1, <2>1, HeadAndTail
  <2>3. op \in Publications => op.do = "publish"
    BY DEF Publications
  <2> QED BY <1>1, <2>2, <2>3 DEF T
<1>3. op \in Writes /\ (op.do = "pin" => op.pin.by = p)
  BY <1>2 DEF PublishedWrites, QueuesAreOwn, OwnPins
<1>4. more \in Seq(PublishedWrites) /\ \A x \in Range(more) : x.do = "pin" => x.pin.by = p
  <2> HIDE DEF op
  <2>1. CASE op.do \in {"machine", "pin"}
    <3>1. more = Continue(p, op)
      BY <2>1
    <3> HIDE DEF more
    <3> QED BY <1>2, <2>1, <3>1, ContinuedTyped
  <2>2. CASE op.do \notin {"machine", "pin"}
    <3>1. more = <<>>
      BY <2>2
    <3>2. <<>> \in Seq(PublishedWrites) /\ Range(<<>>) = {}
      BY EmptyQueue
    <3> QED BY <3>1, <3>2
  <2> QED BY <2>1, <2>2
<1>5. Written(made) \/ UNCHANGED <<file, cache, reads>>
  BY <1>1
<1>6. /\ WorldTypes'
      /\ cache' \in [Processes -> Snapshots]
      /\ reads' \in [Processes -> SUBSET ReadsUnderWay]
      /\ \A q \in Processes : \A x \in reads'[q] : x.at <= clock'
      /\ \A t \in Sessions :
           \/ file'.pins[t] \in {None, file.pins[t]}
           \/ t = op.s /\ op.do = "pin" /\ file'.pins[t].by = p
                /\ file'.pins[t].late = op.pin.late
  <2> HIDE DEF op
  <2> QED BY <1>1, <1>3, <1>5, FileStep
<1> HIDE DEF op, made, more
<1>7. QueueOf(c, r, version[p]) /\ OwnPins(c, r, p)
  BY <1>1, <1>4, PublicationStep
<1>8. retries' = [retries EXCEPT ![p] = r]
  BY <1>1, QueueNow
<1> HIDE DEF c, r
<1>9. QueueTypes' /\ QueuesAreOwn'
  BY <1>1, <1>7, <1>8, QueueStep
<1>10. QueuesAreWhole'
  <2>1. version[p] # "v1" /\ \A q \in Processes \ {p} : overlay'[q] = overlay[q] /\ fate'[q] = fate[q]
    BY <1>1
  <2> QED BY <1>1, <1>8, <2>1, WholeStep
<1>11. SnapshotTypes' /\ PublisherIsBare'
  BY <1>1, <1>6 DEF SnapshotTypes, PublisherIsBare
<1>12. DeletedPinStaysGone'
  <2> SUFFICES ASSUME NEW q \in Processes, NEW s \in Sessions, fate'[q][s] = "gone",
                      file'.pins[s] # None, file'.pins[s].by = q
               PROVE  file'.pins[s].late
    BY DEF DeletedPinStaysGone
  <2>1. fate[q][s] = "gone" /\ q # p
    BY <1>1 DEF PublisherIsBare
  <2>2. file'.pins[s] = file.pins[s]
    BY <1>6, <2>1
  <2> QED BY <2>1, <2>2 DEF DeletedPinStaysGone
<1> QED BY <1>6, <1>9, <1>10, <1>11, <1>12

(***************************************************************************)
(* Sidebar: the theorems                                                   *)
(***************************************************************************)
LEMMA SidebarStep ==
    ASSUME SidebarInv, SidebarNext
    PROVE  SidebarInv'
<1>1. CASE \E p \in Processes : Lands(p) \/ Fails(p) \/ RetryTimer(p)
  BY <1>1, LandsKeeps, FailsKeeps, RetryTimerKeeps
<1>2. CASE \E p \in Processes : Reading(p) \/ Refresh(p) \/ Legacy(p)
  BY <1>2, ReadingKeeps, RefreshKeeps, LegacyKeeps
<1>3. CASE \E p \in Processes : (\E s \in Sessions : Begin(p, s)) \/ ReadDone(p) \/ Warm(p)
  BY <1>3, BeginKeeps, ReadDoneKeeps, WarmKeeps
<1>4. CASE \E p \in Processes : Place(p)
  BY <1>4, PlaceKeeps
<1>5. CASE \E p \in Processes, s \in Sessions : Delete(p, s) \/ RemoveRoute(p, s) \/ Clear(p, s)
  BY <1>5, DeleteKeeps, RemoveRouteKeeps, ClearKeeps
<1>6. CASE \E p \in Processes :
             (\E s \in Sessions : Publish(p, s)) \/ StartPublication(p) \/ Publishes(p)
  BY <1>6, PublishKeeps, StartPublicationKeeps, PublishesKeeps
<1>7. CASE \/ Tick \/ EnrollmentChanges \/ Login \/ NameLogin
           \/ \E p \in Processes : ReadAuthority(p)
           \/ \E a \in Locals \cup Vaults : Killswitch(a)
  BY <1>7, HostMoves
<1>8. CASE \E p \in Processes : LoaderRestarts(p) \/ Exit(p)
  BY <1>8, LoaderRestartsKeeps, ExitKeeps
<1> QED BY <1>1, <1>2, <1>3, <1>4, <1>5, <1>6, <1>7, <1>8 DEF SidebarNext

(* The types, the single mode of the records in the file, the order of       *)
(* removals in every queue and the pins that are on their way hold always.   *)
THEOREM SidebarInvariant == SidebarSpec => []SidebarInv
<1>1. SidebarInit => SidebarInv
  BY SidebarInvInit
<1>2. SidebarInv /\ [SidebarNext]_sidebarVars => SidebarInv'
  BY SidebarStep, SidebarStutters
<1> QED BY <1>1, <1>2, PTL DEF SidebarSpec

(* The file of the vault's accounts holds no record of a local one, and what *)
(* a session is shown with is an account of the file's mode.                 *)
THEOREM FileIsOfOneModeCorrect == SidebarSpec => []FileIsOfOneMode
<1>1. SidebarInv => FileIsOfOneMode
  <2> SUFFICES ASSUME SidebarInv PROVE FileIsOfOneMode
    OBVIOUS
  <2>1. RecordsOfOneMode(file)
    BY DEF SidebarInv, WorldTypes
  <2>2. ASSUME NEW s \in Sessions
        PROVE  resolveSessionSidebarRouting(file, s)
                   \subseteq IF file.vault THEN Vaults \cup {"vault"} ELSE Locals
    <3>1. routeIsUsable(file, file.routes[s])
            => file.routes[s].acct \in Accounts(file.vault)
      BY DEF routeIsUsable, Accounts
    <3>2. resolveSessionStickyAccount(file, s) # NoAccount
            => resolveSessionStickyAccount(file, s) \in Accounts(file.vault)
      BY DEF resolveSessionStickyAccount
    <3>3. "main" \in Locals
      OBVIOUS
    <3> QED BY <3>1, <3>2, <3>3 DEF resolveSessionSidebarRouting, Accounts
  <2> QED BY <2>1, <2>2 DEF FileIsOfOneMode, RecordsOfOneMode
<1> QED BY <1>1, SidebarInvariant, PTL

(* No pin comes back once its session is deleted and gone, and each pin that *)
(* a process goes by is in the file or on its way there.                     *)
THEOREM PinsAreAsAskedCorrect == SidebarSpec => []PinsAreAsAsked
<1>1. SidebarInv => PinsAreAsAsked
  <2> SUFFICES ASSUME SidebarInv PROVE PinIsOnItsWay
    BY DEF PinsAreAsAsked, SidebarInv
  <2> SUFFICES ASSUME NEW p \in Processes, NEW i \in DOMAIN overlay[p],
                      overlay[p][i].landed = 0, overlay[p][i].queued
               PROVE  \E op \in Range(chain[p]) \cup Range(retries[p]) : WriteOf(op, overlay[p][i])
    BY DEF PinIsOnItsWay, WriteOf
  <2>1. CASE version[p] = "v1"
    <3>1. overlay[p][i] \in Range(overlay[p])
      BY DEF Range
    <3> QED BY <2>1, <3>1 DEF SidebarInv, QueuesAreWhole, OnTheirWay
  <2>2. CASE version[p] = "v2"
    BY <2>2 DEF SidebarInv, PublisherIsBare
  <2> QED BY <2>1, <2>2, QueueNow
<1> QED BY <1>1, SidebarInvariant, PTL

(* Only a merge of the write at the head of a queue changes the file.       *)
LEMMA FileIsMerged ==
    ASSUME SidebarInv, [SidebarNext]_sidebarVars
    PROVE  file' = file \/ \E p \in Processes :
                              /\ chain[p] # <<>> /\ Head(chain[p]) \in Writes
                              /\ file' = writeMergedSidebarState(file, Head(chain[p]))
<1> DEFINE Done == file' = file \/ \E p \in Processes :
                              /\ chain[p] # <<>> /\ Head(chain[p]) \in Writes
                              /\ file' = writeMergedSidebarState(file, Head(chain[p]))
<1>1. ASSUME NEW p \in Processes, Lands(p) \/ Publishes(p)
      PROVE  Done
  <2> DEFINE op == Head(chain[p])
  <2>1. /\ file' = file \/ file' = writeMergedSidebarState(file, op)
        /\ op.do # "publish" \/ version[p] = "v1"
    BY <1>1 DEF Lands, Publishes, Written
  <2>2. chain[p] # <<>>
    BY <1>1 DEF Lands, Publishes
  <2>3. op \in Writes
    <3>1. CASE version[p] = "v1"
      <4>1. chain[p] \in Seq(Writes)
        BY <3>1, QueueNow
      <4> QED BY <2>2, <4>1, HeadAndTail
    <3>2. CASE version[p] = "v2"
      <4> DEFINE T == PublishedWrites \cup Publications
      <4>1. chain[p] \in Seq(T)
        BY <3>2, QueueNow
      <4> HIDE DEF T
      <4>2. op \in T
        BY <2>2, <4>1, HeadAndTail
      <4> QED BY <2>1, <3>2, <4>2 DEF T, PublishedWrites, Publications
    <3> QED BY <3>1, <3>2, QueueNow
  <2> QED BY <2>1, <2>2, <2>3
<1>2. ASSUME UNCHANGED sidebarVars PROVE file' = file
  BY <1>2 DEF sidebarVars
<1>3. ASSUME NEW p \in Processes,
             \/ Fails(p) \/ RetryTimer(p) \/ Reading(p) \/ Refresh(p) \/ Legacy(p)
             \/ \E s \in Sessions : Begin(p, s) \/ Delete(p, s) \/ RemoveRoute(p, s)
             \/ \E s \in Sessions : Clear(p, s) \/ Publish(p, s)
             \/ ReadDone(p) \/ Warm(p)
             \/ StartPublication(p) \/ ReadAuthority(p) \/ LoaderRestarts(p) \/ Exit(p)
      PROVE  file' = file
  BY <1>3 DEF Fails, RetryTimer, Reading, Refresh, Legacy, Begin, Delete, RemoveRoute, Clear,
     Publish, ReadDone, Warm, StartPublication, ReadAuthority, LoaderRestarts, Exit
<1>4. ASSUME \/ Tick \/ EnrollmentChanges \/ Login \/ NameLogin
             \/ \E a \in Locals \cup Vaults : Killswitch(a)
      PROVE  file' = file
  BY <1>4 DEF Tick, EnrollmentChanges, Login, NameLogin, Killswitch
<1>5. ASSUME NEW p \in Processes, Place(p) PROVE file' = file
  <2>1. ASSUME NEW r, NEW valid, NEW fresh, PlaceOn(p, r, valid, fresh) PROVE file' = file
    BY <2>1 DEF PlaceOn
  <2> QED BY <1>5, <2>1 DEF Place
<1> QED BY <1>1, <1>2, <1>3, <1>4, <1>5 DEF SidebarNext

(* No display, however late, shows a window under an identity that neither it *)
(* nor the file had it under, or takes what is shown back to an older time.   *)
THEOREM MergeKeepsReadingsCorrect == SidebarSpec => MergeKeepsReadings
<1> DEFINE Kept == file'.main # file.main /\ ~file'.vault =>
               \E p \in Processes :
                   /\ chain[p] # <<>> /\ Head(chain[p]).do = "machine"
                   /\ KeepsReadings(file.main, Head(chain[p]).row, file'.main)
<1>1. ASSUME SidebarInv, [SidebarNext]_sidebarVars
      PROVE  Kept
  <2>1. file \in SidebarFiles
    BY <1>1 DEF SidebarInv, WorldTypes
  <2>2. CASE file' = file
    BY <2>2
  <2>3. ASSUME NEW p \in Processes, chain[p] # <<>>, Head(chain[p]) \in Writes,
               file' = writeMergedSidebarState(file, Head(chain[p]))
        PROVE  Kept
    <3>1. MainKept(file, Head(chain[p]), file'.main, file'.vault)
      BY <2>1, <2>3, WriteIsMerged
    <3> QED BY <2>3, <3>1 DEF MainKept
  <2> HIDE DEF Kept
  <2> QED BY <1>1, <2>2, <2>3, FileIsMerged
<1>2. SidebarInv /\ [SidebarNext]_sidebarVars => [Kept]_sidebarVars
  BY <1>1
<1> QED BY <1>2, SidebarInvariant, PTL DEF SidebarSpec, MergeKeepsReadings
=============================================================================
