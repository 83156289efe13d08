------------------------- MODULE PoolTransferProofs -------------------------
(***************************************************************************)
(* Proofs about PoolTransfer, for every set of logins, rows and identities *)
(* and every bound.                                                        *)
(***************************************************************************)
EXTENDS PoolTransfer, TLAPS

(* A generation the provider has issued.                                    *)
Issued(t) == t[2] <= gen[t[1]]

(* Every stored token was issued; a refresher holds a token below the bound *)
(* on generations, and one it is about to store has been rotated.           *)
Generations ==
    /\ slot \in Tokens => Issued(slot)
    /\ \A r \in RowIds : rows[r] \in Tokens => Issued(rows[r])
    /\ pending \in Record => Issued(pending.tok)
    /\ rec \in Record => Issued(rec.tok)
    /\ stok \in Tokens => Issued(stok) /\ stok[2] < MaxGen
    /\ spc = "persist" => Spent(stok)
    /\ btok \in Tokens => Issued(btok) /\ btok[2] < MaxGen
    /\ bpc = "store" => Spent(btok)

TInv == TypeOK /\ Generations

(* The two halves of the handshake, and what they add up to: the run copies *)
(* under its own record, a refresh sends under its own lease, and the run   *)
(* that found no lease after writing the record keeps excluding them.       *)
Handshake ==
    /\ rpc \in {"lease", "confirm", "apply"} => pending = rec
    /\ spc \in {"send", "persist"} => lease = stok
    /\ rpc \in {"confirm", "apply"} /\ spc \in {"send", "persist"} => stok # rec.tok

USE BoundsAssumption, MainAssumption, FlagsAssumption, MarksAssumption

LEMMA InitTypes == Init => TInv
<1> SUFFICES ASSUME Init PROVE TInv
  OBVIOUS
<1>1. \A l \in Logins : <<l, 0>> \in Tokens
  BY DEF Tokens
<1>2. /\ rows \in [RowIds -> Optional(Tokens)]
      /\ issued \subseteq Logins
      /\ acct \in [Logins -> Optional(Identities)]
  BY <1>1 DEF Init, InitAccounts, Optional, Identities, NextLogin
<1>3. ProviderTypes
  BY <1>2 DEF Init, ProviderTypes
<1>4. StoreTypes
  BY <1>2 DEF Init, StoreTypes
<1>5. BookTypes
  BY DEF Init, BookTypes, Optional
<1>6. RunTypes
  BY DEF Init, RunTypes, Optional
<1>7. RefreshTypes
  BY DEF Init, RefreshTypes, Optional
<1>8. HistoryTypes
  BY DEF Init, HistoryTypes
<1>9. \A r \in RowIds : rows[r] \in Tokens => Issued(rows[r])
  BY DEF Init, InitAccounts, Issued, NextLogin
<1>10. Generations
  BY <1>9 DEF Init, Generations, Placeholders
<1>11. FlagTypes
  BY Zenon DEF Init, FlagTypes
<1> QED BY <1>3, <1>4, <1>5, <1>6, <1>7, <1>8, <1>10, <1>11 DEF TInv, TypeOK

USE DEF vars, provider, store, book, run, slotRef, rowRef, history

(* The flags are Boolean after every step.                                  *)
LEMMA FlagsStep == ASSUME TypeOK, [Next]_vars PROVE FlagTypes'
<1> USE DEF TypeOK, FlagTypes
<1>1. ASSUME NEW m \in {"migrate", "adopt"}, StartRun(m) PROVE FlagTypes'
  BY Zenon, <1>1 DEF StartRun
<1>2. ASSUME NEW r \in RowIds, PoolRowStart(r) PROVE FlagTypes'
  BY Zenon, <1>2 DEF PoolRowStart, StartRow
<1>3. ASSUME NEW r \in RowIds, LegacyRowStart(r) PROVE FlagTypes'
  BY Zenon, <1>3 DEF LegacyRowStart, StartRow
<1>4. ASSUME NEW r \in RowIds, EnableRow(r) PROVE FlagTypes'
  BY Zenon, <1>4 DEF EnableRow
<1>5. CASE PlanGate
  BY Zenon, <1>5 DEF PlanGate, Planning
<1>6. CASE PlanRefused
  BY Zenon, <1>6 DEF PlanRefused, Planning, KeepBook
<1>7. CASE PlanNothing
  BY Zenon, <1>7 DEF PlanNothing, WriteFinished, Planning
<1>8. CASE PlanFresh
  BY Zenon, <1>8 DEF PlanFresh, Planning, KeepBook
<1>9. CASE PlanFinish
  BY Zenon, <1>9 DEF PlanFinish, Planning, KeepBook
<1>10. CASE PlanResume
  BY Zenon, <1>10 DEF PlanResume, Planning, KeepBook
<1>11. CASE PlanAmbiguous
  BY Zenon, <1>11 DEF PlanAmbiguous, WriteFinished, Planning
<1>12. CASE PlanDropRecord
  BY Zenon, <1>12 DEF PlanDropRecord, clearRecord, Planning
<1>13. CASE writeRecord
  BY Zenon, <1>13 DEF writeRecord
<1>14. CASE legacyLeaseActive
  BY Zenon, <1>14 DEF legacyLeaseActive
<1>15. CASE ConfirmSlot
  BY Zenon, <1>15 DEF ConfirmSlot
<1>16. CASE applyToRow
  BY Zenon, <1>16 DEF applyToRow
<1>17. CASE verifyRow
  BY Zenon, <1>17 DEF verifyRow
<1>18. CASE FenceRead
  BY Zenon, <1>18 DEF FenceRead
<1>19. CASE ClearAndRestart
  BY Zenon, <1>19 DEF ClearAndRestart, clearRecord
<1>20. CASE LastRead
  BY Zenon, <1>20 DEF LastRead
<1>21. CASE PutPlaceholder
  BY Zenon, <1>21 DEF PutPlaceholder
<1>22. CASE ReadBack
  BY Zenon, <1>22 DEF ReadBack
<1>23. CASE FinishTransfer
  BY Zenon, <1>23 DEF FinishTransfer, WriteFinished
<1>24. CASE DisableRow
  BY Zenon, <1>24 DEF DisableRow
<1>25. CASE RemoveRow
  BY Zenon, <1>25 DEF RemoveRow
<1>26. CASE RollbackRecord
  BY Zenon, <1>26 DEF RollbackRecord, clearRecord
<1>27. CASE RollbackShield
  BY Zenon, <1>27 DEF RollbackShield
<1>28. CASE RepairShield
  BY Zenon, <1>28 DEF RepairShield
<1>29. CASE SlotLock
  BY Zenon, <1>29 DEF SlotLock
<1>30. CASE SlotReclaim
  BY Zenon, <1>30 DEF SlotReclaim
<1>31. CASE SlotKeepRecord
  BY Zenon, <1>31 DEF SlotKeepRecord
<1>32. CASE SlotLease
  BY Zenon, <1>32 DEF SlotLease
<1>33. CASE SlotSend
  BY Zenon, <1>33 DEF SlotSend
<1>34. CASE SlotRefused
  BY Zenon, <1>34 DEF SlotRefused
<1>35. CASE SlotPersist
  BY Zenon, <1>35 DEF SlotPersist
<1>36. CASE SlotClear
  BY Zenon, <1>36 DEF SlotClear
<1>37. CASE LeaseExpires
  BY Zenon, <1>37 DEF LeaseExpires
<1>38. CASE RecordExpires
  BY Zenon, <1>38 DEF RecordExpires
<1>39. CASE RowSend
  BY Zenon, <1>39 DEF RowSend
<1>40. CASE RowRefused
  BY Zenon, <1>40 DEF RowRefused
<1>41. CASE RowStore
  BY Zenon, <1>41 DEF RowStore
<1>42. CASE StopRun
  BY Zenon, <1>42 DEF StopRun
<1>43. CASE SlotFail
  BY Zenon, <1>43 DEF SlotFail
<1>44. CASE SlotCrash
  BY Zenon, <1>44 DEF SlotCrash
<1>45. CASE RowFail
  BY Zenon, <1>45 DEF RowFail
<1>46. CASE HostLogin
  BY Zenon, <1>46 DEF HostLogin, HostWrites
<1>47. CASE HostLogout
  BY Zenon, <1>47 DEF HostLogout, HostWrites
<1>48. CASE HostWritesBack
  BY Zenon, <1>48 DEF HostWritesBack, HostWrites
<1>49. CASE OtherStoreTransfers
  BY Zenon, <1>49 DEF OtherStoreTransfers, HostWrites
<1>50. CASE UNCHANGED vars
  BY Zenon, <1>50
<1> QED
  BY <1>1, <1>2, <1>3, <1>4, <1>5, <1>6, <1>7, <1>8, <1>9, <1>10, <1>11, <1>12,
     <1>13, <1>14, <1>15, <1>16, <1>17, <1>18, <1>19, <1>20, <1>21, <1>22, <1>23,
     <1>24, <1>25, <1>26, <1>27, <1>28, <1>29, <1>30, <1>31, <1>32, <1>33, <1>34,
     <1>35, <1>36, <1>37, <1>38, <1>39, <1>40, <1>41, <1>42, <1>43, <1>44, <1>45,
     <1>46, <1>47, <1>48, <1>49, <1>50 DEF Next, RunStep, Plan, Transfer, SlotStep,
     RowStep, Faulty, Environment

(* Every step keeps the types and the bounds on generations.                *)
LEMMA TypesStep == ASSUME TInv, [Next]_vars, FlagTypes' PROVE TInv'
<1> USE DEF TInv, TypeOK, ProviderTypes, StoreTypes, BookTypes, RunTypes,
          RefreshTypes, HistoryTypes, Generations, Optional, Issued, Record, Tokens,
          Spent, Placeholders, Operations
<1>1. ASSUME NEW m \in {"migrate", "adopt"}, StartRun(m) PROVE TInv'
  BY <1>1 DEF StartRun, Gate
<1>2. ASSUME NEW r \in RowIds, PoolRowStart(r) PROVE TInv'
  BY <1>2 DEF PoolRowStart, StartRow
<1>3. ASSUME NEW r \in RowIds, LegacyRowStart(r) PROVE TInv'
  BY <1>3 DEF LegacyRowStart, StartRow, isShieldedMainRow, Identity
<1>4. ASSUME NEW r \in RowIds, EnableRow(r) PROVE TInv'
  BY <1>4 DEF EnableRow, RowFree
<1>5. CASE PlanGate
  BY <1>5 DEF PlanGate, EndRun, Planning, Gate
<1>6. CASE PlanRefused
  BY <1>6 DEF PlanRefused, EndRun, Planning, KeepBook, Gate, placeholderWithoutMain
<1>7. CASE PlanNothing
  BY <1>7 DEF PlanNothing, EndRun, WriteFinished, Planning, Gate,
     placeholderWithoutMain
<1>8. CASE PlanFresh
  BY <1>8 DEF PlanFresh, Planning, KeepBook, Gate, resolveTarget, MakeRecord,
     Holders, Identity
<1>9. CASE PlanFinish
  BY <1>9 DEF PlanFinish, Planning, KeepBook, Happened
<1>10. CASE PlanResume
  BY <1>10 DEF PlanResume, Planning, KeepBook, Happened, NeverHappened
<1>11. CASE PlanAmbiguous
  BY <1>11 DEF PlanAmbiguous, EndRun, WriteFinished, Planning, Happened,
     NeverHappened, RowMissing
<1>12. CASE PlanDropRecord
  BY <1>12 DEF PlanDropRecord, Restart, clearRecord, Planning, Happened,
     NeverHappened, RowMissing, EndRun
<1>13. CASE writeRecord
  BY <1>13 DEF writeRecord, Goto, Identity
<1>14. CASE legacyLeaseActive
  BY <1>14 DEF legacyLeaseActive, Restart, Goto, EndRun
<1>15. CASE ConfirmSlot
  BY <1>15 DEF ConfirmSlot, Restart, Goto, EndRun
<1>16. CASE applyToRow
  <2> DEFINE twin == Holders(rec.tok)
  <2> DEFINE target == IF rec.op = "add" /\ twin # {}
                       THEN CHOOSE r \in twin : TRUE ELSE rec.row
  <2>1. rec \in Record
    BY <1>16 DEF applyToRow
  <2>2. target \in RowIds
    BY <2>1 DEF Holders
  <2>3. rec.tok \in Tokens /\ Issued(rec.tok)
    BY <2>1
  <2>4. /\ \/ EndRun /\ rows' = rows
           \/ rows' = [rows EXCEPT ![target] = rec.tok] /\ Goto("verify")
        /\ UNCHANGED <<provider, slot, off, book, lease, mainLock, slotRef, rowRef,
                       history, raced, faults>>
    BY <1>16 DEF applyToRow
  <2>5. RunTypes'
    BY <2>1, <2>4 DEF EndRun, Goto
  <2> HIDE DEF twin, target
  <2>6. StoreTypes'
    BY <2>2, <2>3, <2>4
  <2>7. \A r \in RowIds : rows'[r] \in Tokens => Issued(rows'[r])
    BY <2>2, <2>3, <2>4
  <2> QED
    BY <2>4, <2>5, <2>6, <2>7 DEF EndRun, Goto
<1>17. CASE verifyRow
  BY <1>17 DEF verifyRow, EndRun, Goto
<1>18. CASE FenceRead
  BY <1>18 DEF FenceRead, Goto, Identity
<1>19. CASE ClearAndRestart
  BY <1>19 DEF ClearAndRestart, Restart, ReleaseMain, clearRecord, EndRun
<1>20. CASE LastRead
  BY <1>20 DEF LastRead, EndRun, Goto, ReleaseMain
<1>21. CASE PutPlaceholder
  BY <1>21 DEF PutPlaceholder, Goto
<1>22. CASE ReadBack
  BY <1>22 DEF ReadBack, EndRun, Goto, ReleaseMain
<1>23. CASE FinishTransfer
  BY <1>23 DEF FinishTransfer, EndRun, ReleaseMain, WriteFinished
<1>24. CASE DisableRow
  BY <1>24 DEF DisableRow, Goto, RowFree
<1>25. CASE RemoveRow
  BY <1>25 DEF RemoveRow, EndRun, Goto, RowFree
<1>26. CASE RollbackRecord
  BY <1>26 DEF RollbackRecord, Goto, clearRecord
<1>27. CASE RollbackShield
  BY <1>27 DEF RollbackShield, EndRun
<1>28. CASE RepairShield
  BY <1>28 DEF RepairShield
<1>29. CASE SlotLock
  BY <1>29 DEF SlotLock
<1>30. CASE SlotReclaim
  BY <1>30 DEF SlotReclaim, ReclaimAllowed, PendingFor
<1>31. CASE SlotKeepRecord
  BY <1>31 DEF SlotKeepRecord, ReclaimAllowed, PendingFor
<1>32. CASE SlotLease
  BY <1>32 DEF SlotLease, EndSlot, PendingFor
<1>33. CASE SlotSend
  BY <1>33 DEF SlotSend, Answer
<1>34. CASE SlotRefused
  BY <1>34 DEF SlotRefused, EndSlot
<1>35. CASE SlotPersist
  BY <1>35 DEF SlotPersist, Rotated
<1>36. CASE SlotClear
  BY <1>36 DEF SlotClear, EndSlot
<1>37. CASE LeaseExpires
  BY <1>37 DEF LeaseExpires
<1>38. CASE RecordExpires
  BY <1>38 DEF RecordExpires
<1>39. CASE RowSend
  BY <1>39 DEF RowSend, Answer
<1>40. CASE RowRefused
  BY <1>40 DEF RowRefused, EndRow
<1>41. CASE RowStore
  BY <1>41 DEF RowStore, EndRow, Rotated
<1>42. CASE StopRun
  BY <1>42 DEF StopRun, EndRun, ReleaseMain
<1>43. CASE SlotFail
  BY <1>43 DEF SlotFail, EndSlot, Answer
<1>44. CASE SlotCrash
  BY <1>44 DEF SlotCrash, EndSlot
<1>45. CASE RowFail
  BY <1>45 DEF RowFail, EndRow, Answer
<1>46. CASE HostLogin
  BY <1>46 DEF HostLogin, HostWrites, Identities, NextLogin
<1>47. CASE HostLogout
  BY <1>47 DEF HostLogout, HostWrites
<1>48. CASE HostWritesBack
  BY <1>48 DEF HostWritesBack, HostWrites
<1>49. CASE OtherStoreTransfers
  BY <1>49 DEF OtherStoreTransfers, HostWrites
<1>50. CASE UNCHANGED vars
  BY <1>50
<1> QED
  BY <1>1, <1>2, <1>3, <1>4, <1>5, <1>6, <1>7, <1>8, <1>9, <1>10, <1>11, <1>12,
     <1>13, <1>14, <1>15, <1>16, <1>17, <1>18, <1>19, <1>20, <1>21, <1>22, <1>23,
     <1>24, <1>25, <1>26, <1>27, <1>28, <1>29, <1>30, <1>31, <1>32, <1>33, <1>34,
     <1>35, <1>36, <1>37, <1>38, <1>39, <1>40, <1>41, <1>42, <1>43, <1>44, <1>45,
     <1>46, <1>47, <1>48, <1>49, <1>50 DEF Next, RunStep, Plan, Transfer, SlotStep,
     RowStep, Faulty, Environment

(* Every variable keeps its type, for any number of logins, rows and        *)
(* attempts: in particular no refresher ever stores a generation of a token *)
(* that the provider did not issue.                                         *)
THEOREM TypeCorrect == Spec => []TypeOK
<1>1. Init => TInv
  BY InitTypes
<1>2. TInv /\ [Next]_vars => TInv'
  BY FlagsStep, TypesStep DEF TInv
<1>3. TInv => TypeOK
  BY DEF TInv
<1> QED BY <1>1, <1>2, <1>3, PTL DEF Spec

(* The handshake is inductive: the slot refresh gives way to a record it    *)
(* can see, and the run gives way to a lease it can see, each after writing *)
(* its own mark.                                                            *)
LEMMA HandshakeStep == ASSUME TypeOK, Handshake, [Next]_vars PROVE Handshake'
<1> USE DEF Handshake
<1>1. ASSUME NEW m \in {"migrate", "adopt"}, StartRun(m) PROVE Handshake'
  BY <1>1 DEF StartRun
<1>2. ASSUME NEW r \in RowIds, PoolRowStart(r) PROVE Handshake'
  BY <1>2 DEF PoolRowStart, StartRow
<1>3. ASSUME NEW r \in RowIds, LegacyRowStart(r) PROVE Handshake'
  BY <1>3 DEF LegacyRowStart, StartRow
<1>4. ASSUME NEW r \in RowIds, EnableRow(r) PROVE Handshake'
  BY <1>4 DEF EnableRow
<1>5. CASE PlanGate
  BY <1>5 DEF PlanGate, EndRun, Planning
<1>6. CASE PlanRefused
  BY <1>6 DEF PlanRefused, EndRun, Planning, KeepBook
<1>7. CASE PlanNothing
  BY <1>7 DEF PlanNothing, EndRun, WriteFinished, Planning
<1>8. CASE PlanFresh
  BY <1>8 DEF PlanFresh, Planning, KeepBook
<1>9. CASE PlanFinish
  BY <1>9 DEF PlanFinish, Planning, KeepBook
<1>10. CASE PlanResume
  BY <1>10 DEF PlanResume, Planning, KeepBook
<1>11. CASE PlanAmbiguous
  BY <1>11 DEF PlanAmbiguous, EndRun, WriteFinished, Planning
<1>12. CASE PlanDropRecord
  BY <1>12 DEF PlanDropRecord, Restart, clearRecord, Planning, EndRun
<1>13. CASE writeRecord
  BY <1>13 DEF writeRecord, Goto
<1>14. CASE legacyLeaseActive
  BY <1>14 DEF legacyLeaseActive, Restart, Goto, EndRun
<1>15. CASE ConfirmSlot
  BY <1>15 DEF ConfirmSlot, Restart, Goto, EndRun
<1>16. CASE applyToRow
  BY <1>16 DEF applyToRow, EndRun, Goto
<1>17. CASE verifyRow
  BY <1>17 DEF verifyRow, EndRun, Goto
<1>18. CASE FenceRead
  BY <1>18 DEF FenceRead, Goto
<1>19. CASE ClearAndRestart
  BY <1>19 DEF ClearAndRestart, Restart, clearRecord, EndRun
<1>20. CASE LastRead
  BY <1>20 DEF LastRead, EndRun, Goto
<1>21. CASE PutPlaceholder
  BY <1>21 DEF PutPlaceholder, Goto
<1>22. CASE ReadBack
  BY <1>22 DEF ReadBack, EndRun, Goto
<1>23. CASE FinishTransfer
  BY <1>23 DEF FinishTransfer, EndRun, WriteFinished
<1>24. CASE DisableRow
  BY <1>24 DEF DisableRow, Goto
<1>25. CASE RemoveRow
  BY <1>25 DEF RemoveRow, EndRun, Goto
<1>26. CASE RollbackRecord
  BY <1>26 DEF RollbackRecord, Goto, clearRecord
<1>27. CASE RollbackShield
  BY <1>27 DEF RollbackShield, EndRun
<1>28. CASE RepairShield
  BY <1>28 DEF RepairShield
<1>29. CASE SlotLock
  BY <1>29 DEF SlotLock
<1>30. CASE SlotReclaim
  BY <1>30 DEF SlotReclaim, ReclaimAllowed, PendingFor
<1>31. CASE SlotKeepRecord
  BY <1>31 DEF SlotKeepRecord, ReclaimAllowed, PendingFor
<1>32. CASE SlotLease
  <2>1. rpc \in {"lease", "confirm", "apply"} => pending # Nothing
    BY DEF TypeOK, RunTypes
  <2> QED BY <1>32, <2>1 DEF SlotLease, EndSlot, PendingFor
<1>33. CASE SlotSend
  BY <1>33 DEF SlotSend
<1>34. CASE SlotRefused
  BY <1>34 DEF SlotRefused, EndSlot
<1>35. CASE SlotPersist
  BY <1>35 DEF SlotPersist
<1>36. CASE SlotClear
  BY <1>36 DEF SlotClear, EndSlot
<1>37. CASE LeaseExpires
  BY <1>37 DEF LeaseExpires
<1>38. CASE RecordExpires
  BY <1>38 DEF RecordExpires
<1>39. CASE RowSend
  BY <1>39 DEF RowSend
<1>40. CASE RowRefused
  BY <1>40 DEF RowRefused, EndRow
<1>41. CASE RowStore
  BY <1>41 DEF RowStore, EndRow
<1>42. CASE StopRun
  BY <1>42 DEF StopRun, EndRun
<1>43. CASE SlotFail
  BY <1>43 DEF SlotFail, EndSlot
<1>44. CASE SlotCrash
  BY <1>44 DEF SlotCrash, EndSlot
<1>45. CASE RowFail
  BY <1>45 DEF RowFail, EndRow
<1>46. CASE HostLogin
  BY <1>46 DEF HostLogin, HostWrites
<1>47. CASE HostLogout
  BY <1>47 DEF HostLogout, HostWrites
<1>48. CASE HostWritesBack
  BY <1>48 DEF HostWritesBack, HostWrites
<1>49. CASE OtherStoreTransfers
  BY <1>49 DEF OtherStoreTransfers, HostWrites
<1>50. CASE UNCHANGED vars
  BY <1>50
<1> QED
  BY <1>1, <1>2, <1>3, <1>4, <1>5, <1>6, <1>7, <1>8, <1>9, <1>10, <1>11, <1>12,
     <1>13, <1>14, <1>15, <1>16, <1>17, <1>18, <1>19, <1>20, <1>21, <1>22, <1>23,
     <1>24, <1>25, <1>26, <1>27, <1>28, <1>29, <1>30, <1>31, <1>32, <1>33, <1>34,
     <1>35, <1>36, <1>37, <1>38, <1>39, <1>40, <1>41, <1>42, <1>43, <1>44, <1>45,
     <1>46, <1>47, <1>48, <1>49, <1>50 DEF Next, RunStep, Plan, Transfer, SlotStep,
     RowStep, Faulty, Environment

(* The run never copies a token that a slot refresh is sending or is about  *)
(* to replace, whatever the number of actors' steps in between.             *)
THEOREM CopyExcludesRefresh == Spec => []NoCopyDuringRefresh
<1>1. Init => Handshake
  BY DEF Init, Handshake
<1>2. TypeOK /\ Handshake /\ [Next]_vars => Handshake'
  BY HandshakeStep
<1>3. Handshake => NoCopyDuringRefresh
  BY DEF Handshake, NoCopyDuringRefresh
<1> QED BY <1>1, <1>2, <1>3, TypeCorrect, PTL DEF Spec

-----------------------------------------------------------------------------
(* Who may hold a refresh token, and who may send it *)

USE BoundsAssumption, MainAssumption, FlagsAssumption, MarksAssumption
    DEF vars, provider, store, book, run, slotRef, rowRef, history

(* The actions, by what they are about.                                     *)
Beginning == (\E m \in {"migrate", "adopt"} : StartRun(m)) \/ Plan
Copying == writeRecord \/ legacyLeaseActive \/ ConfirmSlot \/ applyToRow \/ verifyRow
Finishing ==
    \/ FenceRead \/ ClearAndRestart \/ LastRead \/ PutPlaceholder \/ ReadBack
    \/ FinishTransfer \/ StopRun
Undoing == DisableRow \/ RemoveRow \/ RollbackRecord \/ RollbackShield \/ RepairShield
SlotRefresh == SlotLock \/ SlotStep \/ SlotFail \/ SlotCrash \/ LeaseExpires \/ RecordExpires
RowRefresh ==
    \/ \E r \in RowIds : PoolRowStart(r) \/ LegacyRowStart(r) \/ EnableRow(r)
    \/ RowStep \/ RowFail

(* Splits a step by what it is about.                                       *)
LEMMA StepCases ==
    ASSUME [Next]_vars
    PROVE  \/ Beginning \/ Copying \/ Finishing \/ Undoing \/ SlotRefresh \/ RowRefresh
           \/ Environment \/ UNCHANGED vars
  BY Zenon DEF Next, RunStep, Transfer, Faulty, Beginning, Copying, Finishing, Undoing,
     SlotRefresh, RowRefresh

(* A step that changes nothing leaves each variable as it is.               *)
LEMMA Unchanged ==
    ASSUME UNCHANGED vars
    PROVE  /\ issued' = issued /\ acct' = acct /\ gen' = gen /\ slot' = slot
           /\ rows' = rows /\ off' = off /\ migrated' = migrated /\ pending' = pending
           /\ expired' = expired /\ declined' = declined /\ shield' = shield
           /\ lease' = lease /\ mainLock' = mainLock
           /\ rpc' = rpc /\ mode' = mode /\ rec' = rec /\ tries' = tries /\ hint' = hint
           /\ spc' = spc /\ stok' = stok
           /\ bpc' = bpc /\ brow' = brow /\ btok' = btok /\ bkind' = bkind
           /\ burned' = burned /\ waived' = waived /\ reclaimed' = reclaimed
           /\ reused' = reused /\ taken' = taken /\ raced' = raced /\ faults' = faults
  BY Zenon

-----------------------------------------------------------------------------
(* The ages of tokens *)

(* Whatever the files, the actors or another store hold.                    *)
Known(t) ==
    \/ slot = t \/ \E r \in RowIds : rows[r] = t
    \/ pending # Nothing /\ t \in {pending.tok, pending.before}
    \/ rec # Nothing /\ t \in {rec.tok, rec.before}
    \/ stok = t \/ btok = t \/ declined = t \/ t \in taken

(* Nobody but the refresh that rotated a token has the newest generation.   *)
InFlight(l) == (spc = "persist" /\ stok[1] = l) \/ (bpc = "store" /\ btok[1] = l)

Old(t) ==
    /\ t[1] \in issued
    /\ t[2] <= gen[t[1]]
    /\ InFlight(t[1]) => t[2] < gen[t[1]]

Ages ==
    /\ \A t \in Tokens : Known(t) => Old(t)
    /\ spc = "persist" => gen[stok[1]] = stok[2] + 1
    /\ bpc = "store" => gen[btok[1]] = btok[2] + 1
    /\ spc = "persist" /\ bpc = "store" => stok[1] # btok[1]

(* What a refresh is about to store, and what the host is granted.          *)
NewToken(t) ==
    \/ SlotPersist /\ t = Rotated(stok)
    \/ RowStore /\ t = Rotated(btok)
    \/ HostLogin /\ \E l \in NextLogin(issued) : issued' = issued \cup {l} /\ t = <<l, 0>>

(* What the proofs below need of the types.                                 *)
LEMMA Shape ==
    ASSUME TypeOK
    PROVE  /\ gen \in [Logins -> 0..MaxGen] /\ issued \subseteq Logins
           /\ rows \in [RowIds -> Tokens \cup {Nothing}]
           /\ pending # Nothing =>
                /\ pending.row \in RowIds /\ pending.tok \in Tokens
                /\ pending.before \in Tokens \cup {Nothing} /\ pending.op \in Operations
           /\ rec # Nothing =>
                /\ rec.row \in RowIds /\ rec.tok \in Tokens
                /\ rec.before \in Tokens \cup {Nothing} /\ rec.op \in Operations
           /\ rec = Nothing <=> rpc \in {"idle", "plan"}
           /\ stok \in Tokens \cup {Nothing} /\ (stok = Nothing <=> spc = "idle")
           /\ btok \in Tokens \cup {Nothing} /\ (btok = Nothing <=> bpc = "idle")
           /\ brow \in RowIds \cup {Nothing} /\ (brow = Nothing <=> bpc = "idle")
           /\ declined \in Tokens \cup {Nothing} /\ taken \subseteq Tokens
  BY DEF TypeOK, ProviderTypes, StoreTypes, BookTypes, RunTypes, RefreshTypes, HistoryTypes,
     Optional, Record

(* A token is a login and a generation.                                     *)
LEMMA TokenShape ==
    /\ \A t \in Tokens : t[1] \in Logins /\ t[2] \in 0..MaxGen /\ t = <<t[1], t[2]>>
    /\ \A t \in Tokens : Rotated(t)[1] = t[1] /\ Rotated(t)[2] = t[2] + 1
    /\ \A t, u \in Tokens : t[1] = u[1] /\ t[2] = u[2] => t = u
  BY DEF Tokens, Rotated

(* A known token stays old: a refresh that rotates one makes all the others *)
(* of its login older.                                                      *)
LEMMA OldKept ==
    ASSUME TypeOK, Ages, [Next]_vars, NEW t \in Tokens, Old(t) PROVE Old(t)'
<1> USE Shape, TokenShape DEF Old, InFlight
<1>1. CASE SlotSend
  BY <1>1 DEF SlotSend, Answer
<1>2. CASE RowSend
  BY <1>2 DEF RowSend, Answer
<1>3. CASE SlotFail
  BY <1>3 DEF SlotFail, Answer, EndSlot
<1>4. CASE RowFail
  BY <1>4 DEF RowFail, Answer, EndRow
<1>5. ASSUME gen' = gen, issued \subseteq issued',
             spc' = "persist" => spc = "persist" /\ stok' = stok,
             bpc' = "store" => bpc = "store" /\ btok' = btok
      PROVE  Old(t)'
  BY <1>5
<1> HIDE DEF Old, InFlight
<1>6. CASE Beginning
  BY <1>5, <1>6 DEF Beginning, StartRun, Plan, PlanGate, PlanRefused, PlanNothing, PlanFresh,
     PlanFinish, PlanResume, PlanAmbiguous, PlanDropRecord, Planning
<1>7. CASE Copying
  BY <1>5, <1>7 DEF Copying, writeRecord, legacyLeaseActive, ConfirmSlot, applyToRow, verifyRow
<1>8. CASE Finishing
  BY <1>5, <1>8 DEF Finishing, FenceRead, ClearAndRestart, LastRead, PutPlaceholder, ReadBack,
     FinishTransfer, StopRun
<1>9. CASE Undoing
  BY <1>5, <1>9 DEF Undoing, DisableRow, RemoveRow, RollbackRecord, RollbackShield, RepairShield
<1>10. CASE SlotRefresh
  BY <1>1, <1>3, <1>5, <1>10 DEF SlotRefresh, SlotLock, SlotStep, SlotReclaim, SlotKeepRecord,
     SlotLease, SlotRefused, SlotPersist, SlotClear, SlotCrash, LeaseExpires, RecordExpires,
     EndSlot
<1>11. CASE RowRefresh
  BY <1>2, <1>4, <1>5, <1>11 DEF RowRefresh, PoolRowStart, LegacyRowStart, StartRow, EnableRow,
     RowStep, RowRefused, RowStore, EndRow
<1>12. CASE Environment
  BY <1>5, <1>12 DEF Environment, HostLogin, HostLogout, HostWritesBack, OtherStoreTransfers,
     HostWrites
<1>13. CASE UNCHANGED vars
  BY <1>5, <1>13, Unchanged
<1> QED BY StepCases, <1>6, <1>7, <1>8, <1>9, <1>10, <1>11, <1>12, <1>13

(* Tokens are copied from one place to another; only a refresh and the      *)
(* provider bring new ones.                                                 *)
LEMMA KnownBefore ==
    ASSUME TypeOK, [Next]_vars, NEW t \in Tokens, Known(t)' PROVE Known(t) \/ NewToken(t)
<1> USE Shape, TokenShape DEF Known
<1>1. CASE Beginning
  <2>1. CASE PlanFresh
    <3>1. PICK p \in resolveTarget(slot) : rec' = p
      BY <2>1 DEF PlanFresh
    <3>2. p.tok = slot /\ (p.before = Nothing \/ p.before = slot \/ \E r \in RowIds : p.before = rows[r])
      BY <3>1 DEF resolveTarget, MakeRecord, Holders
    <3> QED BY <2>1, <3>1, <3>2 DEF PlanFresh, Planning, KeepBook
  <2>2. CASE Beginning /\ ~PlanFresh
    BY <2>2 DEF Beginning, StartRun, Plan, PlanGate, PlanRefused, PlanNothing, PlanFinish,
       PlanResume, PlanAmbiguous, PlanDropRecord, Planning, KeepBook, EndRun, Restart,
       WriteFinished, clearRecord
  <2> QED BY <1>1, <2>1, <2>2
<1>2. CASE Copying
  BY <1>2 DEF Copying, writeRecord, legacyLeaseActive, ConfirmSlot, applyToRow, verifyRow, Goto,
     Restart, EndRun
<1>3. CASE Finishing
  BY <1>3 DEF Finishing, FenceRead, ClearAndRestart, LastRead, PutPlaceholder, ReadBack,
     FinishTransfer, StopRun, Goto, Restart, EndRun, clearRecord, WriteFinished, Placeholders
<1>4. CASE Undoing
  BY <1>4 DEF Undoing, DisableRow, RemoveRow, RollbackRecord, RollbackShield, RepairShield, Goto,
     EndRun, clearRecord
<1>5. CASE SlotRefresh
  BY <1>5 DEF SlotRefresh, SlotLock, SlotStep, SlotReclaim, ReclaimAllowed, SlotKeepRecord, SlotLease,
     SlotSend, SlotRefused, SlotPersist, SlotClear, SlotFail, SlotCrash, LeaseExpires,
     RecordExpires, EndSlot, NewToken
<1>6. CASE RowRefresh
  BY <1>6 DEF RowRefresh, PoolRowStart, LegacyRowStart, StartRow, EnableRow, RowStep, RowSend,
     RowRefused, RowStore, RowFail, EndRow, NewToken
<1>7. CASE Environment
  BY <1>7 DEF Environment, HostLogin, HostLogout, HostWritesBack, OtherStoreTransfers,
     HostWrites, NewToken, Placeholders
<1>8. CASE UNCHANGED vars
  BY <1>8, Unchanged
<1> QED BY StepCases, <1>1, <1>2, <1>3, <1>4, <1>5, <1>6, <1>7, <1>8

(* What is new is a token, and was nowhere before.                          *)
LEMMA NewIsUnknown ==
    ASSUME TInv, Ages, [Next]_vars, NEW t, NewToken(t)
    PROVE  t \in Tokens /\ ~Known(t)
<1> TypeOK /\ Generations
  BY DEF TInv
<1>1. CASE SlotPersist /\ t = Rotated(stok)
  <2>1. spc = "persist" /\ stok \in Tokens /\ stok[2] < MaxGen
    BY <1>1, Shape DEF SlotPersist, Generations
  <2>2. t \in Tokens /\ t[1] = stok[1] /\ t[2] = stok[2] + 1
    BY <1>1, <2>1, TokenShape DEF Rotated, Tokens
  <2> QED BY <2>1, <2>2, TokenShape DEF Ages, Old, InFlight
<1>2. CASE RowStore /\ t = Rotated(btok)
  <2>1. bpc = "store" /\ btok \in Tokens /\ btok[2] < MaxGen
    BY <1>2, Shape DEF RowStore, Generations
  <2>2. t \in Tokens /\ t[1] = btok[1] /\ t[2] = btok[2] + 1
    BY <1>2, <2>1, TokenShape DEF Rotated, Tokens
  <2> QED BY <2>1, <2>2, TokenShape DEF Ages, Old, InFlight
<1>3. CASE HostLogin /\ \E l \in NextLogin(issued) : issued' = issued \cup {l} /\ t = <<l, 0>>
  <2>1. PICK l \in NextLogin(issued) : t = <<l, 0>>
    BY <1>3
  <2>2. l \in Logins \ issued
    BY DEF NextLogin
  <2> QED BY <2>1, <2>2 DEF Tokens, Ages, Old
<1> QED BY <1>1, <1>2, <1>3 DEF NewToken

LEMMA AgesStep == ASSUME TInv, Ages, [Next]_vars, TypeOK' PROVE Ages'
<1> TypeOK
  BY DEF TInv
<1>1. ASSUME NEW t \in Tokens, Known(t)' PROVE Old(t)'
  <2>1. CASE Known(t)
    BY <2>1, OldKept DEF Ages
  <2>2. CASE SlotPersist /\ t = Rotated(stok)
    <3>1. /\ spc = "persist" /\ spc' = "clear" /\ stok \in Tokens
          /\ UNCHANGED <<gen, issued, bpc, btok, stok>>
      BY <2>2, Shape DEF SlotPersist
    <3>2. t[1] = stok[1] /\ t[2] = gen[t[1]]
      BY <2>2, <3>1, TokenShape DEF Ages
    <3>3. stok[1] \in issued /\ gen[t[1]] \in Nat
      BY <3>1, <3>2, Shape, TokenShape DEF Ages, Known, Old
    <3> QED BY <3>1, <3>2, <3>3 DEF Ages, Old, InFlight
  <2>3. CASE RowStore /\ t = Rotated(btok)
    <3>1. /\ bpc = "store" /\ bpc' = "idle" /\ btok \in Tokens
          /\ UNCHANGED <<gen, issued, spc, stok>>
      BY <2>3, Shape DEF RowStore, EndRow
    <3>2. t[1] = btok[1] /\ t[2] = gen[t[1]]
      BY <2>3, <3>1, TokenShape DEF Ages
    <3>3. btok[1] \in issued /\ gen[t[1]] \in Nat
      BY <3>1, <3>2, Shape, TokenShape DEF Ages, Known, Old
    <3> QED BY <3>1, <3>2, <3>3 DEF Ages, Old, InFlight
  <2>4. CASE HostLogin /\ \E l \in NextLogin(issued) : issued' = issued \cup {l} /\ t = <<l, 0>>
    <3>1. PICK l \in NextLogin(issued) : issued' = issued \cup {l} /\ t = <<l, 0>>
      BY <2>4
    <3>2. l \in Logins \ issued
      BY DEF NextLogin
    <3>3. UNCHANGED <<gen, spc, stok, bpc, btok>>
      BY <2>4 DEF HostLogin, HostWrites
    <3>4. ~InFlight(l)
      BY <3>2, Shape DEF InFlight, Ages, Known, Old
    <3>5. gen[l] \in Nat
      BY <3>2, Shape
    <3> QED BY <3>1, <3>3, <3>4, <3>5 DEF Old, InFlight
  <2> QED BY <1>1, <2>1, <2>2, <2>3, <2>4, KnownBefore DEF NewToken
<1> DEFINE Rotations ==
      /\ spc = "persist" => gen[stok[1]] = stok[2] + 1
      /\ bpc = "store" => gen[btok[1]] = btok[2] + 1
      /\ spc = "persist" /\ bpc = "store" => stok[1] # btok[1]
<1> HIDE DEF Rotations
<1>2. ASSUME SlotSend \/ RowSend PROVE Rotations'
  <2>1. stok \in Tokens => Old(stok) /\ stok[1] \in Logins /\ stok[2] \in Nat
    BY Shape, TokenShape DEF Ages, Known
  <2>2. btok \in Tokens => Old(btok) /\ btok[1] \in Logins /\ btok[2] \in Nat
    BY Shape, TokenShape DEF Ages, Known
  <2>3. CASE SlotSend
    <3>1. stok \in Tokens /\ ~Spent(stok) /\ spc = "send" /\ spc' = "persist"
      BY <2>3, Shape DEF SlotSend
    <3>2. /\ gen' = [gen EXCEPT ![stok[1]] = @ + 1]
          /\ UNCHANGED <<stok, bpc, btok>>
      BY <2>3 DEF SlotSend, Answer
    <3>3. bpc = "store" => btok \in Tokens /\ btok[1] # stok[1]
      BY <2>1, <3>1, Shape DEF Spent, Old, InFlight
    <3> QED BY <2>1, <2>2, <3>1, <3>2, <3>3, Shape DEF Ages, Spent, Old, Rotations
  <2>4. CASE RowSend
    <3>1. btok \in Tokens /\ ~Spent(btok) /\ bpc = "send" /\ bpc' = "store"
      BY <2>4, Shape DEF RowSend
    <3>2. /\ gen' = [gen EXCEPT ![btok[1]] = @ + 1]
          /\ UNCHANGED <<btok, spc, stok>>
      BY <2>4 DEF RowSend, Answer
    <3>3. spc = "persist" => stok \in Tokens /\ btok[1] # stok[1]
      BY <2>2, <3>1, Shape DEF Spent, Old, InFlight
    <3> QED BY <2>1, <2>2, <3>1, <3>2, <3>3, Shape DEF Ages, Spent, Old, Rotations
  <2> QED BY <1>2, <2>3, <2>4
<1>3. ASSUME gen' = gen,
             spc' = "persist" => spc = "persist" /\ stok' = stok,
             bpc' = "store" => bpc = "store" /\ btok' = btok
      PROVE  Rotations'
  BY <1>3 DEF Ages, Rotations
<1>4. ASSUME SlotFail \/ RowFail PROVE Rotations'
  <2>1. CASE SlotFail
    <3>1. stok \in Tokens /\ spc \in {"send", "persist"} /\ spc' = "idle" /\ UNCHANGED <<bpc, btok>>
      BY <2>1, Shape DEF SlotFail, EndSlot
    <3>2. gen' = gen \/ (~Spent(stok) /\ gen' = [gen EXCEPT ![stok[1]] = @ + 1])
      BY <2>1 DEF SlotFail, Answer
    <3>3. bpc = "store" /\ ~Spent(stok) => btok \in Tokens /\ btok[1] # stok[1]
      BY <3>1, Shape, TokenShape DEF Spent, Old, InFlight, Ages, Known
    <3> QED BY <3>1, <3>2, <3>3, Shape, TokenShape DEF Ages, Rotations
  <2>2. CASE RowFail
    <3>1. btok \in Tokens /\ bpc' = "idle" /\ UNCHANGED <<spc, stok>>
      BY <2>2, Shape DEF RowFail, EndRow
    <3>2. gen' = gen \/ (~Spent(btok) /\ gen' = [gen EXCEPT ![btok[1]] = @ + 1])
      BY <2>2 DEF RowFail, Answer
    <3>3. spc = "persist" /\ ~Spent(btok) => stok \in Tokens /\ btok[1] # stok[1]
      BY <3>1, Shape, TokenShape DEF Spent, Old, InFlight, Ages, Known
    <3> QED BY <3>1, <3>2, <3>3, Shape, TokenShape DEF Ages, Rotations
  <2> QED BY <1>4, <2>1, <2>2
<1>5. ASSUME Beginning PROVE Rotations'
  BY <1>3, <1>5 DEF Beginning, StartRun, Plan, PlanGate, PlanRefused, PlanNothing, PlanFresh,
     PlanFinish, PlanResume, PlanAmbiguous, PlanDropRecord, Planning
<1>6. ASSUME Copying PROVE Rotations'
  BY <1>3, <1>6 DEF Copying, writeRecord, legacyLeaseActive, ConfirmSlot, applyToRow, verifyRow
<1>7. ASSUME Finishing PROVE Rotations'
  BY <1>3, <1>7 DEF Finishing, FenceRead, ClearAndRestart, LastRead, PutPlaceholder, ReadBack,
     FinishTransfer, StopRun
<1>8. ASSUME Undoing PROVE Rotations'
  BY <1>3, <1>8 DEF Undoing, DisableRow, RemoveRow, RollbackRecord, RollbackShield, RepairShield
<1>9. ASSUME SlotRefresh /\ ~SlotSend PROVE Rotations'
  BY <1>3, <1>4, <1>9 DEF SlotRefresh, SlotLock, SlotStep, SlotReclaim, SlotKeepRecord,
     SlotLease, SlotRefused, SlotPersist, SlotClear, SlotCrash, LeaseExpires, RecordExpires,
     EndSlot
<1>10. ASSUME RowRefresh /\ ~RowSend PROVE Rotations'
  BY <1>3, <1>4, <1>10 DEF RowRefresh, PoolRowStart, LegacyRowStart, StartRow, EnableRow,
     RowStep, RowRefused, RowStore, EndRow
<1>11. ASSUME Environment PROVE Rotations'
  BY <1>3, <1>11 DEF Environment, HostLogin, HostLogout, HostWritesBack, OtherStoreTransfers,
     HostWrites
<1>12. ASSUME UNCHANGED vars PROVE Rotations'
  BY <1>3, <1>12, Unchanged
<1>13. Rotations' => Ages'
  BY <1>1 DEF Ages, Rotations
<1> QED
  BY StepCases, <1>2, <1>5, <1>6, <1>7, <1>8, <1>9, <1>10, <1>11, <1>12, <1>13

-----------------------------------------------------------------------------
(* Locks, the record on disk and the rows *)

(* Who holds `main-refresh`.                                                *)
Locks ==
    /\ mainLock = "slot" <=> spc # "idle"
    /\ mainLock = "row" <=> bkind = "pool"
    /\ bpc = "idle" => bkind = "none"
    /\ rpc \in {"last", "clear", "put", "readback"} => mainLock = "run"
    /\ mainLock = "run" => rpc \in {"last", "clear", "put", "readback", "finish"}

LEMMA LocksStep == ASSUME TypeOK, Locks, [Next]_vars PROVE Locks'
<1> USE DEF Locks
<1>1. CASE Beginning
  BY <1>1 DEF Beginning, StartRun, Plan, PlanGate, PlanRefused, PlanNothing, PlanFresh,
     PlanFinish, PlanResume, PlanAmbiguous, PlanDropRecord, Planning, EndRun, Restart
<1>2. CASE Copying
  BY <1>2 DEF Copying, writeRecord, legacyLeaseActive, ConfirmSlot, applyToRow, verifyRow, Goto,
     Restart, EndRun
<1>3. CASE Finishing
  BY <1>3 DEF Finishing, FenceRead, ClearAndRestart, LastRead, PutPlaceholder, ReadBack,
     FinishTransfer, StopRun, Goto, Restart, EndRun, ReleaseMain
<1>4. CASE Undoing
  BY <1>4 DEF Undoing, DisableRow, RemoveRow, RollbackRecord, RollbackShield, RepairShield, Goto,
     EndRun
<1>5. CASE SlotRefresh
  BY <1>5 DEF SlotRefresh, SlotLock, SlotStep, SlotReclaim, SlotKeepRecord, SlotLease,
     SlotSend, SlotRefused, SlotPersist, SlotClear, SlotFail, SlotCrash, LeaseExpires,
     RecordExpires, EndSlot
<1>6. CASE RowRefresh
  BY <1>6 DEF RowRefresh, PoolRowStart, LegacyRowStart, StartRow, EnableRow, RowStep, RowSend,
     RowRefused, RowStore, RowFail, EndRow, TypeOK, RefreshTypes
<1>7. CASE Environment
  BY <1>7 DEF Environment, HostLogin, HostLogout, HostWritesBack, OtherStoreTransfers,
     HostWrites
<1>8. CASE UNCHANGED vars
  BY <1>8, Unchanged
<1> QED BY StepCases, <1>1, <1>2, <1>3, <1>4, <1>5, <1>6, <1>7, <1>8

(* Where the run's record is the one on disk; before and after, none is.    *)
Recording == {"lease", "confirm", "apply", "verify", "fence", "last", "put", "readback",
              "clear", "finish", "disable", "rollback", "unrecord"}

Books ==
    /\ rpc \in Recording => pending = rec
    /\ rpc \in {"record", "unshield"} => pending = Nothing

LEMMA BooksStep == ASSUME TypeOK, Books, [Next]_vars PROVE Books'
<1> USE DEF Books, Recording
<1>1. CASE Beginning
  BY <1>1 DEF Beginning, StartRun, Plan, PlanGate, PlanRefused, PlanNothing, PlanFresh,
     PlanFinish, PlanResume, PlanAmbiguous, PlanDropRecord, Planning, EndRun, Restart, KeepBook,
     WriteFinished
<1>2. CASE Copying
  BY <1>2 DEF Copying, writeRecord, legacyLeaseActive, ConfirmSlot, applyToRow, verifyRow, Goto,
     Restart, EndRun
<1>3. CASE Finishing
  BY <1>3 DEF Finishing, FenceRead, ClearAndRestart, LastRead, PutPlaceholder, ReadBack,
     FinishTransfer, StopRun, Goto, Restart, EndRun
<1>4. CASE Undoing
  BY <1>4 DEF Undoing, DisableRow, RemoveRow, RollbackRecord, RollbackShield, RepairShield, Goto,
     EndRun, clearRecord
<1>5. CASE SlotRefresh
  BY <1>5 DEF SlotRefresh, SlotLock, SlotStep, SlotReclaim, ReclaimAllowed, SlotKeepRecord,
     SlotLease, SlotSend, SlotRefused, SlotPersist, SlotClear, SlotFail, SlotCrash, LeaseExpires,
     RecordExpires
<1>6. CASE RowRefresh
  BY <1>6 DEF RowRefresh, PoolRowStart, LegacyRowStart, StartRow, EnableRow, RowStep, RowSend,
     RowRefused, RowStore, RowFail
<1>7. CASE Environment
  BY <1>7 DEF Environment, HostLogin, HostLogout, HostWritesBack, OtherStoreTransfers,
     HostWrites
<1>8. CASE UNCHANGED vars
  BY <1>8, Unchanged
<1> QED BY StepCases, <1>1, <1>2, <1>3, <1>4, <1>5, <1>6, <1>7, <1>8

(* How the rows may change: a row refresh stores, the run copies a token or *)
(* takes the copy back, the last two only while nobody refreshes the row.   *)
RowEffect ==
    \/ rows' = rows
    \/ RowStore
    \/ applyToRow
    \/ RemoveRow

LEMMA RowEffects == ASSUME [Next]_vars PROVE RowEffect
<1> USE DEF RowEffect
<1>1. CASE Beginning
  BY <1>1 DEF Beginning, StartRun, Plan, PlanGate, PlanRefused, PlanNothing, PlanFresh,
     PlanFinish, PlanResume, PlanAmbiguous, PlanDropRecord, Planning
<1>2. CASE Copying
  BY <1>2 DEF Copying, writeRecord, legacyLeaseActive, ConfirmSlot, verifyRow
<1>3. CASE Finishing
  BY <1>3 DEF Finishing, FenceRead, ClearAndRestart, LastRead, PutPlaceholder, ReadBack,
     FinishTransfer, StopRun
<1>4. CASE Undoing
  BY <1>4 DEF Undoing, DisableRow, RollbackRecord, RollbackShield, RepairShield
<1>5. CASE SlotRefresh
  BY <1>5 DEF SlotRefresh, SlotLock, SlotStep, SlotReclaim, SlotKeepRecord, SlotLease,
     SlotSend, SlotRefused, SlotPersist, SlotClear, SlotFail, SlotCrash, LeaseExpires,
     RecordExpires
<1>6. CASE RowRefresh
  BY <1>6 DEF RowRefresh, PoolRowStart, LegacyRowStart, StartRow, EnableRow, RowStep, RowSend,
     RowRefused, RowFail
<1>7. CASE Environment
  BY <1>7 DEF Environment, HostLogin, HostLogout, HostWritesBack, OtherStoreTransfers,
     HostWrites
<1>8. CASE UNCHANGED vars
  BY <1>8, Unchanged
<1> QED BY StepCases, <1>1, <1>2, <1>3, <1>4, <1>5, <1>6, <1>7, <1>8

(* The row under refresh still holds the token that was sent.               *)
RowHolds == bpc # "idle" => rows[brow] = btok

LEMMA RowHoldsStep == ASSUME TypeOK, RowHolds, [Next]_vars PROVE RowHolds'
<1> USE DEF RowHolds
<1>1. CASE RowRefresh
  BY <1>1, Shape DEF RowRefresh, PoolRowStart, LegacyRowStart, StartRow, EnableRow, RowStep, RowSend,
     RowRefused, RowStore, RowFail, EndRow
<1>2. UNCHANGED <<bpc, brow, btok>> \/ RowRefresh
  <2>1. CASE Beginning
    BY <2>1 DEF Beginning, StartRun, Plan, PlanGate, PlanRefused, PlanNothing, PlanFresh,
       PlanFinish, PlanResume, PlanAmbiguous, PlanDropRecord, Planning
  <2>2. CASE Copying
    BY <2>2 DEF Copying, writeRecord, legacyLeaseActive, ConfirmSlot, applyToRow, verifyRow
  <2>3. CASE Finishing
    BY <2>3 DEF Finishing, FenceRead, ClearAndRestart, LastRead, PutPlaceholder, ReadBack,
       FinishTransfer, StopRun
  <2>4. CASE Undoing
    BY <2>4 DEF Undoing, DisableRow, RemoveRow, RollbackRecord, RollbackShield, RepairShield
  <2>5. CASE SlotRefresh
    BY <2>5 DEF SlotRefresh, SlotLock, SlotStep, SlotReclaim, SlotKeepRecord, SlotLease,
       SlotSend, SlotRefused, SlotPersist, SlotClear, SlotFail, SlotCrash, LeaseExpires,
       RecordExpires
  <2>6. CASE Environment
    BY <2>6 DEF Environment, HostLogin, HostLogout, HostWritesBack, OtherStoreTransfers,
       HostWrites
  <2>7. CASE UNCHANGED vars
    BY <2>7, Unchanged
  <2> QED BY StepCases, <2>1, <2>2, <2>3, <2>4, <2>5, <2>6, <2>7
<1>3. ASSUME UNCHANGED <<bpc, brow, btok>> PROVE RowHolds' \/ RowRefresh
  <2>1. CASE rows' = rows
    BY <1>3, <2>1
  <2>2. CASE RowStore
    BY <2>2 DEF RowRefresh, RowStep
  <2>3. CASE RemoveRow
    BY <1>3, <2>3, Shape DEF RemoveRow, RowFree
  <2>4. CASE applyToRow
    <3> DEFINE twin == Holders(rec.tok)
    <3> DEFINE target == IF rec.op = "add" /\ twin # {}
                         THEN CHOOSE r \in twin : TRUE ELSE rec.row
    <3>1. RowFree(target) /\ (rows' = rows \/ rows' = [rows EXCEPT ![target] = rec.tok])
      BY <2>4 DEF applyToRow
    <3> HIDE DEF target
    <3> QED BY <1>3, <3>1, Shape DEF RowFree
  <2> QED BY <2>1, <2>2, <2>3, <2>4, RowEffects DEF RowEffect
<1> QED BY <1>1, <1>2, <1>3

(* How the record on disk and the run's record may change.                  *)
LEMMA RecordEffects ==
    ASSUME [Next]_vars
    PROVE  /\ \/ pending' = pending
              \/ pending' = Nothing
              \/ writeRecord /\ pending' = rec
           /\ \/ rec' = rec
              \/ rec' = Nothing
              \/ rec' = pending /\ pending # Nothing /\ pending' = pending
              \/ PlanFresh
<1>1. CASE Beginning
  BY <1>1 DEF Beginning, StartRun, Plan, PlanGate, PlanRefused, PlanNothing, PlanFinish,
     PlanResume, PlanAmbiguous, PlanDropRecord, PlanFresh, Planning, EndRun, Restart, KeepBook,
     WriteFinished, clearRecord
<1>2. CASE Copying
  BY <1>2 DEF Copying, writeRecord, legacyLeaseActive, ConfirmSlot, applyToRow, verifyRow, Goto,
     Restart, EndRun
<1>3. CASE Finishing
  BY <1>3 DEF Finishing, FenceRead, ClearAndRestart, LastRead, PutPlaceholder, ReadBack,
     FinishTransfer, StopRun, Goto, Restart, EndRun, WriteFinished, clearRecord
<1>4. CASE Undoing
  BY <1>4 DEF Undoing, DisableRow, RemoveRow, RollbackRecord, RollbackShield, RepairShield, Goto,
     EndRun, clearRecord
<1>5. CASE SlotRefresh
  BY <1>5 DEF SlotRefresh, SlotLock, SlotStep, SlotReclaim, SlotKeepRecord, SlotLease, SlotSend,
     SlotRefused, SlotPersist, SlotClear, SlotFail, SlotCrash, LeaseExpires, RecordExpires
<1>6. CASE RowRefresh
  BY <1>6 DEF RowRefresh, PoolRowStart, LegacyRowStart, StartRow, EnableRow, RowStep, RowSend,
     RowRefused, RowStore, RowFail
<1>7. CASE Environment
  BY <1>7 DEF Environment, HostLogin, HostLogout, HostWritesBack, OtherStoreTransfers,
     HostWrites
<1>8. CASE UNCHANGED vars
  BY <1>8, Unchanged
<1> QED BY StepCases, <1>1, <1>2, <1>3, <1>4, <1>5, <1>6, <1>7, <1>8

-----------------------------------------------------------------------------
(* A token is in one row, the one its record names *)

OnlyIn(p) == \A r \in RowIds : rows[r] = p.tok => r = p.row

Targets ==
    /\ OneRowPerToken
    /\ pending # Nothing => OnlyIn(pending)
    /\ rec # Nothing => OnlyIn(rec)

(* Which row a step changes, and to what.                                   *)
Stores(r) == RowStore /\ r = brow /\ rows[r] = btok /\ rows'[r] = Rotated(btok)
Copies(r) ==
    /\ applyToRow /\ rpc' = "verify" /\ rec' = rec
    /\ r = rec.row /\ rows'[r] = rec.tok
    /\ Holders(rec.tok) = {}
    /\ rec.op = "add" => rows[r] = Nothing
    /\ mainLock = "free" /\ ~(bpc # "idle" /\ brow = r)
Removes(r) ==
    /\ RemoveRow /\ r = rec.row
    /\ rows[r] = rec.tok /\ rows'[r] = Nothing
    /\ mainLock = "free" /\ ~(bpc # "idle" /\ brow = r)

LEMMA RowChange ==
    ASSUME TypeOK, RowHolds, Targets, [Next]_vars, NEW r \in RowIds, rows'[r] # rows[r]
    PROVE  Stores(r) \/ Copies(r) \/ Removes(r)
<1>1. CASE RowStore
  BY <1>1, Shape DEF RowStore, Stores, RowHolds
<1>2. CASE RemoveRow
  BY <1>2, Shape DEF RemoveRow, RowFree, Removes
<1>3. CASE applyToRow
  <2> DEFINE twin == Holders(rec.tok)
  <2> DEFINE target == IF rec.op = "add" /\ twin # {}
                       THEN CHOOSE s \in twin : TRUE ELSE rec.row
  <2>1. rpc = "apply" /\ RowFree(target)
        /\ rows' = [rows EXCEPT ![target] = rec.tok] /\ Goto("verify")
        /\ ~(rec.op = "add" /\ twin = {} /\ rows[rec.row] # Nothing)
    BY <1>3 DEF applyToRow
  <2>2. rec # Nothing /\ OnlyIn(rec)
    BY <2>1, Shape DEF Targets
  <2>3. target = rec.row
    BY <2>2 DEF OnlyIn, Holders
  <2> HIDE DEF target
  <2>4. r = target /\ rows'[r] = rec.tok /\ rows[r] # rec.tok
    BY <2>1, Shape
  <2>5. twin = {}
    BY <2>2, <2>3, <2>4 DEF OnlyIn, Holders
  <2> QED BY <1>3, <2>1, <2>3, <2>4, <2>5 DEF Copies, Goto, RowFree
<1> QED BY <1>1, <1>2, <1>3, RowEffects DEF RowEffect

LEMMA TargetsStep ==
    ASSUME TInv, Ages, Books, RowHolds, Targets, [Next]_vars PROVE Targets'
<1> TypeOK
  BY DEF TInv
<1> USE Shape
<1>1. rec' # Nothing => rec' = rec \/ rec' = pending \/ PlanFresh
  BY RecordEffects
<1>2. CASE rows' = rows
  <2>1. OneRowPerToken'
    BY <1>2 DEF Targets, OneRowPerToken
  <2>2. pending' # Nothing => OnlyIn(pending)'
    BY <1>2, RecordEffects DEF Targets, OnlyIn, writeRecord
  <2>3. CASE PlanFresh
    <3>1. PICK p \in resolveTarget(slot) : rec' = p
      BY <2>3 DEF PlanFresh
    <3>2. p.tok = slot /\ p.row \in RowIds
          /\ (Holders(slot) = {} \/ p.row \in Holders(slot))
      BY <3>1, <2>3 DEF resolveTarget, MakeRecord, Holders, PlanFresh, TypeOK, RunTypes, Optional
    <3>3. slot # Nothing
      BY <2>3 DEF PlanFresh
    <3> QED BY <1>2, <2>1, <2>2, <3>1, <3>2, <3>3 DEF Targets, OnlyIn, OneRowPerToken, Holders
  <2>4. CASE ~PlanFresh
    <3>1. rec' # Nothing => OnlyIn(rec)'
      BY <1>1, <1>2, <2>4, RecordEffects DEF Targets, OnlyIn
    <3> QED BY <2>1, <2>2, <3>1 DEF Targets
  <2> QED BY <2>3, <2>4
<1>3. ASSUME NEW r \in RowIds, rows'[r] # rows[r] PROVE Targets'
  <2>1. CASE Stores(r)
    <3>1. /\ rows' = [rows EXCEPT ![r] = Rotated(btok)] /\ rec' = rec /\ pending' = pending
      BY <2>1 DEF Stores, RowStore
    <3>2. ~Known(Rotated(btok)) /\ Rotated(btok) \in Tokens
      BY <2>1, NewIsUnknown DEF Stores, NewToken
    <3>3. \A s \in RowIds : rows[s] # Rotated(btok)
      BY <3>2 DEF Known
    <3>4. /\ pending # Nothing => pending.tok # Rotated(btok)
          /\ rec # Nothing => rec.tok # Rotated(btok)
      BY <3>2 DEF Known
    <3> QED BY <3>1, <3>3, <3>4 DEF Targets, OnlyIn, OneRowPerToken
  <2>2. CASE Copies(r)
    <3>1. /\ rows' = [rows EXCEPT ![r] = rec.tok] /\ rec' = rec /\ pending' = pending
          /\ pending = rec /\ r = rec.row /\ \A s \in RowIds : rows[s] # rec.tok
      <4>1. applyToRow /\ pending' = pending /\ pending = rec
        BY <2>2 DEF Copies, applyToRow, Books, Recording
      <4>2. \A s \in RowIds : rows[s] # rec.tok
        BY <2>2 DEF Copies, Holders
      <4>3. Holders(rec.tok) = {} /\ r = rec.row
        BY <2>2 DEF Copies
      <4>4. rows' = [rows EXCEPT ![r] = rec.tok]
        BY <1>3, <4>1, <4>3 DEF applyToRow
      <4> QED BY <2>2, <4>1, <4>2, <4>3, <4>4 DEF Copies
    <3> QED BY <3>1 DEF Targets, OnlyIn, OneRowPerToken
  <2>3. CASE Removes(r)
    <3>1. /\ rows' = [rows EXCEPT ![r] = Nothing] /\ pending' = pending
          /\ rec' = rec \/ rec' = Nothing
      BY <1>3, <2>3 DEF Removes, RemoveRow, Goto, EndRun
    <3> QED BY <3>1 DEF Targets, OnlyIn, OneRowPerToken
  <2> QED BY <1>3, <2>1, <2>2, <2>3, RowChange
<1>4. rows' = rows \/ \E r \in RowIds : rows'[r] # rows[r]
  <2>1. CASE applyToRow
    <3> DEFINE target == IF rec.op = "add" /\ Holders(rec.tok) # {}
                         THEN CHOOSE s \in Holders(rec.tok) : TRUE ELSE rec.row
    <3>1. rows' = rows \/ rows' = [rows EXCEPT ![target] = rec.tok]
      BY <2>1 DEF applyToRow
    <3>2. target \in RowIds
      BY <2>1 DEF Holders, applyToRow
    <3> HIDE DEF target
    <3> QED BY <3>1, <3>2
  <2> QED BY <2>1, RowEffects DEF RowEffect, RowStore, RemoveRow
<1> QED BY <1>2, <1>3, <1>4

-----------------------------------------------------------------------------
(* What a step may do to the slot, to the refreshers and to the run *)

(* A token that comes into the slot is new, or the one the host wrote back. *)
LEMMA SlotChange ==
    ASSUME TInv, Ages, [Next]_vars, slot' \in Tokens, slot' # slot
    PROVE  \/ ~Known(slot') /\ NewToken(slot')
           \/ HostWritesBack /\ rpc = "readback" /\ slot' = rec.tok
<1>1. CASE SlotPersist
  BY <1>1, NewIsUnknown DEF SlotPersist, NewToken
<1>2. CASE HostLogin
  BY <1>2, NewIsUnknown DEF HostLogin, HostWrites, NewToken
<1>3. CASE HostWritesBack
  BY <1>3 DEF HostWritesBack, HostWrites
<1>4. CASE Beginning
  BY <1>4 DEF Beginning, StartRun, Plan, PlanGate, PlanRefused, PlanNothing, PlanFresh,
     PlanFinish, PlanResume, PlanAmbiguous, PlanDropRecord, Planning
<1>5. CASE Copying
  BY <1>5 DEF Copying, writeRecord, legacyLeaseActive, ConfirmSlot, applyToRow, verifyRow
<1>6. CASE Finishing
  BY <1>6 DEF Finishing, FenceRead, ClearAndRestart, LastRead, PutPlaceholder, ReadBack,
     FinishTransfer, StopRun, Placeholders
<1>7. CASE Undoing
  BY <1>7 DEF Undoing, DisableRow, RemoveRow, RollbackRecord, RollbackShield, RepairShield
<1>8. CASE SlotRefresh
  BY <1>1, <1>8 DEF SlotRefresh, SlotLock, SlotStep, SlotReclaim, SlotKeepRecord, SlotLease, SlotSend,
     SlotRefused, SlotClear, SlotFail, SlotCrash, LeaseExpires, RecordExpires
<1>9. CASE RowRefresh
  BY <1>9 DEF RowRefresh, PoolRowStart, LegacyRowStart, StartRow, EnableRow, RowStep, RowSend,
     RowRefused, RowStore, RowFail
<1>10. CASE Environment
  BY <1>2, <1>3, <1>10 DEF Environment, HostLogout, OtherStoreTransfers, HostWrites, Placeholders
<1>11. CASE UNCHANGED vars
  BY <1>11, Unchanged
<1> QED BY StepCases, <1>4, <1>5, <1>6, <1>7, <1>8, <1>9, <1>10, <1>11

(* The steps of the slot refresh.                                           *)
LEMMA SlotRefreshChange ==
    ASSUME TypeOK, [Next]_vars
    PROVE  /\ \/ stok' = stok
              \/ stok' = Nothing
              \/ SlotLock /\ spc = "idle" /\ slot \in Tokens /\ stok' = slot /\ spc' = "reclaim"
           /\ spc' = "reclaim" => SlotLock \/ (spc = "reclaim" /\ stok' = stok)
           /\ spc' = "lease" => stok' = stok /\ (spc = "lease" \/ SlotReclaim \/ SlotKeepRecord)
           /\ spc' = "send" => stok' = stok /\ (spc = "send" \/ (SlotLease /\ ~PendingFor(stok)))
           /\ spc' = "persist" => stok' = stok /\ (spc = "persist" \/ SlotSend)
           /\ spc = "persist" => (spc' = "persist" /\ stok' = stok) \/ SlotPersist \/ stok \in burned'
<1>1. CASE Beginning
  BY <1>1 DEF Beginning, StartRun, Plan, PlanGate, PlanRefused, PlanNothing, PlanFresh,
     PlanFinish, PlanResume, PlanAmbiguous, PlanDropRecord, Planning
<1>2. CASE Copying
  BY <1>2 DEF Copying, writeRecord, legacyLeaseActive, ConfirmSlot, applyToRow, verifyRow
<1>3. CASE Finishing
  BY <1>3 DEF Finishing, FenceRead, ClearAndRestart, LastRead, PutPlaceholder, ReadBack,
     FinishTransfer, StopRun
<1>4. CASE Undoing
  BY <1>4 DEF Undoing, DisableRow, RemoveRow, RollbackRecord, RollbackShield, RepairShield
<1>5. CASE SlotRefresh
  BY <1>5 DEF SlotRefresh, SlotLock, SlotStep, SlotReclaim, SlotKeepRecord, SlotLease, SlotSend,
     SlotRefused, SlotPersist, SlotClear, SlotFail, SlotCrash, LeaseExpires, RecordExpires, EndSlot
<1>6. CASE RowRefresh
  BY <1>6 DEF RowRefresh, PoolRowStart, LegacyRowStart, StartRow, EnableRow, RowStep, RowSend,
     RowRefused, RowStore, RowFail
<1>7. CASE Environment
  BY <1>7 DEF Environment, HostLogin, HostLogout, HostWritesBack, OtherStoreTransfers,
     HostWrites
<1>8. CASE UNCHANGED vars
  BY <1>8, Unchanged
<1> QED BY StepCases, <1>1, <1>2, <1>3, <1>4, <1>5, <1>6, <1>7, <1>8

(* A row refresh that rotated a token stores it, or loses it.               *)
LEMMA RowRefreshChange ==
    ASSUME [Next]_vars
    PROVE  bpc = "store" => (bpc' = "store" /\ btok' = btok) \/ RowStore \/ btok \in burned'
<1>1. CASE RowRefresh
  BY <1>1 DEF RowRefresh, PoolRowStart, LegacyRowStart, StartRow, EnableRow, RowStep, RowSend,
     RowRefused, RowFail
<1>2. CASE Beginning
  BY <1>2 DEF Beginning, StartRun, Plan, PlanGate, PlanRefused, PlanNothing, PlanFresh,
     PlanFinish, PlanResume, PlanAmbiguous, PlanDropRecord, Planning
<1>3. CASE Copying
  BY <1>3 DEF Copying, writeRecord, legacyLeaseActive, ConfirmSlot, applyToRow, verifyRow
<1>4. CASE Finishing
  BY <1>4 DEF Finishing, FenceRead, ClearAndRestart, LastRead, PutPlaceholder, ReadBack,
     FinishTransfer, StopRun
<1>5. CASE Undoing
  BY <1>5 DEF Undoing, DisableRow, RemoveRow, RollbackRecord, RollbackShield, RepairShield
<1>6. CASE SlotRefresh
  BY <1>6 DEF SlotRefresh, SlotLock, SlotStep, SlotReclaim, SlotKeepRecord, SlotLease, SlotSend,
     SlotRefused, SlotPersist, SlotClear, SlotFail, SlotCrash, LeaseExpires, RecordExpires
<1>7. CASE Environment
  BY <1>7 DEF Environment, HostLogin, HostLogout, HostWritesBack, OtherStoreTransfers,
     HostWrites
<1>8. CASE UNCHANGED vars
  BY <1>8, Unchanged
<1> QED BY StepCases, <1>1, <1>2, <1>3, <1>4, <1>5, <1>6, <1>7, <1>8

(* Past the fence's verdict, and past the placeholder.                      *)
Leaving == {"finish", "clear", "disable", "rollback", "unrecord", "unshield"}

(* From the copy to the placeholder.                                        *)
Copied == {"verify", "fence", "last", "put", "readback"}

(* How the run gets where it is.                                            *)
LEMMA RunChange ==
    ASSUME [Next]_vars
    PROVE  /\ rpc' = "record" => PlanFresh \/ (rpc = "record" /\ rec' = rec)
           /\ rpc' = "lease" => PlanResume \/ (rpc \in {"record", "lease"} /\ rec' = rec)
           /\ rpc' = "confirm" => rpc \in {"lease", "confirm"} /\ rec' = rec
           /\ rpc' = "apply" => rec' = rec /\ (rpc = "apply" \/ ConfirmSlot)
           /\ rpc' = "verify" => PlanFinish \/ (rec' = rec /\ (rpc = "verify" \/ applyToRow))
           /\ rpc' \in Copied \ {"verify"} => rpc \in Copied /\ rec' = rec
           /\ rpc' \in Leaving => rec' = rec /\ (rpc \in Leaving \/ FenceRead \/ ReadBack)
<1> USE DEF Leaving, Copied
<1>1. CASE Beginning
  BY <1>1 DEF Beginning, StartRun, Plan, PlanGate, PlanRefused, PlanNothing, PlanFresh,
     PlanFinish, PlanResume, PlanAmbiguous, PlanDropRecord, Planning, EndRun, Restart
<1>2. CASE Copying
  BY <1>2 DEF Copying, writeRecord, legacyLeaseActive, ConfirmSlot, applyToRow, verifyRow, Goto,
     Restart, EndRun
<1>3. CASE Finishing
  BY <1>3 DEF Finishing, FenceRead, ClearAndRestart, LastRead, PutPlaceholder, ReadBack,
     FinishTransfer, StopRun, Goto, Restart, EndRun
<1>4. CASE Undoing
  BY <1>4 DEF Undoing, DisableRow, RemoveRow, RollbackRecord, RollbackShield, RepairShield, Goto,
     EndRun
<1>5. CASE SlotRefresh
  BY <1>5 DEF SlotRefresh, SlotLock, SlotStep, SlotReclaim, SlotKeepRecord, SlotLease, SlotSend,
     SlotRefused, SlotPersist, SlotClear, SlotFail, SlotCrash, LeaseExpires, RecordExpires
<1>6. CASE RowRefresh
  BY <1>6 DEF RowRefresh, PoolRowStart, LegacyRowStart, StartRow, EnableRow, RowStep, RowSend,
     RowRefused, RowStore, RowFail
<1>7. CASE Environment
  BY <1>7 DEF Environment, HostLogin, HostLogout, HostWritesBack, OtherStoreTransfers,
     HostWrites
<1>8. CASE UNCHANGED vars
  BY <1>8, Unchanged
<1> QED BY StepCases, <1>1, <1>2, <1>3, <1>4, <1>5, <1>6, <1>7, <1>8

(* A token whose second use SentOnce excuses, and one that is unspent or    *)
(* such a token.                                                            *)
Excused == burned \cup waived \cup reclaimed
Sound(t) == Spent(t) => t \in Excused

LEMMA ExcusedGrows ==
    ASSUME [Next]_vars PROVE Excused \subseteq Excused' /\ reclaimed \subseteq reclaimed'
<1> USE DEF Excused
<1>1. CASE Beginning
  BY <1>1 DEF Beginning, StartRun, Plan, PlanGate, PlanRefused, PlanNothing, PlanFresh,
     PlanFinish, PlanResume, PlanAmbiguous, PlanDropRecord, Planning, KeepBook
<1>2. CASE Copying
  BY <1>2 DEF Copying, writeRecord, legacyLeaseActive, ConfirmSlot, applyToRow, verifyRow
<1>3. CASE Finishing
  BY <1>3 DEF Finishing, FenceRead, ClearAndRestart, LastRead, PutPlaceholder, ReadBack,
     FinishTransfer, StopRun
<1>4. CASE Undoing
  BY <1>4 DEF Undoing, DisableRow, RemoveRow, RollbackRecord, RollbackShield, RepairShield
<1>5. CASE SlotRefresh
  BY <1>5 DEF SlotRefresh, SlotLock, SlotStep, SlotReclaim, SlotKeepRecord, SlotLease, SlotSend,
     SlotRefused, SlotPersist, SlotClear, SlotFail, SlotCrash, LeaseExpires, RecordExpires
<1>6. CASE RowRefresh
  BY <1>6 DEF RowRefresh, PoolRowStart, LegacyRowStart, StartRow, EnableRow, RowStep, RowSend,
     RowRefused, RowStore, RowFail
<1>7. CASE Environment
  BY <1>7 DEF Environment, HostLogin, HostLogout, HostWritesBack, OtherStoreTransfers,
     HostWrites
<1>8. CASE UNCHANGED vars
  BY <1>8, Unchanged
<1> QED BY StepCases, <1>1, <1>2, <1>3, <1>4, <1>5, <1>6, <1>7, <1>8

(* Why a record may go while its token is still about.                      *)
LEMMA PendingLost ==
    ASSUME TypeOK, Books, [Next]_vars, NEW t, PendingFor(t), ~PendingFor(t)'
    PROVE  \/ PlanAmbiguous /\ ~Happened(pending) /\ t \in Excused'
           \/ /\ PlanDropRecord /\ ~Happened(pending)
              /\ stok = t => t \in Excused'
              /\ slot = t => RowMissing(pending)
           \/ rpc \in Leaving \ {"rollback", "unshield"} /\ pending = rec
           \/ t \in reclaimed'
<1>1. pending # Nothing /\ t = pending.tok /\ pending' # pending
  BY DEF PendingFor
<1>2. CASE Beginning
  BY <1>1, <1>2 DEF Beginning, StartRun, Plan, PlanGate, PlanRefused, PlanNothing, PlanFresh,
     PlanFinish, PlanResume, PlanAmbiguous, PlanDropRecord, Planning, KeepBook, Excused
<1>3. CASE Copying
  BY <1>1, <1>3 DEF Copying, writeRecord, legacyLeaseActive, ConfirmSlot, applyToRow, verifyRow, Books
<1>4. CASE Finishing
  BY <1>1, <1>4 DEF Finishing, FenceRead, ClearAndRestart, LastRead, PutPlaceholder, ReadBack,
     FinishTransfer, StopRun, Books, Recording, Leaving
<1>5. CASE Undoing
  BY <1>1, <1>5 DEF Undoing, DisableRow, RemoveRow, RollbackRecord, RollbackShield, RepairShield,
     Books, Recording, Leaving
<1>6. CASE SlotRefresh
  BY <1>1, <1>6 DEF SlotRefresh, SlotLock, SlotStep, SlotReclaim, ReclaimAllowed, PendingFor,
     SlotKeepRecord, SlotLease, SlotSend, SlotRefused, SlotPersist, SlotClear, SlotFail, SlotCrash,
     LeaseExpires, RecordExpires, Excused
<1>7. CASE RowRefresh
  BY <1>1, <1>7 DEF RowRefresh, PoolRowStart, LegacyRowStart, StartRow, EnableRow, RowStep, RowSend,
     RowRefused, RowStore, RowFail
<1>8. CASE Environment
  BY <1>1, <1>8 DEF Environment, HostLogin, HostLogout, HostWritesBack, OtherStoreTransfers,
     HostWrites
<1>9. CASE UNCHANGED vars
  BY <1>1, <1>9, Unchanged
<1> QED BY StepCases, <1>2, <1>3, <1>4, <1>5, <1>6, <1>7, <1>8, <1>9

-----------------------------------------------------------------------------
(* Which tokens are spent *)

(* The provider's counters: who was granted nothing has refreshed nothing.  *)
Granted == \A l \in Logins \ issued : gen[l] = 0

(* Only a refresh that sends a token moves the counter of its login.        *)
LEMMA GenChange ==
    ASSUME [Next]_vars
    PROVE  /\ issued \subseteq issued'
           /\ \/ gen' = gen
              \/ /\ ~Spent(stok) /\ spc = "send" /\ gen' = [gen EXCEPT ![stok[1]] = @ + 1]
                 /\ SlotSend \/ stok \in Excused'
              \/ /\ ~Spent(btok) /\ bpc = "send" /\ gen' = [gen EXCEPT ![btok[1]] = @ + 1]
                 /\ (RowSend /\ bpc' = "store" /\ btok' = btok) \/ btok \in Excused'
<1>1. CASE Beginning
  BY <1>1 DEF Beginning, StartRun, Plan, PlanGate, PlanRefused, PlanNothing, PlanFresh,
     PlanFinish, PlanResume, PlanAmbiguous, PlanDropRecord, Planning
<1>2. CASE Copying
  BY <1>2 DEF Copying, writeRecord, legacyLeaseActive, ConfirmSlot, applyToRow, verifyRow
<1>3. CASE Finishing
  BY <1>3 DEF Finishing, FenceRead, ClearAndRestart, LastRead, PutPlaceholder, ReadBack,
     FinishTransfer, StopRun
<1>4. CASE Undoing
  BY <1>4 DEF Undoing, DisableRow, RemoveRow, RollbackRecord, RollbackShield, RepairShield
<1>5. CASE SlotRefresh
  BY <1>5 DEF SlotRefresh, SlotLock, SlotStep, SlotReclaim, SlotKeepRecord, SlotLease, SlotSend,
     SlotRefused, SlotPersist, SlotClear, SlotFail, SlotCrash, LeaseExpires, RecordExpires, Answer,
     Excused
<1>6. CASE RowRefresh
  BY <1>6 DEF RowRefresh, PoolRowStart, LegacyRowStart, StartRow, EnableRow, RowStep, RowSend,
     RowRefused, RowStore, RowFail, Answer, Excused
<1>7. CASE Environment
  BY <1>7 DEF Environment, HostLogin, HostLogout, HostWritesBack, OtherStoreTransfers,
     HostWrites
<1>8. CASE UNCHANGED vars
  BY <1>8, Unchanged
<1> QED BY StepCases, <1>1, <1>2, <1>3, <1>4, <1>5, <1>6, <1>7, <1>8

LEMMA GrantedStep == ASSUME TypeOK, Ages, Granted, [Next]_vars PROVE Granted'
<1>1. stok \in Tokens => stok[1] \in issued
  BY DEF Ages, Known, Old
<1>2. btok \in Tokens => btok[1] \in issued
  BY DEF Ages, Known, Old
<1>3. spc = "send" => stok \in Tokens
  BY Shape
<1>4. bpc = "send" => btok \in Tokens
  BY Shape
<1> QED BY <1>1, <1>2, <1>3, <1>4, GenChange, Shape, TokenShape DEF Granted

(* A known token is spent by the refresh that sends it and by no other.     *)
LEMMA SoundKept ==
    ASSUME TypeOK, Ages, [Next]_vars, NEW t \in Tokens, Known(t), Sound(t)
    PROVE  \/ Sound(t)'
           \/ SlotSend /\ spc = "send" /\ t = stok
           \/ RowSend /\ bpc = "send" /\ t = btok /\ bpc' = "store" /\ btok' = t
<1>1. t[2] <= gen[t[1]] /\ t[1] \in Logins /\ t[2] \in Nat /\ gen[t[1]] \in Nat
  BY Shape, TokenShape DEF Ages, Old
<1>2. CASE t \in Excused
  BY <1>2, ExcusedGrows DEF Sound
<1>3. CASE ~Spent(t)
  <2>1. t[2] = gen[t[1]]
    BY <1>1, <1>3 DEF Spent
  <2>2. CASE gen' = gen
    BY <1>3, <2>2 DEF Sound, Spent
  <2>3. CASE /\ ~Spent(stok) /\ spc = "send" /\ gen' = [gen EXCEPT ![stok[1]] = @ + 1]
             /\ SlotSend \/ stok \in Excused'
    <3>1. stok \in Tokens /\ stok[1] \in Logins /\ stok[2] = gen[stok[1]]
      BY <2>3, Shape, TokenShape DEF Spent, Ages, Known, Old
    <3>2. CASE t[1] = stok[1]
      BY <2>1, <2>3, <3>1, <3>2, TokenShape DEF Sound
    <3>3. CASE t[1] # stok[1]
      BY <1>1, <2>1, <2>3, <3>3, Shape DEF Sound, Spent
    <3> QED BY <3>2, <3>3
  <2>4. CASE /\ ~Spent(btok) /\ bpc = "send" /\ gen' = [gen EXCEPT ![btok[1]] = @ + 1]
             /\ (RowSend /\ bpc' = "store" /\ btok' = btok) \/ btok \in Excused'
    <3>1. btok \in Tokens /\ btok[1] \in Logins /\ btok[2] = gen[btok[1]]
      BY <2>4, Shape, TokenShape DEF Spent, Ages, Known, Old
    <3>2. CASE t[1] = btok[1]
      BY <2>1, <2>4, <3>1, <3>2, TokenShape DEF Sound
    <3>3. CASE t[1] # btok[1]
      BY <1>1, <2>1, <2>4, <3>3, Shape DEF Sound, Spent
    <3> QED BY <3>2, <3>3
  <2> QED BY <2>2, <2>3, <2>4, GenChange
<1> QED BY <1>2, <1>3 DEF Sound

(* A token that was just rotated in, or granted, is unspent.                *)
LEMMA NewIsSound ==
    ASSUME TInv, Ages, Granted, [Next]_vars, NEW t, NewToken(t) PROVE Sound(t)'
<1> TypeOK
  BY DEF TInv
<1>1. CASE SlotPersist /\ t = Rotated(stok)
  <2>1. stok \in Tokens /\ gen' = gen /\ gen[stok[1]] = stok[2] + 1
    BY <1>1, Shape DEF SlotPersist, Ages
  <2> QED BY <1>1, <2>1, TokenShape DEF Sound, Spent
<1>2. CASE RowStore /\ t = Rotated(btok)
  <2>1. btok \in Tokens /\ gen' = gen /\ gen[btok[1]] = btok[2] + 1
    BY <1>2, Shape DEF RowStore, Ages
  <2> QED BY <1>2, <2>1, TokenShape DEF Sound, Spent
<1>3. CASE HostLogin /\ \E l \in NextLogin(issued) : issued' = issued \cup {l} /\ t = <<l, 0>>
  <2>1. PICK l \in NextLogin(issued) : t = <<l, 0>>
    BY <1>3
  <2>2. gen[l] = 0 /\ gen' = gen
    BY <1>3, <2>1 DEF NextLogin, Granted, HostLogin, HostWrites
  <2> QED BY <2>1, <2>2 DEF Sound, Spent
<1> QED BY <1>1, <1>2, <1>3 DEF NewToken

-----------------------------------------------------------------------------
(* The record's token once the run leaves the slot *)

(* Past the fence's verdict, and past the placeholder, the recorded token   *)
(* is out of the slot, and no slot refresh has it.                          *)
Away == rpc \in Leaving => slot # rec.tok /\ stok # rec.tok

LEMMA AwayStep == ASSUME TInv, Ages, Locks, Away, [Next]_vars PROVE Away'
<1> TypeOK
  BY DEF TInv
<1> USE Shape
<1> SUFFICES ASSUME rpc' \in Leaving PROVE slot' # rec'.tok /\ stok' # rec'.tok
  BY DEF Away
<1>1. rec' = rec /\ (rpc \in Leaving \/ FenceRead \/ ReadBack)
  BY RunChange
<1>2. rec # Nothing /\ rec.tok \in Tokens /\ Known(rec.tok)
  BY <1>1 DEF Known, Leaving, FenceRead, ReadBack
<1>3. Placeholders \cap Tokens = {} /\ Self \in Placeholders /\ Foreign \in Placeholders
      /\ Untagged \in Placeholders /\ Nothing \notin Tokens
  BY DEF Placeholders
<1>4. CASE FenceRead
  <2>1. stok = Nothing /\ stok' = stok /\ slot' = slot
    BY <1>4 DEF FenceRead, Locks
  <2>2. slot # rec.tok
    BY <1>2, <1>3, <1>4, rpc' \in Leaving DEF FenceRead, Goto, Leaving
  <2> QED BY <1>1, <1>2, <1>3, <2>1, <2>2
<1>5. CASE ReadBack
  <2>1. stok = Nothing /\ stok' = stok /\ slot' = slot
    BY <1>5 DEF ReadBack, Locks
  <2>2. slot # rec.tok
    BY <1>2, <1>3, <1>5, rpc' \in Leaving DEF ReadBack, Goto, EndRun, Leaving
  <2> QED BY <1>1, <1>2, <1>3, <2>1, <2>2
<1>6. CASE rpc \in Leaving
  <2>1. slot # rec.tok /\ stok # rec.tok
    BY <1>6 DEF Away
  <2>2. slot' # rec.tok
    BY <1>2, <1>6, <2>1, SlotChange DEF Leaving
  <2>3. stok' # rec.tok
    BY <1>2, <1>3, <2>1, SlotRefreshChange
  <2> QED BY <1>1, <2>2, <2>3
<1> QED BY <1>1, <1>4, <1>5, <1>6

(* A token in the slot, or read from it, and in a row too is the recorded   *)
(* one, unless its record expired.                                          *)
Shares ==
    \A r \in RowIds : rows[r] # Nothing =>
        /\ slot = rows[r] => PendingFor(rows[r]) \/ rows[r] \in reclaimed
        /\ stok = rows[r] /\ spc \in {"reclaim", "lease"} =>
                PendingFor(rows[r]) \/ rows[r] \in reclaimed
        /\ stok = rows[r] /\ spc \in {"send", "persist"} => rows[r] \in reclaimed

(* A record is dropped for a token a row holds only with an excuse.         *)
LEMMA SharedRecordKept ==
    ASSUME TInv, Books, Targets, Away, [Next]_vars,
           NEW r \in RowIds, rows[r] # Nothing, PendingFor(rows[r]),
           slot = rows[r] \/ stok = rows[r]
    PROVE  PendingFor(rows[r])' \/ rows[r] \in reclaimed' \/ rows'[r] # rows[r]
<1> TypeOK
  BY DEF TInv
<1>1. r = pending.row /\ rows[r] = pending.tok /\ pending # Nothing
  BY DEF PendingFor, Targets, OnlyIn
<1>2. Happened(pending)
  BY <1>1 DEF Happened
<1>3. ~(rpc \in Leaving /\ pending = rec)
  BY <1>1 DEF Away
<1>4. PICK t : t = rows[r]
  OBVIOUS
<1>5. CASE rows'[r] = t
  <2>1. CASE pending' = pending
    BY <1>5, <2>1, <1>4 DEF PendingFor
  <2>2. CASE pending' # Nothing /\ pending' # pending
    BY <1>1, <2>2, RecordEffects DEF writeRecord, Books
  <2>3. CASE pending' = Nothing
    <3>1. PendingFor(t) /\ ~PendingFor(t)'
      BY <1>4, <2>3 DEF PendingFor
    <3>2. t \in reclaimed'
      BY <1>2, <1>3, <3>1, PendingLost
    <3> QED BY <1>4, <1>5, <3>2
  <2> QED BY <2>1, <2>2, <2>3
<1> QED BY <1>4, <1>5

LEMMA SharesStep ==
    ASSUME TInv, Ages, Locks, Books, RowHolds, Handshake, Targets, Away, Shares, [Next]_vars
    PROVE  Shares'
<1> TypeOK
  BY DEF TInv
<1> USE Shape
<1> SUFFICES ASSUME NEW r \in RowIds, rows'[r] # Nothing
             PROVE  /\ slot' = rows'[r] => PendingFor(rows[r])' \/ rows'[r] \in reclaimed'
                    /\ stok' = rows'[r] /\ spc' \in {"reclaim", "lease"} =>
                           PendingFor(rows[r])' \/ rows'[r] \in reclaimed'
                    /\ stok' = rows'[r] /\ spc' \in {"send", "persist"} => rows'[r] \in reclaimed'
  BY DEF Shares
<1>1. CASE rows'[r] = rows[r]
  <2>1. rows[r] \in Tokens /\ Known(rows[r])
    BY <1>1 DEF Known
  <2>2. ASSUME slot' = rows'[r] PROVE PendingFor(rows[r])' \/ rows'[r] \in reclaimed'
    <3>1. CASE slot' = slot
      BY <1>1, <2>1, <2>2, <3>1, SharedRecordKept, ExcusedGrows DEF Shares
    <3>2. CASE slot' # slot
      <4>1. HostWritesBack /\ rpc = "readback" /\ slot' = rec.tok
        BY <1>1, <2>1, <2>2, <3>2, SlotChange
      <4>2. pending' = pending /\ pending = rec /\ rec # Nothing
        BY <4>1 DEF HostWritesBack, HostWrites, Books, Recording
      <4> QED BY <2>2, <4>1, <4>2 DEF PendingFor
    <3> QED BY <3>1, <3>2
  <2>3. ASSUME stok' = rows'[r], spc' \in {"reclaim", "lease"}
        PROVE  PendingFor(rows[r])' \/ rows'[r] \in reclaimed'
    <3>1. \/ SlotLock /\ slot = rows[r]
          \/ stok = rows[r] /\ spc \in {"reclaim", "lease"}
      BY <1>1, <2>1, <2>3, SlotRefreshChange DEF SlotLock, SlotReclaim, SlotKeepRecord
    <3>2. PendingFor(rows[r]) \/ rows[r] \in reclaimed
      BY <2>1, <3>1 DEF Shares
    <3> QED BY <1>1, <2>1, <3>1, <3>2, SharedRecordKept, ExcusedGrows
  <2>4. ASSUME stok' = rows'[r], spc' \in {"send", "persist"} PROVE rows'[r] \in reclaimed'
    <3>1. \/ SlotLease /\ spc = "lease" /\ ~PendingFor(stok)
          \/ spc \in {"send", "persist"}
      BY <2>4, SlotRefreshChange DEF SlotLease, SlotSend
    <3>2. stok = rows[r]
      BY <1>1, <2>4, SlotRefreshChange
    <3>3. rows[r] \in reclaimed
      BY <2>1, <3>1, <3>2 DEF Shares
    <3> QED BY <1>1, <3>3, ExcusedGrows
  <2> QED BY <2>2, <2>3, <2>4
<1>2. CASE Stores(r)
  <2>1. rows'[r] = Rotated(btok) /\ slot' = slot /\ stok' = stok
    BY <1>2 DEF Stores, RowStore
  <2>2. ~Known(Rotated(btok))
    BY <1>2, NewIsUnknown DEF Stores, NewToken
  <2> QED BY <2>1, <2>2 DEF Known
<1>3. CASE Copies(r)
  <2>1. /\ rpc = "apply" /\ pending' = pending /\ pending = rec /\ rec # Nothing
        /\ rows'[r] = rec.tok /\ stok' = stok /\ spc' = spc
    BY <1>3 DEF Copies, applyToRow, Books, Recording
  <2>2. PendingFor(rows[r])'
    BY <2>1 DEF PendingFor
  <2>3. ~(stok' = rows'[r] /\ spc' \in {"send", "persist"})
    BY <2>1 DEF Handshake
  <2> QED BY <2>2, <2>3
<1>4. CASE Removes(r)
  BY <1>4 DEF Removes
<1> QED BY <1>1, <1>2, <1>3, <1>4, RowChange

-----------------------------------------------------------------------------
(* Where a spent token may still be seen *)

(* A row that took the recorded token has it, or a successor.               *)
Moved(p) ==
    /\ rows[p.row] \in Tokens /\ rows[p.row][1] = p.tok[1]
    /\ rows[p.row] = p.tok \/ rows[p.row] # p.before

RowsSound ==
    \A r \in RowIds : rows[r] \in Tokens =>
        Sound(rows[r]) \/ (bpc = "store" /\ btok = rows[r])

(* The slot refresh that has rotated the slot's token and not stored it yet.*)
Persisting(t) == spc = "persist" /\ stok = t

SlotSound ==
    /\ slot \in Tokens => Sound(slot) \/ Persisting(slot) \/ PendingFor(slot)
    /\ pending # Nothing /\ slot = pending.tok =>
            Sound(slot) \/ Persisting(slot) \/ Moved(pending)

SenderSound ==
    /\ spc \in {"reclaim", "lease"} => Sound(stok) \/ PendingFor(stok)
    /\ spc = "send" => Sound(stok)

RunSound ==
    /\ rpc \in Copied => Moved(rec)
    /\ rpc \in {"record", "lease", "confirm"} /\ slot = rec.tok =>
            Sound(slot) \/ Persisting(slot)
    /\ rpc = "apply" => Sound(rec.tok)
    /\ rpc \in {"record", "lease", "confirm", "apply"} =>
            Holders(rec.tok) = {} \/ rec.tok \in Excused

(* What the steps below start from.                                         *)
Custody ==
    /\ TInv /\ Ages /\ Granted /\ Locks /\ Books /\ RowHolds /\ Handshake
    /\ Targets /\ Away /\ Shares
    /\ RowsSound /\ SlotSound /\ SenderSound /\ RunSound

LEMMA RowsSoundStep == ASSUME Custody, [Next]_vars PROVE RowsSound'
<1> TypeOK /\ TInv
  BY DEF Custody, TInv
<1> USE Shape
<1> SUFFICES ASSUME NEW r \in RowIds, rows'[r] \in Tokens
             PROVE  Sound(rows[r])' \/ (bpc' = "store" /\ btok' = rows'[r])
  BY DEF RowsSound
<1>1. CASE rows'[r] = rows[r]
  <2>1. PICK t \in Tokens : t = rows[r]
    BY <1>1
  <2>2. Known(t) /\ t # Nothing
    BY <2>1 DEF Known
  <2>3. CASE Sound(t)
    <3>1. SlotSend /\ spc = "send" /\ t = stok => t \in Excused
      BY <2>1, <2>2 DEF Custody, Shares, Excused
    <3>2. Sound(t)' \/ (bpc' = "store" /\ btok' = t)
      BY <2>2, <2>3, <3>1, SoundKept, ExcusedGrows DEF Custody, Sound
    <3> QED BY <1>1, <2>1, <3>2 DEF Sound, Spent
  <2>4. CASE bpc = "store" /\ btok = t
    <3>1. CASE RowStore
      <4>1. r = brow
        BY <2>1, <2>2, <2>4 DEF Custody, RowHolds, Targets, OneRowPerToken
      <4>2. rows'[r] = Rotated(t)
        BY <2>4, <3>1, <4>1 DEF RowStore
      <4> QED BY <1>1, <2>1, <4>2, TokenShape
    <3>2. CASE btok \in burned'
      BY <1>1, <2>1, <2>4, <3>2 DEF Sound, Excused
    <3> QED BY <1>1, <2>1, <2>4, <3>1, <3>2, RowRefreshChange
  <2> QED BY <2>1, <2>3, <2>4 DEF Custody, RowsSound
<1>2. CASE Stores(r)
  <2>1. PICK t : t = rows'[r]
    OBVIOUS
  <2>2. NewToken(t)
    BY <1>2, <2>1 DEF Stores, NewToken
  <2>3. Sound(t)'
    BY <2>2, NewIsSound DEF Custody
  <2> QED BY <2>1, <2>3 DEF Sound, Spent
<1>3. CASE Copies(r)
  <2>1. rpc = "apply" /\ rows'[r] = rec.tok /\ gen' = gen
    BY <1>3 DEF Copies, applyToRow
  <2>2. Sound(rec.tok)
    BY <2>1 DEF Custody, RunSound
  <2> QED BY <2>1, <2>2, ExcusedGrows DEF Sound, Spent
<1>4. CASE Removes(r)
  BY <1>4 DEF Removes
<1> QED BY <1>1, <1>2, <1>3, <1>4, RowChange DEF Custody

(* Sending a row's token by the row refresh while it is in use elsewhere.   *)
LEMMA RowSends ==
    ASSUME Custody, [Next]_vars, RowSend, bpc = "send"
    PROVE  brow \in RowIds /\ rows[brow] = btok /\ btok \in Tokens /\ pending' = pending
           /\ rows' = rows
<1> TypeOK
  BY DEF Custody, TInv
<1> QED BY Shape DEF Custody, RowHolds, RowSend

LEMMA MovedKept ==
    ASSUME Custody, [Next]_vars, NEW p, p.row \in RowIds, p.tok \in Tokens,
           p.before = Nothing \/ Known(p.before), Moved(p)
    PROVE  Moved(p)' \/ Copies(p.row) \/ Removes(p.row)
<1> TypeOK
  BY DEF Custody, TInv
<1>1. CASE rows'[p.row] = rows[p.row]
  BY <1>1 DEF Moved
<1>2. CASE Stores(p.row)
  <2>1. rows'[p.row] = Rotated(btok) /\ rows[p.row] = btok
    BY <1>2 DEF Stores
  <2>2. Rotated(btok) \in Tokens /\ ~Known(Rotated(btok))
    BY <1>2, NewIsUnknown DEF Stores, NewToken, Custody
  <2>3. Rotated(btok)[1] = p.tok[1]
    BY <2>1, TokenShape DEF Moved
  <2>4. Rotated(btok) # p.before
    BY <2>2
  <2> QED BY <2>1, <2>2, <2>3, <2>4 DEF Moved
<1> QED BY <1>1, <1>2, RowChange DEF Custody

LEMMA SlotSoundStep == ASSUME Custody, [Next]_vars PROVE SlotSound'
<1> TypeOK /\ TInv
  BY DEF Custody, TInv
<1> USE Shape
<1>1. ASSUME NEW t \in Tokens, t = slot, slot' = slot, Sound(t)
      PROVE  \/ Sound(t)' \/ Persisting(t)'
             \/ RowSend /\ bpc = "send" /\ t = btok
  <2>1. Known(t)
    BY <1>1 DEF Known
  <2>2. SlotSend /\ t = stok => Persisting(t)'
    BY DEF SlotSend, Persisting
  <2> QED BY <1>1, <2>1, <2>2, SoundKept DEF Custody
<1>2. ASSUME NEW t \in Tokens, t = slot, slot' = slot, Persisting(t)
      PROVE  Sound(t)' \/ Persisting(t)'
  <2>1. ~SlotPersist
    BY <1>2, TokenShape DEF SlotPersist, Persisting
  <2>2. Persisting(t)' \/ t \in burned'
    BY <1>2, <2>1, SlotRefreshChange DEF Persisting
  <2> QED BY <2>2 DEF Sound, Excused
<1>3. ASSUME slot' \in Tokens
      PROVE  Sound(slot)' \/ Persisting(slot)' \/ PendingFor(slot)'
  <2>1. PICK t \in Tokens : t = slot'
    BY <1>3
  <2>2. CASE slot' = slot
    <3>1. Sound(t) \/ Persisting(t) \/ PendingFor(t)
      BY <2>1, <2>2 DEF Custody, SlotSound, Sound, Spent, Persisting, PendingFor
    <3>2. CASE Sound(t)
      <4>1. CASE RowSend /\ bpc = "send" /\ t = btok
        <5>1. PendingFor(t) \/ t \in Excused
          BY <2>1, <2>2, <4>1, RowSends DEF Custody, Shares, Excused
        <5>2. PendingFor(t)' \/ t \in Excused'
          BY <4>1, <5>1, RowSends, ExcusedGrows DEF PendingFor
        <5> QED BY <2>1, <5>2 DEF Sound, PendingFor
      <4>2. Sound(t)' \/ Persisting(t)' \/ (RowSend /\ bpc = "send" /\ t = btok)
        BY <1>1, <2>1, <2>2, <3>2
      <4> QED BY <2>1, <4>1, <4>2 DEF Sound, Spent, Persisting
    <3>3. CASE Persisting(t)
      <4>1. Sound(t)' \/ Persisting(t)'
        BY <1>2, <2>1, <2>2, <3>3
      <4> QED BY <2>1, <4>1 DEF Sound, Spent, Persisting
    <3>4. CASE PendingFor(t) /\ ~PendingFor(t)' /\ ~Sound(t) /\ ~Persisting(t)
      <4>1. Moved(pending)
        BY <2>1, <2>2, <3>4 DEF Custody, SlotSound, PendingFor, Sound, Spent, Persisting
      <4>2. ~RowMissing(pending)
        BY <4>1 DEF Moved, RowMissing
      <4>3. ~(rpc \in Leaving /\ pending = rec)
        BY <2>1, <2>2, <3>4 DEF Custody, Away, PendingFor
      <4>4. t \in Excused'
        BY <2>1, <2>2, <3>4, <4>2, <4>3, PendingLost DEF Custody, Excused
      <4> QED BY <2>1, <4>4 DEF Sound
    <3>5. CASE PendingFor(t)'
      BY <2>1, <3>5 DEF PendingFor
    <3> QED BY <3>1, <3>2, <3>3, <3>4, <3>5
  <2>3. CASE slot' # slot /\ NewToken(slot')
    <3>1. Sound(t)'
      BY <2>1, <2>3, NewIsSound DEF Custody
    <3> QED BY <2>1, <3>1 DEF Sound, Spent
  <2>4. CASE HostWritesBack /\ rpc = "readback" /\ slot' = rec.tok
    BY <2>4 DEF HostWritesBack, HostWrites, Custody, Books, Recording, PendingFor
  <2> QED BY <2>1, <2>2, <2>3, <2>4, SlotChange DEF Custody
<1>4. ASSUME pending' # Nothing, slot' = pending'.tok
      PROVE  Sound(slot)' \/ Persisting(slot)' \/ Moved(pending)'
  <2>1. CASE writeRecord /\ pending' = rec
    <3>1. slot' = slot /\ slot = rec.tok /\ gen' = gen /\ spc' = spc /\ stok' = stok
          /\ rpc = "record"
      BY <1>4, <2>1 DEF writeRecord
    <3>2. Sound(slot) \/ Persisting(slot)
      BY <3>1 DEF Custody, RunSound
    <3> QED BY <3>1, <3>2, ExcusedGrows DEF Sound, Spent, Persisting
  <2>2. CASE pending' = pending
    <3>1. PICK p : p = pending
      OBVIOUS
    <3>2. /\ p.row \in RowIds /\ p.tok \in Tokens /\ p # Nothing
          /\ p.before = Nothing \/ (Known(p.before) /\ Known(p.tok))
      BY <1>4, <2>2, <3>1 DEF Known
    <3>3. Known(p.tok)
      BY <3>1, <3>2 DEF Known
    <3>4. CASE slot' = slot
      <4>1. PICK t \in Tokens : t = slot
        BY <1>4, <2>2, <3>1, <3>2, <3>4
      <4>2. t = p.tok
        BY <1>4, <2>2, <3>1, <3>4, <4>1
      <4>3. Sound(t) \/ Persisting(t) \/ Moved(p)
        BY <3>1, <3>2, <4>1, <4>2 DEF Custody, SlotSound, Sound, Spent, Persisting, Moved
      <4>4. CASE Moved(p)
        <5>1. ~Removes(p.row)
          <6>1. Removes(p.row) => rpc = "rollback" /\ pending = rec
            BY DEF Removes, RemoveRow, Custody, Books, Recording
          <6> QED BY <3>1, <4>1, <4>2, <6>1 DEF Custody, Away, Leaving
        <5>2. Copies(p.row) => Moved(p)'
          <6>1. Copies(p.row) => pending = rec /\ rows'[p.row] = rec.tok
            BY DEF Copies, applyToRow, Custody, Books, Recording
          <6> QED BY <3>1, <3>2, <6>1 DEF Moved
        <5>3. Moved(p)'
          BY <3>2, <4>4, <5>1, <5>2, MovedKept
        <5> QED BY <2>2, <3>1, <5>3 DEF Moved
      <4>5. CASE Sound(t) /\ RowSend /\ bpc = "send" /\ t = btok
        <5>1. rows[brow] = p.tok /\ brow = p.row /\ rows' = rows
          BY <3>1, <3>2, <4>2, <4>5, RowSends DEF Custody, Targets, OnlyIn
        <5> QED BY <2>2, <3>1, <3>2, <5>1 DEF Moved
      <4>6. Sound(t)' \/ Persisting(t)' \/ Moved(pending)'
        BY <1>1, <1>2, <3>4, <4>1, <4>3, <4>4, <4>5
      <4> QED BY <3>4, <4>1, <4>6 DEF Sound, Spent, Persisting
    <3>5. CASE slot' # slot
      <4>1. slot' = p.tok
        BY <1>4, <2>2, <3>1
      <4>2. HostWritesBack /\ rpc = "readback" /\ slot' = rec.tok
        BY <3>2, <3>3, <3>5, <4>1, SlotChange DEF Custody
      <4>3. Moved(rec) /\ pending = rec /\ rows' = rows
        BY <4>2 DEF Custody, RunSound, Copied, Books, Recording, HostWritesBack, HostWrites
      <4> QED BY <2>2, <4>3 DEF Moved
    <3> QED BY <3>4, <3>5
  <2> QED BY <1>4, <2>1, <2>2, RecordEffects
<1> QED BY <1>3, <1>4 DEF SlotSound

LEMMA SenderSoundStep == ASSUME Custody, [Next]_vars PROVE SenderSound'
<1> TypeOK /\ TInv
  BY DEF Custody, TInv
<1> USE Shape
<1>1. ASSUME NEW t \in Tokens, t = stok, spc' # "persist", Sound(t)
      PROVE  Sound(t)' \/ (RowSend /\ bpc = "send" /\ t = btok)
  <2>1. Known(t)
    BY <1>1 DEF Known
  <2>2. ~SlotSend
    BY <1>1 DEF SlotSend
  <2> QED BY <1>1, <2>1, <2>2, SoundKept DEF Custody
<1>2. ASSUME spc' \in {"reclaim", "lease"} PROVE Sound(stok)' \/ PendingFor(stok)'
  <2>1. CASE SlotLock
    <3>1. slot \in Tokens /\ stok' = slot /\ gen' = gen /\ pending' = pending /\ spc = "idle"
      BY <2>1 DEF SlotLock
    <3>2. Sound(slot) \/ PendingFor(slot)
      BY <3>1 DEF Custody, SlotSound, Persisting
    <3> QED BY <3>1, <3>2, ExcusedGrows DEF Sound, Spent, PendingFor
  <2>2. CASE stok' = stok /\ spc \in {"reclaim", "lease"}
    <3>1. PICK t \in Tokens : t = stok
      BY <2>2
    <3>2. Sound(t) \/ PendingFor(t)
      BY <2>2, <3>1 DEF Custody, SenderSound, Sound, Spent, PendingFor
    <3>3. CASE RowSend /\ bpc = "send" /\ t = btok
      <4>1. PendingFor(t) \/ t \in Excused
        BY <2>2, <3>1, <3>3, RowSends DEF Custody, Shares, Excused
      <4>2. PendingFor(t)' \/ t \in Excused'
        BY <3>3, <4>1, RowSends, ExcusedGrows DEF PendingFor
      <4> QED BY <2>2, <3>1, <4>2 DEF Sound, PendingFor
    <3>4. CASE PendingFor(t) /\ ~PendingFor(t)'
      <4>1. ~(rpc \in Leaving /\ pending = rec)
        BY <3>1, <3>4 DEF Custody, Away, PendingFor
      <4>2. t \in Excused'
        BY <3>1, <3>4, <4>1, PendingLost DEF Custody, Excused
      <4> QED BY <2>2, <3>1, <4>2 DEF Sound
    <3>5. Sound(t)' \/ PendingFor(t)' \/ (RowSend /\ bpc = "send" /\ t = btok)
          \/ (PendingFor(t) /\ ~PendingFor(t)')
      BY <1>1, <1>2, <3>1, <3>2
    <3>6. CASE Sound(t)' \/ PendingFor(t)'
      BY <2>2, <3>1, <3>6 DEF Sound, Spent, PendingFor
    <3> QED BY <3>3, <3>4, <3>5, <3>6
  <2> QED
    BY <1>2, <2>1, <2>2, SlotRefreshChange DEF SlotReclaim, SlotKeepRecord
<1>3. ASSUME spc' = "send" PROVE Sound(stok)'
  <2>1. CASE SlotLease /\ ~PendingFor(stok)
    <3>1. stok' = stok /\ gen' = gen /\ spc = "lease"
      BY <1>3, <2>1, SlotRefreshChange DEF SlotLease
    <3>2. Sound(stok)
      BY <2>1, <3>1 DEF Custody, SenderSound
    <3> QED BY <3>1, <3>2, ExcusedGrows DEF Sound, Spent
  <2>2. CASE stok' = stok /\ spc = "send"
    <3>1. PICK t \in Tokens : t = stok
      BY <2>2
    <3>2. Sound(t)
      BY <2>2, <3>1 DEF Custody, SenderSound, Sound, Spent
    <3>3. CASE RowSend /\ bpc = "send" /\ t = btok
      <4>1. t \in Excused
        BY <2>2, <3>1, <3>3, RowSends DEF Custody, Shares, Excused
      <4> QED BY <2>2, <3>1, <4>1, ExcusedGrows DEF Sound
    <3>4. Sound(t)' \/ (RowSend /\ bpc = "send" /\ t = btok)
      BY <1>1, <1>3, <3>1, <3>2
    <3> QED BY <2>2, <3>1, <3>3, <3>4 DEF Sound, Spent
  <2> QED BY <1>3, <2>1, <2>2, SlotRefreshChange
<1> QED BY <1>2, <1>3 DEF SenderSound

LEMMA RunSoundStep == ASSUME Custody, [Next]_vars PROVE RunSound'
<1> TypeOK /\ TInv
  BY DEF Custody, TInv
<1> USE Shape
<1>1. ASSUME rpc' \in Copied PROVE Moved(rec)'
  <2>1. CASE PlanFinish
    BY <2>1 DEF PlanFinish, Planning, Happened, Moved
  <2>2. CASE applyToRow /\ rpc' = "verify"
    <3> DEFINE twin == Holders(rec.tok)
    <3> DEFINE target == IF rec.op = "add" /\ twin # {}
                         THEN CHOOSE r \in twin : TRUE ELSE rec.row
    <3>1. rec # Nothing /\ rec' = rec /\ rows' = [rows EXCEPT ![target] = rec.tok]
      BY <2>2 DEF applyToRow, EndRun, Goto
    <3>2. target = rec.row
      BY <3>1 DEF Custody, Targets, OnlyIn, Holders
    <3> HIDE DEF target
    <3> QED BY <3>1, <3>2 DEF Moved
  <2>3. CASE rpc \in Copied /\ rec' = rec
    <3>1. PICK p : p = rec
      OBVIOUS
    <3>2. rec # Nothing /\ Moved(p)
      BY <2>3, <3>1 DEF Copied, Custody, RunSound, Moved
    <3>3. ~Copies(p.row) /\ ~Removes(p.row)
      BY <2>3 DEF Copies, Removes, applyToRow, RemoveRow, Copied
    <3>4. Moved(p)'
      BY <3>1, <3>2, <3>3, MovedKept DEF Known
    <3> QED BY <2>3, <3>1, <3>4 DEF Moved
  <2> QED BY <1>1, <2>1, <2>2, <2>3, RunChange DEF Copied
<1>2. ASSUME rpc' \in {"record", "lease", "confirm"}, slot' = rec'.tok
      PROVE  Sound(slot)' \/ Persisting(slot)'
  <2>1. CASE PlanFresh
    <3>1. pending = Nothing /\ slot \in Tokens /\ slot' = slot /\ gen' = gen /\ spc' = spc
          /\ stok' = stok
      BY <2>1 DEF PlanFresh, Planning
    <3>2. Sound(slot) \/ Persisting(slot)
      BY <3>1 DEF Custody, SlotSound, PendingFor
    <3> QED BY <3>1, <3>2, ExcusedGrows DEF Sound, Spent, Persisting
  <2>2. CASE PlanResume
    <3>1. pending # Nothing /\ slot = pending.tok /\ slot' = slot /\ gen' = gen /\ spc' = spc
          /\ stok' = stok /\ ~Moved(pending)
      BY <2>2 DEF PlanResume, Planning, Happened, NeverHappened, Moved
    <3>2. Sound(slot) \/ Persisting(slot)
      BY <3>1 DEF Custody, SlotSound
    <3> QED BY <3>1, <3>2, ExcusedGrows DEF Sound, Spent, Persisting
  <2>3. CASE rpc \in {"record", "lease", "confirm"} /\ rec' = rec
    <3>1. PICK t \in Tokens : t = rec.tok
      BY <2>3
    <3>2. Known(t) /\ slot' = t
      BY <1>2, <2>3, <3>1 DEF Known
    <3>3. slot' = slot
      BY <2>3, <3>2, SlotChange DEF Custody
    <3>4. Sound(t) \/ Persisting(t)
      BY <2>3, <3>1, <3>2, <3>3 DEF Custody, RunSound, Sound, Spent, Persisting
    <3>5. CASE Sound(t)
      <4>1. SlotSend /\ t = stok => Persisting(t)'
        BY DEF SlotSend, Persisting
      <4>2. RowSend /\ bpc = "send" /\ t = btok => t \in Excused'
        BY <2>3, <3>1, RowSends, ExcusedGrows DEF Custody, RunSound, Holders
      <4>3. Sound(t)' \/ Persisting(t)'
        BY <3>2, <3>5, <4>1, <4>2, SoundKept DEF Custody, Sound
      <4> QED BY <3>2, <4>3 DEF Sound, Spent, Persisting
    <3>6. CASE Persisting(t)
      <4>1. ~SlotPersist
        BY <3>2, <3>6, TokenShape DEF SlotPersist, Persisting
      <4>2. Persisting(t)' \/ t \in burned'
        BY <3>6, <4>1, SlotRefreshChange DEF Persisting
      <4> QED BY <3>2, <4>2 DEF Sound, Excused, Persisting
    <3> QED BY <3>4, <3>5, <3>6
  <2> QED BY <1>2, <2>1, <2>2, <2>3, RunChange
<1>3. ASSUME rpc' = "apply" PROVE Sound(rec.tok)'
  <2>1. rec' = rec /\ (rpc = "apply" \/ ConfirmSlot)
    BY <1>3, RunChange
  <2>2. CASE ConfirmSlot
    <3>1. rpc = "confirm" /\ slot = rec.tok /\ gen' = gen
      BY <1>3, <2>2 DEF ConfirmSlot, Restart, EndRun
    <3>2. ~Persisting(slot)
      BY <3>1 DEF Custody, Handshake, Persisting
    <3>3. Sound(rec.tok)
      BY <3>1, <3>2 DEF Custody, RunSound
    <3> QED BY <2>1, <3>1, <3>3, ExcusedGrows DEF Sound, Spent
  <2>3. CASE rpc = "apply"
    <3>1. PICK t \in Tokens : t = rec.tok
      BY <2>3
    <3>2. Known(t) /\ Sound(t)
      BY <2>3, <3>1 DEF Known, Custody, RunSound, Sound, Spent
    <3>3. ~(SlotSend /\ spc = "send" /\ t = stok)
      BY <2>3, <3>1 DEF Custody, Handshake
    <3>4. RowSend /\ bpc = "send" /\ t = btok => t \in Excused'
      BY <2>3, <3>1, RowSends, ExcusedGrows DEF Custody, RunSound, Holders
    <3>5. Sound(t)'
      BY <3>2, <3>3, <3>4, SoundKept DEF Custody, Sound
    <3> QED BY <2>1, <3>1, <3>5 DEF Sound, Spent
  <2> QED BY <2>1, <2>2, <2>3
<1>4. ASSUME rpc' \in {"record", "lease", "confirm", "apply"}
      PROVE  Holders(rec.tok)' = {} \/ rec'.tok \in Excused'
  <2>1. CASE PlanFresh
    <3>1. PICK p \in resolveTarget(slot) : rec' = p
      BY <2>1 DEF PlanFresh
    <3>2. p.tok = slot
      BY <3>1 DEF resolveTarget, MakeRecord
    <3>3. pending = Nothing /\ slot \in Tokens /\ rows' = rows
      BY <2>1 DEF PlanFresh, Planning
    <3>4. Holders(slot) = {} \/ slot \in Excused
      BY <3>3 DEF Custody, Shares, Excused, PendingFor, Holders
    <3> QED BY <3>1, <3>2, <3>3, <3>4, ExcusedGrows DEF Holders
  <2>2. CASE PlanResume
    <3>1. rec' = pending /\ pending # Nothing /\ rows[pending.row] # pending.tok /\ rows' = rows
      BY <2>2 DEF PlanResume, Planning, Happened
    <3> QED BY <3>1 DEF Custody, Targets, OnlyIn, Holders
  <2>3. CASE rpc \in {"record", "lease", "confirm", "apply"} /\ rec' = rec
    <3>1. Holders(rec.tok) = {} \/ rec.tok \in Excused
      BY <2>3 DEF Custody, RunSound
    <3>2. ASSUME Holders(rec.tok) = {}, NEW r \in RowIds PROVE rows'[r] # rec.tok
      <4>1. CASE rows'[r] = rows[r]
        BY <3>2, <4>1 DEF Holders
      <4>2. CASE Stores(r)
        BY <2>3, <4>2, NewIsUnknown DEF Stores, NewToken, Known, Custody
      <4>3. ~Copies(r) /\ ~Removes(r)
        BY <1>4, <2>3 DEF Copies, Removes, RemoveRow
      <4> QED BY <4>1, <4>2, <4>3, RowChange DEF Custody
    <3> QED BY <2>3, <3>1, <3>2, ExcusedGrows DEF Holders
  <2> QED BY <1>4, <2>1, <2>2, <2>3, RunChange DEF ConfirmSlot
<1> QED BY <1>1, <1>2, <1>3, <1>4 DEF RunSound

-----------------------------------------------------------------------------
(* The theorems *)

LEMMA InitCustody == Init => Custody
<1> SUFFICES ASSUME Init PROVE Custody
  OBVIOUS
<1>1. TInv /\ TypeOK
  BY InitTypes DEF TInv
<1>2. /\ slot = Nothing /\ pending = Nothing /\ declined = Nothing
      /\ rpc = "idle" /\ rec = Nothing /\ spc = "idle" /\ stok = Nothing
      /\ bpc = "idle" /\ btok = Nothing /\ bkind = "none" /\ mainLock = "free" /\ taken = {}
      /\ gen = [l \in Logins |-> 0]
  BY DEF Init
<1>3. PICK f \in RowIds : \A r \in RowIds :
          rows[r] = Nothing \/ (r = f /\ \E l \in issued : rows[r] = <<l, 0>>)
  BY DEF Init, InitAccounts, NextLogin
<1>4. Ages
  BY <1>1, <1>2, <1>3, Shape DEF Ages, Known, Old, InFlight
<1>5. Granted /\ Locks /\ Books /\ RowHolds /\ Handshake /\ Away
  BY <1>1, <1>2, Shape DEF Granted, Locks, Books, RowHolds, Handshake, Away, Recording, Leaving
<1>6. Targets
  BY <1>2, <1>3 DEF Targets, OneRowPerToken
<1>7. Shares
  BY <1>1, <1>2, Shape DEF Shares
<1>8. RowsSound /\ SlotSound /\ SenderSound /\ RunSound
  BY <1>1, <1>2, Shape, TokenShape DEF RowsSound, SlotSound, SenderSound, RunSound, Sound, Spent,
     Copied
<1> QED BY <1>1, <1>4, <1>5, <1>6, <1>7, <1>8 DEF Custody

LEMMA CustodyStep == ASSUME Custody, [Next]_vars PROVE Custody'
<1>1. TInv' /\ TypeOK' /\ TInv /\ TypeOK
  BY FlagsStep, TypesStep DEF Custody, TInv
<1>2. Ages' /\ Granted' /\ Locks' /\ Books'
  BY <1>1, AgesStep, GrantedStep, LocksStep, BooksStep DEF Custody
<1>3. RowHolds' /\ Handshake' /\ Targets'
  BY <1>1, RowHoldsStep, HandshakeStep, TargetsStep DEF Custody
<1>4. Away' /\ Shares'
  BY <1>1, AwayStep, SharesStep DEF Custody
<1> QED
  BY <1>1, <1>2, <1>3, <1>4, RowsSoundStep, SlotSoundStep, SenderSoundStep, RunSoundStep
  DEF Custody

LEMMA CustodyHolds == Spec => []Custody
<1>1. Init => Custody
  BY InitCustody
<1>2. Custody /\ [Next]_vars => Custody'
  BY CustodyStep
<1> QED BY <1>1, <1>2, PTL DEF Spec

(* A token is sent by one of the two refreshes.                             *)
LEMMA ReusedChange ==
    ASSUME [Next]_vars
    PROVE  \/ reused' = reused
           \/ spc = "send" /\ Spent(stok) /\ reused' = reused \cup {stok}
           \/ bpc = "send" /\ Spent(btok) /\ reused' = reused \cup {btok}
<1>1. CASE Beginning
  BY <1>1 DEF Beginning, StartRun, Plan, PlanGate, PlanRefused, PlanNothing, PlanFresh,
     PlanFinish, PlanResume, PlanAmbiguous, PlanDropRecord, Planning, KeepBook
<1>2. CASE Copying
  BY <1>2 DEF Copying, writeRecord, legacyLeaseActive, ConfirmSlot, applyToRow, verifyRow
<1>3. CASE Finishing
  BY <1>3 DEF Finishing, FenceRead, ClearAndRestart, LastRead, PutPlaceholder, ReadBack,
     FinishTransfer, StopRun
<1>4. CASE Undoing
  BY <1>4 DEF Undoing, DisableRow, RemoveRow, RollbackRecord, RollbackShield, RepairShield
<1>5. CASE SlotRefresh
  BY <1>5 DEF SlotRefresh, SlotLock, SlotStep, SlotReclaim, SlotKeepRecord, SlotLease, SlotSend,
     SlotRefused, SlotPersist, SlotClear, SlotFail, SlotCrash, LeaseExpires, RecordExpires
<1>6. CASE RowRefresh
  BY <1>6 DEF RowRefresh, PoolRowStart, LegacyRowStart, StartRow, EnableRow, RowStep, RowSend,
     RowRefused, RowStore, RowFail
<1>7. CASE Environment
  BY <1>7 DEF Environment, HostLogin, HostLogout, HostWritesBack, OtherStoreTransfers,
     HostWrites
<1>8. CASE UNCHANGED vars
  BY <1>8, Unchanged
<1> QED BY StepCases, <1>1, <1>2, <1>3, <1>4, <1>5, <1>6, <1>7, <1>8

(* A single-use refresh token is sent to the provider again only when its   *)
(* rotated successor was lost, or when it was declined, or its record       *)
(* dropped, under a refresh that had read it: whatever the interleaving of  *)
(* the run, the slot refresh, a row refresh, the host and another store,    *)
(* and wherever each of them stops.                                         *)
THEOREM TokensSentOnce == Spec => []SentOnce
<1>1. Init => SentOnce
  BY DEF Init, SentOnce
<1>2. ASSUME Custody, SentOnce, [Next]_vars PROVE SentOnce'
  <2>1. SentOnce <=> reused \subseteq Excused
    BY DEF SentOnce, Excused
  <2>2. SentOnce' <=> reused' \subseteq Excused'
    BY DEF SentOnce, Excused
  <2>3. spc = "send" /\ Spent(stok) => stok \in Excused
    BY <1>2 DEF Custody, SenderSound, Sound
  <2>4. bpc = "send" /\ Spent(btok) => btok \in Excused
    <3>1. TypeOK
      BY <1>2 DEF Custody, TInv
    <3> QED BY <1>2, <3>1, Shape DEF Custody, RowHolds, RowsSound, Sound
  <2> QED BY <1>2, <2>1, <2>2, <2>3, <2>4, ReusedChange, ExcusedGrows
<1> QED BY <1>1, <1>2, CustodyHolds, PTL DEF Spec

-----------------------------------------------------------------------------
(* What another store took *)

(* What another store took is in no row, unless the record says so; the     *)
(* copy a rollback removes is the only one.                                 *)
Taking == {"idle", "plan", "verify", "fence", "rollback", "unrecord", "unshield"}

TakenIsRecorded ==
    /\ slot = Foreign => rpc \in Taking
    /\ slot = Foreign => \A r \in RowIds :
            rows[r] \in taken => rows[r] \in reclaimed \/ PendingFor(rows[r])
    /\ rpc = "unrecord" => Holders(rec.tok) = {}

(* Only a transfer by another store puts its placeholder into the slot.     *)
LEMMA ForeignChange ==
    ASSUME TInv, Ages, [Next]_vars, slot' = Foreign
    PROVE  \/ slot = Foreign /\ taken' = taken /\ (rpc \in Taking => rpc' \in Taking)
           \/ /\ rpc = "idle" /\ rpc' = "idle" /\ slot \in Tokens /\ taken' = {slot}
              /\ rows' = rows /\ pending' = pending
<1> TypeOK
  BY DEF TInv
<1> USE DEF Taking
<1>1. Foreign \notin Tokens /\ Foreign # Self /\ Foreign # Untagged /\ Foreign # Nothing
  BY DEF Placeholders
<1>2. CASE Beginning
  BY <1>1, <1>2, Shape DEF Beginning, StartRun, Plan, PlanGate, PlanRefused, PlanNothing, PlanFresh,
     PlanFinish, PlanResume, PlanAmbiguous, PlanDropRecord, Planning, KeepBook, EndRun, Restart
<1>3. CASE Copying
  BY <1>1, <1>3 DEF Copying, writeRecord, legacyLeaseActive, ConfirmSlot, applyToRow, verifyRow,
     Goto, EndRun, Restart
<1>4. CASE Finishing
  BY <1>1, <1>4, Shape DEF Finishing, FenceRead, ClearAndRestart, LastRead, PutPlaceholder, ReadBack,
     FinishTransfer, StopRun, Goto, EndRun, Restart, Placeholders
<1>5. CASE Undoing
  BY <1>5 DEF Undoing, DisableRow, RemoveRow, RollbackRecord, RollbackShield, RepairShield, Goto,
     EndRun
<1>6. CASE SlotRefresh
  <2>1. ~SlotPersist
    BY <1>1, NewIsUnknown DEF SlotPersist, NewToken
  <2> QED BY <1>6, <2>1 DEF SlotRefresh, SlotLock, SlotStep, SlotReclaim, SlotKeepRecord, SlotLease,
     SlotSend, SlotRefused, SlotClear, SlotFail, SlotCrash, LeaseExpires, RecordExpires
<1>7. CASE RowRefresh
  BY <1>7 DEF RowRefresh, PoolRowStart, LegacyRowStart, StartRow, EnableRow, RowStep, RowSend,
     RowRefused, RowStore, RowFail
<1>8. CASE Environment
  <2>1. HostLogin => slot' \in Tokens
    BY DEF HostLogin, HostWrites, NextLogin, Tokens
  <2>2. HostWritesBack => slot' \in Tokens
    BY Shape DEF HostWritesBack, HostWrites
  <2> QED BY <1>1, <1>8, <2>1, <2>2 DEF Environment, HostLogout, OtherStoreTransfers, HostWrites
<1>9. CASE UNCHANGED vars
  BY <1>9, Unchanged
<1> QED BY StepCases, <1>2, <1>3, <1>4, <1>5, <1>6, <1>7, <1>8, <1>9

LEMMA TakenStep == ASSUME Custody, TakenIsRecorded, [Next]_vars PROVE TakenIsRecorded'
<1> TypeOK /\ TInv
  BY DEF Custody, TInv
<1> USE Shape
<1>1. Foreign \notin Tokens
  BY DEF Placeholders
<1>2. slot' = Foreign => rpc' \in Taking
  BY ForeignChange DEF TakenIsRecorded, Taking, Custody
<1>3. ASSUME slot' = Foreign, NEW r \in RowIds, rows'[r] \in taken'
      PROVE  rows'[r] \in reclaimed' \/ PendingFor(rows[r])'
  <2>1. CASE slot = Foreign /\ taken' = taken
    <3>1. PICK t : t = rows'[r]
      OBVIOUS
    <3>2. t \in Tokens /\ Known(t)
      BY <1>3, <2>1, <3>1 DEF Known
    <3>3. ~Stores(r)
      BY <3>1, <3>2, NewIsUnknown DEF Stores, NewToken, Custody
    <3>4. ~Copies(r)
      BY <2>1 DEF Copies, applyToRow, TakenIsRecorded, Taking
    <3>5. ~Removes(r)
      BY <3>1, <3>2 DEF Removes
    <3>6. rows[r] = t
      BY <3>1, <3>3, <3>4, <3>5, RowChange DEF Custody
    <3>7. t \in reclaimed \/ PendingFor(t)
      BY <1>3, <2>1, <3>1, <3>6 DEF TakenIsRecorded
    <3>8. CASE PendingFor(t) /\ ~PendingFor(t)'
      <4>1. Happened(pending) /\ t = pending.tok
        BY <3>6, <3>8 DEF PendingFor, Custody, Targets, OnlyIn, Happened
      <4>2. ~(rpc \in Leaving \ {"rollback", "unshield"} /\ pending = rec)
        BY <2>1, <3>6, <4>1 DEF TakenIsRecorded, Taking, Leaving, Holders
      <4>3. t \in reclaimed'
        BY <3>8, <4>1, <4>2, PendingLost DEF Custody
      <4> QED BY <3>1, <4>3
    <3>9. CASE t \in reclaimed \/ PendingFor(t)'
      BY <3>1, <3>9, ExcusedGrows DEF PendingFor
    <3> QED BY <3>7, <3>8, <3>9
  <2>2. CASE /\ rpc = "idle" /\ slot \in Tokens /\ taken' = {slot}
             /\ rows' = rows /\ pending' = pending
    <3>1. rows[r] = slot
      BY <1>3, <2>2
    <3>2. PendingFor(rows[r]) \/ rows[r] \in reclaimed
      BY <2>2, <3>1 DEF Custody, Shares
    <3> QED BY <2>2, <3>2, ExcusedGrows DEF PendingFor
  <2> QED BY <1>3, <2>1, <2>2, ForeignChange DEF Custody
<1>4. ASSUME rpc' = "unrecord" PROVE Holders(rec.tok)' = {}
  <2>1. rec' = rec /\ (rpc = "unrecord" \/ RemoveRow)
    <3>1. rec' = rec /\ (rpc \in Leaving \/ FenceRead \/ ReadBack)
      BY <1>4, RunChange DEF Leaving
    <3>2. rpc = "unrecord" \/ RemoveRow
      <4>1. CASE Beginning
        BY <1>4, <4>1 DEF Beginning, StartRun, Plan, PlanGate, PlanRefused, PlanNothing, PlanFresh,
           PlanFinish, PlanResume, PlanAmbiguous, PlanDropRecord, Planning, EndRun, Restart
      <4>2. CASE Copying
        BY <1>4, <4>2 DEF Copying, writeRecord, legacyLeaseActive, ConfirmSlot, applyToRow,
           verifyRow, Goto, Restart, EndRun
      <4>3. CASE Finishing
        BY <1>4, <4>3 DEF Finishing, FenceRead, ClearAndRestart, LastRead, PutPlaceholder,
           ReadBack, FinishTransfer, StopRun, Goto, Restart, EndRun
      <4>4. CASE Undoing
        BY <1>4, <4>4 DEF Undoing, DisableRow, RollbackRecord, RollbackShield,
           RepairShield, Goto, EndRun
      <4>5. CASE SlotRefresh
        BY <1>4, <4>5 DEF SlotRefresh, SlotLock, SlotStep, SlotReclaim, SlotKeepRecord, SlotLease,
           SlotSend, SlotRefused, SlotPersist, SlotClear, SlotFail, SlotCrash, LeaseExpires,
           RecordExpires
      <4>6. CASE RowRefresh
        BY <1>4, <4>6 DEF RowRefresh, PoolRowStart, LegacyRowStart, StartRow, EnableRow, RowStep,
           RowSend, RowRefused, RowStore, RowFail
      <4>7. CASE Environment
        BY <1>4, <4>7 DEF Environment, HostLogin, HostLogout, HostWritesBack,
           OtherStoreTransfers, HostWrites
      <4>8. CASE UNCHANGED vars
        BY <1>4, <4>8, Unchanged
      <4> QED BY StepCases, <4>1, <4>2, <4>3, <4>4, <4>5, <4>6, <4>7, <4>8
    <3> QED BY <3>1, <3>2
  <2>2. CASE RemoveRow
    <3>1. rows' = [rows EXCEPT ![rec.row] = Nothing] /\ rec # Nothing
      BY <1>4, <2>2 DEF RemoveRow, EndRun, Goto
    <3>2. OnlyIn(rec)
      BY <3>1 DEF Custody, Targets
    <3> QED BY <2>1, <3>1, <3>2 DEF OnlyIn, Holders
  <2>3. CASE rpc = "unrecord"
    <3>1. Holders(rec.tok) = {} /\ rec # Nothing
      BY <2>3 DEF TakenIsRecorded
    <3>2. ASSUME NEW r \in RowIds PROVE rows'[r] # rec.tok
      <4>1. ~Copies(r)
        BY <2>3 DEF Copies, applyToRow
      <4>2. ~Removes(r)
        BY <2>3 DEF Removes, RemoveRow
      <4>3. Stores(r) => rows'[r] # rec.tok
        BY <3>1, NewIsUnknown DEF Stores, NewToken, Known, Custody
      <4> QED BY <3>1, <4>1, <4>2, <4>3, RowChange DEF Custody, Holders
    <3> QED BY <2>1, <3>2 DEF Holders
  <2> QED BY <2>1, <2>2, <2>3
<1> QED BY <1>2, <1>3, <1>4 DEF TakenIsRecorded

(* No credential is ever in two rows, and while another store's placeholder *)
(* stands in the slot no row keeps what that store took.                    *)
THEOREM RowsStayOwn == Spec => []RowsAreOwn
<1>1. Init => TakenIsRecorded
  BY DEF Init, TakenIsRecorded, Placeholders
<1>2. Custody /\ TakenIsRecorded /\ [Next]_vars => TakenIsRecorded'
  BY TakenStep
<1>3. Custody /\ TakenIsRecorded => RowsAreOwn
  BY DEF Custody, Targets, TakenIsRecorded, RowsAreOwn, ForeignCopyRemoved, PendingFor
<1> QED BY <1>1, <1>2, <1>3, CustodyHolds, PTL DEF Spec

-----------------------------------------------------------------------------
(* The shield *)

(* A login has an account, once granted.                                    *)
Named == \A l \in issued : acct[l] \in Identities

Shared == slot \in Tokens /\ Holders(slot) # {}

(* The shield is the account of the recorded token, and of a token that is  *)
(* in the slot and in a row: the record stays, and with it the shield, for  *)
(* as long as both have the token.                                          *)
Shields ==
    /\ pending # Nothing => shield = Identity(pending.tok)
    /\ Shared => shield = Identity(slot)
    /\ Shared /\ pending # Nothing => slot = pending.tok
    /\ Shared /\ rpc = "record" => slot = rec.tok
    /\ Shared => rpc \notin Leaving
    /\ Shared /\ pending = Nothing => ~migrated

(* A declined token is in no row and in no record.                          *)
Declined ==
    declined # Nothing =>
        /\ Holders(declined) = {}
        /\ pending # Nothing => pending.tok # declined
        /\ rec # Nothing => rec.tok # declined

LEMMA NamedStep ==
    ASSUME Custody, Named, [Next]_vars
    PROVE  Named' /\ \A t \in Tokens : Known(t) => Identity(t)' = Identity(t)
<1> TypeOK
  BY DEF Custody, TInv
<1>1. CASE HostLogin
  <2>1. PICK l \in NextLogin(issued), i \in UNION {Owners[k] : k \in Logins} :
            issued' = issued \cup {l} /\ acct' = [acct EXCEPT ![l] = i]
    BY <1>1 DEF HostLogin, NextLogin
  <2>2. l \in Logins \ issued /\ i \in Identities
    BY <2>1 DEF NextLogin, Identities
  <2>3. acct \in [Logins -> Identities \cup {Nothing}]
    BY DEF TypeOK, ProviderTypes, Optional
  <2> QED BY <2>1, <2>2, <2>3, Shape DEF Named, Identity, Custody, Ages, Old
<1>2. CASE issued' = issued /\ acct' = acct
  BY <1>2 DEF Named, Identity
<1>3. CASE Beginning
  BY <1>2, <1>3 DEF Beginning, StartRun, Plan, PlanGate, PlanRefused, PlanNothing, PlanFresh,
     PlanFinish, PlanResume, PlanAmbiguous, PlanDropRecord, Planning
<1>4. CASE Copying
  BY <1>2, <1>4 DEF Copying, writeRecord, legacyLeaseActive, ConfirmSlot, applyToRow, verifyRow
<1>5. CASE Finishing
  BY <1>2, <1>5 DEF Finishing, FenceRead, ClearAndRestart, LastRead, PutPlaceholder, ReadBack,
     FinishTransfer, StopRun
<1>6. CASE Undoing
  BY <1>2, <1>6 DEF Undoing, DisableRow, RemoveRow, RollbackRecord, RollbackShield, RepairShield
<1>7. CASE SlotRefresh
  BY <1>2, <1>7 DEF SlotRefresh, SlotLock, SlotStep, SlotReclaim, SlotKeepRecord, SlotLease, SlotSend,
     SlotRefused, SlotPersist, SlotClear, SlotFail, SlotCrash, LeaseExpires, RecordExpires, Answer
<1>8. CASE RowRefresh
  BY <1>2, <1>8 DEF RowRefresh, PoolRowStart, LegacyRowStart, StartRow, EnableRow, RowStep, RowSend,
     RowRefused, RowStore, RowFail, Answer
<1>9. CASE Environment
  BY <1>1, <1>2, <1>9 DEF Environment, HostLogout, HostWritesBack, OtherStoreTransfers
<1>10. CASE UNCHANGED vars
  BY <1>2, <1>10, Unchanged
<1> QED BY StepCases, <1>3, <1>4, <1>5, <1>6, <1>7, <1>8, <1>9, <1>10

(* Who writes the shield, the marker and the declined token.                *)
LEMMA BookChange ==
    ASSUME [Next]_vars
    PROVE  /\ \/ shield' = shield \/ writeRecord \/ PlanNothing \/ PlanAmbiguous \/ FinishTransfer
              \/ RollbackShield \/ RepairShield
              \/ PlanGate /\ migrated /\ pending = Nothing /\ pending' = Nothing
           /\ migrated' = migrated \/ PlanNothing \/ PlanAmbiguous \/ FinishTransfer
           /\ \/ declined' = declined
              \/ PlanAmbiguous /\ declined' = pending.tok
              \/ SlotReclaim /\ declined' = stok
                 /\ rows[pending.row] \notin {Nothing, pending.tok, pending.before}
<1>1. CASE Beginning
  BY <1>1 DEF Beginning, StartRun, Plan, PlanGate, Gate, PlanRefused, PlanNothing, PlanFresh,
     PlanFinish, PlanResume, PlanAmbiguous, PlanDropRecord, Planning, KeepBook, WriteFinished,
     clearRecord
<1>2. CASE Copying
  BY <1>2 DEF Copying, writeRecord, legacyLeaseActive, ConfirmSlot, applyToRow, verifyRow
<1>3. CASE Finishing
  BY <1>3 DEF Finishing, FenceRead, ClearAndRestart, LastRead, PutPlaceholder, ReadBack,
     FinishTransfer, StopRun, clearRecord, WriteFinished
<1>4. CASE Undoing
  BY <1>4 DEF Undoing, DisableRow, RemoveRow, RollbackRecord, RollbackShield, RepairShield,
     clearRecord
<1>5. CASE SlotRefresh
  BY <1>5 DEF SlotRefresh, SlotLock, SlotStep, SlotReclaim, SlotKeepRecord, SlotLease, SlotSend,
     SlotRefused, SlotPersist, SlotClear, SlotFail, SlotCrash, LeaseExpires, RecordExpires
<1>6. CASE RowRefresh
  BY <1>6 DEF RowRefresh, PoolRowStart, LegacyRowStart, StartRow, EnableRow, RowStep, RowSend,
     RowRefused, RowStore, RowFail
<1>7. CASE Environment
  BY <1>7 DEF Environment, HostLogin, HostLogout, HostWritesBack, OtherStoreTransfers,
     HostWrites
<1>8. CASE UNCHANGED vars
  BY <1>8, Unchanged
<1> QED BY StepCases, <1>1, <1>2, <1>3, <1>4, <1>5, <1>6, <1>7, <1>8

(* How the slot and a row come to hold one token.                           *)
LEMMA SharedChange ==
    ASSUME Custody, [Next]_vars, Shared'
    PROVE  \/ Shared /\ slot' = slot
           \/ /\ pending # Nothing /\ pending' = pending /\ pending = rec /\ slot' = pending.tok
              /\ rpc' \in {"verify", "readback"} /\ shield' = shield
<1> TypeOK /\ TInv
  BY DEF Custody, TInv
<1> USE Shape
<1>1. PICK r \in RowIds : rows'[r] = slot' /\ slot' \in Tokens
  BY DEF Shared, Holders
<1>2. CASE slot' # slot /\ NewToken(slot') /\ ~Known(slot')
  <2>1. rows' = rows
    BY <1>2 DEF NewToken, SlotPersist, RowStore, HostLogin, HostWrites
  <2> QED BY <1>1, <1>2, <2>1 DEF Known
<1>3. CASE HostWritesBack /\ rpc = "readback" /\ slot' = rec.tok
  BY <1>3 DEF HostWritesBack, HostWrites, Custody, Books, Recording
<1>4. CASE slot' = slot /\ rows'[r] = rows[r]
  BY <1>1, <1>4 DEF Shared, Holders
<1>5. CASE slot' = slot /\ Stores(r)
  BY <1>1, <1>5, NewIsUnknown DEF Stores, NewToken, Known, Custody
<1>6. CASE slot' = slot /\ Copies(r)
  BY <1>1, <1>6 DEF Copies, applyToRow, Custody, Books, Recording
<1>7. ~Removes(r)
  BY <1>1 DEF Removes
<1> QED BY <1>1, <1>2, <1>3, <1>4, <1>5, <1>6, <1>7, SlotChange, RowChange DEF Custody

(* A record whose row never took its token, or has a successor, leaves the  *)
(* token in no row.                                                         *)
LEMMA NotHappened ==
    ASSUME Targets, pending # Nothing, ~Happened(pending) PROVE Holders(pending.tok) = {}
  BY DEF Targets, OnlyIn, Happened, Holders

LEMMA DeclinedStep == ASSUME Custody, Declined, [Next]_vars PROVE Declined'
<1> TypeOK /\ TInv
  BY DEF Custody, TInv
<1> USE Shape
<1>1. CASE PlanAmbiguous
  <2>1. pending # Nothing /\ Holders(pending.tok) = {} /\ rows' = rows /\ pending' = Nothing
        /\ rec' = Nothing /\ declined' = pending.tok
    BY <1>1, NotHappened DEF PlanAmbiguous, Planning, WriteFinished, EndRun, Custody
  <2> QED BY <2>1 DEF Declined, Holders
<1>2. CASE /\ SlotReclaim /\ declined' = stok
           /\ rows[pending.row] \notin {Nothing, pending.tok, pending.before}
  <2>1. pending # Nothing /\ pending' = Nothing /\ rec' = Nothing /\ rows' = rows
        /\ stok = pending.tok
    BY <1>2 DEF SlotReclaim, ReclaimAllowed, PendingFor
  <2>2. Holders(pending.tok) = {}
    BY <1>2, <2>1, NotHappened DEF Happened, Custody
  <2> QED BY <1>2, <2>1, <2>2 DEF Declined, Holders
<1>3. CASE declined' = declined /\ declined # Nothing
  <2>1. PICK d \in Tokens : d = declined
    BY <1>3
  <2>2. Known(d) /\ Holders(d) = {}
    BY <1>3, <2>1 DEF Known, Declined
  <2>3. ASSUME NEW r \in RowIds PROVE rows'[r] # d
    <3>1. rows[r] # d
      BY <2>2 DEF Holders
    <3>2. Stores(r) => rows'[r] # d
      BY <2>2, NewIsUnknown DEF Stores, NewToken, Custody
    <3>3. Copies(r) => rows'[r] # d
      BY <1>3, <2>1 DEF Copies, applyToRow, Declined
    <3>4. Removes(r) => rows'[r] # d
      BY DEF Removes
    <3> QED BY <3>1, <3>2, <3>3, <3>4, RowChange DEF Custody
  <2>4. pending' # Nothing => pending'.tok # d
    BY <1>3, <2>1, RecordEffects DEF Declined, writeRecord
  <2>5. rec' # Nothing => rec'.tok # d
    <3>1. CASE PlanFresh
      <4>1. PICK p \in resolveTarget(slot) : rec' = p
        BY <3>1 DEF PlanFresh
      <4>2. p.tok = slot
        BY <4>1 DEF resolveTarget, MakeRecord
      <4> QED BY <2>1, <3>1, <4>1, <4>2 DEF PlanFresh
    <3> QED BY <1>3, <2>1, <3>1, RecordEffects DEF Declined
  <2> QED BY <1>3, <2>1, <2>3, <2>4, <2>5 DEF Declined, Holders
<1>4. CASE declined' = declined /\ declined = Nothing
  BY <1>4 DEF Declined
<1> QED BY <1>1, <1>2, <1>3, <1>4, BookChange

(* Who may drop a record.                                                   *)
LEMMA PendingDroppers ==
    ASSUME TypeOK, Books, [Next]_vars, pending # Nothing, pending' = Nothing
    PROVE  PlanAmbiguous \/ PlanDropRecord \/ rpc \in Leaving \/ SlotReclaim
<1>1. CASE Beginning
  BY <1>1 DEF Beginning, StartRun, Plan, PlanGate, PlanRefused, PlanNothing, PlanFresh,
     PlanFinish, PlanResume, Planning, KeepBook
<1>2. CASE Copying
  BY <1>2 DEF Copying, writeRecord, legacyLeaseActive, ConfirmSlot, applyToRow, verifyRow, Books
<1>3. CASE Finishing
  BY <1>3 DEF Finishing, FenceRead, ClearAndRestart, LastRead, PutPlaceholder, ReadBack,
     FinishTransfer, StopRun, Leaving
<1>4. CASE Undoing
  BY <1>4 DEF Undoing, DisableRow, RemoveRow, RollbackRecord, RollbackShield, RepairShield, Leaving
<1>5. CASE SlotRefresh
  BY <1>5 DEF SlotRefresh, SlotLock, SlotStep, SlotKeepRecord, SlotLease, SlotSend, SlotRefused,
     SlotPersist, SlotClear, SlotFail, SlotCrash, LeaseExpires, RecordExpires
<1>6. CASE RowRefresh
  BY <1>6 DEF RowRefresh, PoolRowStart, LegacyRowStart, StartRow, EnableRow, RowStep, RowSend,
     RowRefused, RowStore, RowFail
<1>7. CASE Environment
  BY <1>7 DEF Environment, HostLogin, HostLogout, HostWritesBack, OtherStoreTransfers,
     HostWrites
<1>8. CASE UNCHANGED vars
  BY <1>8, Unchanged
<1> QED BY StepCases, <1>1, <1>2, <1>3, <1>4, <1>5, <1>6, <1>7, <1>8

LEMMA ShieldsStep ==
    ASSUME Nothing \notin Identities, Custody, Named, Declined, Shields, [Next]_vars
    PROVE  Shields'
<1> TypeOK /\ TInv
  BY DEF Custody, TInv
<1> USE Shape
<1>1. Custody' /\ TypeOK'
  BY CustodyStep DEF Custody, TInv
<1>2. \A t \in Tokens : Known(t) => Identity(t)' = Identity(t) /\ Identity(t) # Nothing
  BY NamedStep DEF Named, Identity, Custody, Ages, Old
<1>3. ASSUME Shared
      PROVE  /\ ~PlanNothing /\ ~PlanAmbiguous /\ ~FinishTransfer /\ ~RollbackShield
             /\ ~(RepairShield \/ (PlanGate /\ migrated /\ pending = Nothing))
  <2>1. ~PlanNothing
    BY <1>3 DEF PlanNothing, Declined, Shared
  <2>2. ~PlanAmbiguous
    BY <1>3, NotHappened DEF PlanAmbiguous, Custody, Shared
  <2>3. rpc \notin Leaving
    BY <1>3 DEF Shields
  <2>4. ~FinishTransfer /\ ~RollbackShield
    BY <2>3 DEF FinishTransfer, RollbackShield, Leaving
  <2>5. pending = Nothing => ~migrated
    BY <1>3 DEF Shields
  <2>6. ~RepairShield
    BY <2>5 DEF RepairShield
  <2> QED BY <2>1, <2>2, <2>4, <2>5, <2>6
<1>4. pending' # Nothing => shield' = Identity(pending.tok)'
  <2>1. CASE writeRecord
    <3>1. PICK t \in Tokens : t = rec.tok
      BY <2>1 DEF writeRecord
    <3>2. Known(t) /\ pending'.tok = t /\ (shield' = IF Identity(t) # Nothing THEN Identity(t) ELSE shield)
      BY <2>1, <3>1 DEF writeRecord, Known
    <3>3. shield' = Identity(t)'
      BY <1>2, <3>2
    <3> QED BY <3>2, <3>3 DEF Identity
  <2>2. CASE ~writeRecord /\ pending' # Nothing
    <3>1. PICK t : t = pending.tok
      OBVIOUS
    <3>2. pending' = pending /\ t \in Tokens /\ Known(t) /\ shield = Identity(t)
      BY <2>2, <3>1, RecordEffects DEF Known, Shields
    <3>3. shield' = shield
      BY <2>2, <3>2, BookChange DEF PlanNothing, PlanAmbiguous, FinishTransfer, WriteFinished,
         RollbackShield, RepairShield, Custody, Books
    <3>4. shield' = Identity(t)'
      BY <1>2, <3>2, <3>3
    <3> QED BY <3>1, <3>2, <3>4 DEF Identity
  <2> QED BY <2>1, <2>2
<1>5. ASSUME Shared'
      PROVE  /\ shield' = Identity(slot)'
             /\ pending' # Nothing => slot' = pending'.tok
             /\ rpc' = "record" => slot' = rec'.tok
             /\ rpc' \notin Leaving
             /\ pending' = Nothing => ~migrated'
  <2>1. CASE Shared /\ slot' = slot
    <3>1. PICK t \in Tokens : t = slot
      BY <2>1 DEF Shared
    <3>2. Known(t) /\ shield = Identity(t)
      BY <2>1, <3>1 DEF Known, Shields, Shared
    <3>3. shield' = Identity(t)
      <4>1. CASE writeRecord
        <5>1. rec.tok = t
          BY <2>1, <3>1, <4>1 DEF writeRecord, Shields
        <5> QED BY <1>2, <3>2, <4>1, <5>1 DEF writeRecord
      <4> QED BY <1>3, <2>1, <3>2, <4>1, BookChange
    <3>4. shield' = Identity(slot)'
      BY <1>2, <2>1, <3>1, <3>2, <3>3 DEF Identity
    <3>5. pending' # Nothing => slot' = pending'.tok
      BY <2>1, RecordEffects DEF Shields, writeRecord
    <3>6. rpc' = "record" => slot' = rec'.tok
      <4>1. CASE PlanFresh
        <5>1. PICK p \in resolveTarget(slot) : rec' = p
          BY <4>1 DEF PlanFresh
        <5>2. p.tok = slot
          BY <5>1 DEF resolveTarget, MakeRecord
        <5> QED BY <2>1, <5>1, <5>2
      <4> QED BY <2>1, <4>1, RunChange DEF Shields
    <3>7. rpc' \notin Leaving
      <4>1. ASSUME rpc' \in Leaving PROVE rec' = rec /\ slot' # rec.tok /\ (FenceRead \/ ReadBack)
        BY <1>1, <2>1, <4>1, RunChange DEF Shields, Custody, Away
      <4>2. FenceRead \/ ReadBack => pending # Nothing /\ pending = rec
        BY DEF FenceRead, ReadBack, Custody, Books, Recording
      <4> QED BY <2>1, <4>1, <4>2 DEF Shields
    <3>8. ASSUME pending' = Nothing PROVE ~migrated'
      <4>1. migrated' = migrated
        BY <1>3, <2>1, BookChange
      <4>2. CASE pending # Nothing
        <5>1. PICK p : p = pending
          OBVIOUS
        <5>2. t = p.tok /\ PendingFor(t) /\ ~PendingFor(t)' /\ Happened(pending)
          BY <2>1, <3>1, <3>8, <4>2, <5>1, NotHappened DEF Shields, PendingFor, Shared, Custody
        <5>3. rpc \notin Leaving
          BY <2>1 DEF Shields
        <5>4. SlotReclaim
          <6>1. ~PlanAmbiguous /\ ~PlanDropRecord
            BY <5>2 DEF PlanAmbiguous, PlanDropRecord
          <6>2. pending' # pending /\ pending' = Nothing
            BY <3>8, <4>2
          <6> QED BY <4>2, <5>3, <6>1, <6>2, PendingDroppers DEF Custody
        <5>5. ~migrated
          BY <5>2, <5>4 DEF SlotReclaim, ReclaimAllowed, PendingFor, Happened
        <5> QED BY <4>1, <5>5
      <4>3. CASE pending = Nothing
        BY <2>1, <4>1, <4>3 DEF Shields
      <4> QED BY <4>2, <4>3
    <3> QED BY <3>4, <3>5, <3>6, <3>7, <3>8
  <2>2. CASE /\ pending # Nothing /\ pending' = pending /\ pending = rec /\ slot' = pending.tok
             /\ rpc' \in {"verify", "readback"} /\ shield' = shield
    <3>1. shield' = Identity(pending.tok)'
      BY <1>4, <2>2
    <3> QED BY <2>2, <3>1 DEF Identity, Leaving
  <2> QED BY <1>5, <2>1, <2>2, SharedChange
<1> QED BY <1>4, <1>5 DEF Shields

(* While the slot and a row hold one token, the shield names the row's      *)
(* account, so no legacy refresher takes the row for a fallback.  It needs  *)
(* access tokens that can be read: a login whose account they do not tell   *)
(* is copied without a shield (writeRecord).                                *)
THEOREM SharedTokensShielded ==
    ASSUME Nothing \notin Identities PROVE Spec => []SharedTokenShielded
<1> DEFINE Inv == Named /\ Declined /\ Shields
<1>1. Init => Inv
  <2> SUFFICES ASSUME Init PROVE Inv
    OBVIOUS
  <2>1. Named
    BY DEF Init, InitAccounts, Named, Identities, NextLogin
  <2>2. slot = Nothing /\ pending = Nothing /\ declined = Nothing
    BY DEF Init
  <2> QED BY <2>1, <2>2 DEF Declined, Shields, Shared
<1>2. Custody /\ Inv /\ [Next]_vars => Inv'
  BY NamedStep, DeclinedStep, ShieldsStep
<1>3. Custody /\ Inv => SharedTokenShielded
  <2> SUFFICES ASSUME Custody, Inv, NEW r \in RowIds, slot \in Tokens, rows[r] = slot
               PROVE  isShieldedMainRow(r)
    BY DEF SharedTokenShielded
  <2>1. shield = Identity(slot)
    BY DEF Shields, Shared, Holders
  <2>2. Known(slot)
    BY DEF Known
  <2>3. slot[1] \in issued
    BY <2>2 DEF Custody, Ages, Old
  <2>4. Identity(slot) # Nothing
    BY <2>3 DEF Named, Identity
  <2> QED BY <2>1, <2>4 DEF isShieldedMainRow
<1> QED BY <1>1, <1>2, <1>3, CustodyHolds, PTL DEF Spec

-----------------------------------------------------------------------------
(* What a transfer overwrites, and what a locked read of the slot found *)

MayOverwrite(p, c) ==
    /\ p.op = "replace" =>
            c \in Tokens /\ Identity(c) = Identity(p.tok) /\ Identity(c) # Nothing
    /\ p.op = "rotate" => c \in Tokens /\ c[1] = p.tok[1]

Planned == {"record", "lease", "confirm", "apply"}

Overwrites ==
    /\ pending # Nothing => MayOverwrite(pending, pending.before)
    /\ rec # Nothing => MayOverwrite(rec, rec.before)
    /\ rpc \in Planned => MayOverwrite(rec, rows[rec.row])

ReadsHold ==
    /\ ~raced /\ spc \in {"reclaim", "lease", "send", "persist"} => slot = stok
    /\ ~raced /\ rpc = "put" => slot = rec.tok

LEMMA OverwritesStep == ASSUME Custody, Named, Overwrites, [Next]_vars PROVE Overwrites'
<1> TypeOK /\ TInv
  BY DEF Custody, TInv
<1> USE Shape
<1>1. ASSUME NEW p, p.tok \in Tokens, Known(p.tok), NEW c, c = Nothing \/ (c \in Tokens /\ Known(c)),
             MayOverwrite(p, c)
      PROVE  MayOverwrite(p, c)'
  <2>1. Identity(p.tok)' = Identity(p.tok) /\ (c \in Tokens => Identity(c)' = Identity(c))
    BY <1>1, NamedStep
  <2> QED BY <1>1, <2>1 DEF MayOverwrite
<1>2. ASSUME PlanFresh
      PROVE  MayOverwrite(rec, rec.before)' /\ MayOverwrite(rec, rows[rec.row])'
  <2>1. PICK p \in resolveTarget(slot) : rec' = p
    BY <1>2 DEF PlanFresh
  <2>2. \/ p.op = "add"
        \/ p.op = "rotate" /\ p.tok = slot /\ p.before = slot /\ rows[p.row] = slot
        \/ /\ p.op = "replace" /\ p.tok = slot /\ p.before = rows[p.row] /\ rows[p.row] \in Tokens
           /\ Identity(rows[p.row]) = Identity(slot) /\ Identity(slot) # Nothing
    BY <2>1 DEF resolveTarget, MakeRecord, Holders
  <2>3. UNCHANGED <<acct, rows>>
    BY <1>2 DEF PlanFresh, Planning
  <2> QED BY <1>2, <2>1, <2>2, <2>3 DEF MayOverwrite, Identity, PlanFresh
<1>3. pending' # Nothing => MayOverwrite(pending, pending.before)'
  <2>1. PICK p : p = pending'
    OBVIOUS
  <2>2. CASE p # Nothing
    <3>1. /\ p.tok \in Tokens /\ Known(p.tok)
          /\ p.before = Nothing \/ (p.before \in Tokens /\ Known(p.before))
          /\ MayOverwrite(p, p.before)
      BY <2>1, <2>2, RecordEffects DEF Known, Overwrites, writeRecord, MayOverwrite
    <3>2. MayOverwrite(p, p.before)'
      BY <1>1, <3>1
    <3> QED BY <2>1, <3>2 DEF MayOverwrite, Identity
  <2> QED BY <2>1, <2>2
<1>4. rec' # Nothing => MayOverwrite(rec, rec.before)'
  <2>1. PICK p : p = rec'
    OBVIOUS
  <2>2. CASE p # Nothing /\ ~PlanFresh
    <3>1. /\ p.tok \in Tokens /\ Known(p.tok)
          /\ p.before = Nothing \/ (p.before \in Tokens /\ Known(p.before))
          /\ MayOverwrite(p, p.before)
      BY <2>1, <2>2, RecordEffects DEF Known, Overwrites, MayOverwrite
    <3>2. MayOverwrite(p, p.before)'
      BY <1>1, <3>1
    <3> QED BY <2>1, <3>2 DEF MayOverwrite, Identity
  <2> QED BY <1>2, <2>1, <2>2
<1>5. ASSUME rpc' \in Planned PROVE MayOverwrite(rec, rows[rec.row])'
  <2>1. CASE PlanResume
    <3>1. rec' = pending /\ pending # Nothing /\ rows' = rows /\ acct' = acct
          /\ rows[pending.row] = pending.before
      BY <2>1 DEF PlanResume, Planning, NeverHappened
    <3> QED BY <3>1 DEF Overwrites, MayOverwrite, Identity
  <2>2. CASE rpc \in Planned /\ rec' = rec
    <3>1. PICK p : p = rec
      OBVIOUS
    <3>2. PICK c : c = rows[p.row]
      OBVIOUS
    <3>3. /\ p.tok \in Tokens /\ Known(p.tok) /\ p.row \in RowIds
          /\ c = Nothing \/ (c \in Tokens /\ Known(c))
          /\ MayOverwrite(p, c)
      BY <2>2, <3>1, <3>2 DEF Planned, Known, Overwrites, MayOverwrite
    <3>4. MayOverwrite(p, c)'
      BY <1>1, <3>3
    <3>5. CASE rows'[p.row] = c
      BY <2>2, <3>1, <3>4, <3>5 DEF MayOverwrite, Identity
    <3>6. CASE Stores(p.row)
      <4>1. rows'[p.row] = Rotated(c) /\ c \in Tokens
        BY <3>2, <3>6 DEF Stores, RowStore
      <4>2. Rotated(c) \in Tokens
        BY <3>2, <3>6, NewIsUnknown DEF Stores, NewToken, Custody
      <4>3. Identity(Rotated(c))' = Identity(c)'
        BY <4>1, TokenShape DEF Identity
      <4> QED BY <2>2, <3>1, <3>4, <4>1, <4>2, <4>3, TokenShape DEF MayOverwrite, Identity
    <3>7. ~Copies(p.row) /\ ~Removes(p.row)
      BY <1>5, <2>2 DEF Copies, Removes, RemoveRow, Planned
    <3> QED BY <3>2, <3>3, <3>5, <3>6, <3>7, RowChange DEF Custody
  <2> QED BY <1>2, <1>5, <2>1, <2>2, RunChange DEF Planned, ConfirmSlot
<1> QED BY <1>3, <1>4, <1>5 DEF Overwrites

(* Who writes the slot, and what makes a locked read of it valid again.     *)
LEMMA SlotWriters ==
    ASSUME TypeOK, [Next]_vars
    PROVE  /\ slot' = slot \/ SlotPersist \/ PutPlaceholder \/ Environment
           /\ Environment => raced'
           /\ rpc' = "put" => LastRead \/ (rpc = "put" /\ rec' = rec)
<1>1. CASE Beginning
  BY <1>1 DEF Beginning, StartRun, Plan, PlanGate, PlanRefused, PlanNothing, PlanFresh,
     PlanFinish, PlanResume, PlanAmbiguous, PlanDropRecord, Planning, EndRun, Restart, Environment,
     HostLogin, HostLogout, HostWritesBack, OtherStoreTransfers, HostWrites
<1>2. CASE Copying
  BY <1>2 DEF Copying, writeRecord, legacyLeaseActive, ConfirmSlot, applyToRow, verifyRow, Goto,
     Restart, EndRun, Environment, HostLogin, HostLogout, HostWritesBack, OtherStoreTransfers,
     HostWrites
<1>3. CASE Finishing
  BY <1>3 DEF Finishing, FenceRead, ClearAndRestart, LastRead, PutPlaceholder, ReadBack,
     FinishTransfer, StopRun, Goto, Restart, EndRun, Environment, HostLogin, HostLogout,
     HostWritesBack, OtherStoreTransfers, HostWrites
<1>4. CASE Undoing
  BY <1>4 DEF Undoing, DisableRow, RemoveRow, RollbackRecord, RollbackShield, RepairShield, Goto,
     EndRun, Environment, HostLogin, HostLogout, HostWritesBack, OtherStoreTransfers, HostWrites
<1>5. CASE SlotRefresh
  BY <1>5 DEF SlotRefresh, SlotLock, SlotStep, SlotReclaim, SlotKeepRecord, SlotLease, SlotSend,
     SlotRefused, SlotClear, SlotFail, SlotCrash, LeaseExpires, RecordExpires, SlotPersist,
     Environment, HostLogin, HostLogout, HostWritesBack, OtherStoreTransfers, HostWrites
<1>6. CASE RowRefresh
  BY <1>6 DEF RowRefresh, PoolRowStart, LegacyRowStart, StartRow, EnableRow, RowStep, RowSend,
     RowRefused, RowStore, RowFail, Environment, HostLogin, HostLogout, HostWritesBack,
     OtherStoreTransfers, HostWrites
<1>7. CASE Environment
  BY <1>7 DEF Environment, HostLogin, HostLogout, HostWritesBack, OtherStoreTransfers,
     HostWrites
<1>8. CASE UNCHANGED vars /\ ~Environment
  BY <1>8, Unchanged
<1> QED BY StepCases, <1>1, <1>2, <1>3, <1>4, <1>5, <1>6, <1>7, <1>8

(* A read made under the lock is forgotten only by the host's own writes.   *)
LEMMA RacedChange ==
    ASSUME TypeOK, [Next]_vars, ~raced' PROVE ~raced \/ LastRead \/ SlotLock
<1>1. CASE Beginning
  BY <1>1, Zenon DEF Beginning, StartRun, Plan, PlanGate, PlanRefused, PlanNothing, PlanFresh,
     PlanFinish, PlanResume, PlanAmbiguous, PlanDropRecord, Planning
<1>2. CASE Copying
  BY <1>2, Zenon DEF Copying, writeRecord, legacyLeaseActive, ConfirmSlot, applyToRow, verifyRow
<1>3. CASE Finishing
  BY <1>3, Zenon DEF Finishing, FenceRead, ClearAndRestart, PutPlaceholder, ReadBack,
     FinishTransfer, StopRun
<1>4. CASE Undoing
  BY <1>4, Zenon DEF Undoing, DisableRow, RemoveRow, RollbackRecord, RollbackShield, RepairShield
<1>5. CASE SlotRefresh
  BY <1>5, Zenon DEF SlotRefresh, SlotStep, SlotReclaim, SlotKeepRecord, SlotLease, SlotSend,
     SlotRefused, SlotPersist, SlotClear, SlotFail, SlotCrash, LeaseExpires, RecordExpires
<1>6. CASE RowRefresh
  BY <1>6, Zenon DEF RowRefresh, PoolRowStart, LegacyRowStart, StartRow, EnableRow, RowStep, RowSend,
     RowRefused, RowStore, RowFail
<1>7. CASE Environment
  BY <1>7, Zenon DEF Environment, HostLogin, HostLogout, HostWritesBack, OtherStoreTransfers,
     HostWrites
<1>8. CASE UNCHANGED vars
  BY <1>8, Zenon
<1> QED BY StepCases, <1>1, <1>2, <1>3, <1>4, <1>5, <1>6, <1>7, <1>8

LEMMA ReadsHoldStep == ASSUME Custody, ReadsHold, [Next]_vars PROVE ReadsHold'
<1> TypeOK
  BY DEF Custody, TInv
<1> USE Shape
<1> SUFFICES ASSUME ~raced'
             PROVE  /\ spc' \in {"reclaim", "lease", "send", "persist"} => slot' = stok'
                    /\ rpc' = "put" => slot' = rec'.tok
  BY DEF ReadsHold
<1>1. CASE LastRead
  <2>1. spc = "idle" /\ spc' = spc
    BY <1>1 DEF LastRead, Custody, Locks
  <2>2. rpc' = "put" => slot' = rec'.tok
    BY <1>1 DEF LastRead, Goto, EndRun
  <2> QED BY <2>1, <2>2
<1>2. CASE SlotLock
  <2>1. rpc' = rpc /\ rpc # "put" /\ slot' = slot /\ stok' = slot
    BY <1>2 DEF SlotLock, Custody, Locks
  <2> QED BY <2>1
<1>3. CASE ~raced /\ ~LastRead /\ ~SlotLock
  <2>1. slot' = slot \/ SlotPersist \/ PutPlaceholder
    BY <1>3, SlotWriters
  <2>2. ASSUME spc' \in {"reclaim", "lease", "send", "persist"} PROVE slot' = stok'
    <3>1. stok' = stok /\ spc \in {"reclaim", "lease", "send", "persist"}
      BY <1>3, <2>2, SlotRefreshChange DEF SlotReclaim, SlotKeepRecord, SlotLease, SlotSend
    <3>2. ~SlotPersist /\ ~PutPlaceholder
      BY <2>2, <3>1 DEF SlotPersist, PutPlaceholder, Custody, Locks
    <3> QED BY <1>3, <2>1, <3>1, <3>2 DEF ReadsHold
  <2>3. ASSUME rpc' = "put" PROVE slot' = rec'.tok
    <3>1. rpc = "put" /\ rec' = rec
      BY <1>3, <2>3, SlotWriters
    <3>2. ~SlotPersist /\ ~PutPlaceholder
      BY <2>3, <3>1 DEF SlotPersist, PutPlaceholder, Custody, Locks, Goto
    <3> QED BY <1>3, <2>1, <3>1, <3>2 DEF ReadsHold
  <2> QED BY <2>2, <2>3
<1> QED BY <1>1, <1>2, <1>3, RacedChange

KeepsLogin(l) ==
    Held(l) /\ ~Held(l)' => Environment \/ raced \/ Superseded(l) \/ rpc = "rollback"

LEMMA LoginStays ==
    ASSUME Custody, Overwrites, ReadsHold, [Next]_vars, NEW l \in Logins PROVE KeepsLogin(l)
<1> TypeOK /\ TInv
  BY DEF Custody, TInv
<1> USE Shape
<1> SUFFICES ASSUME Held(l), ~Held(l)', ~Environment, ~raced, rpc # "rollback"
             PROVE  Superseded(l)
  BY DEF KeepsLogin
<1>1. ASSUME NEW t \in Tokens, t[1] = l PROVE slot' # t /\ \A r \in RowIds : rows'[r] # t
  BY <1>1, TokenShape DEF Held
<1>2. ASSUME NEW t \in Tokens, t[1] = l, slot = t PROVE FALSE
  <2>1. CASE SlotPersist
    <3>1. stok = slot
      BY <2>1 DEF SlotPersist, ReadsHold
    <3>2. slot' \in Tokens /\ slot'[1] = l
      BY <1>2, <2>1, <3>1, NewIsUnknown, TokenShape DEF SlotPersist, NewToken, Custody
    <3> QED BY <1>1, <3>2
  <2>2. CASE PutPlaceholder
    <3>1. slot = rec.tok /\ rpc = "put" /\ rows' = rows
      BY <2>2 DEF PutPlaceholder, ReadsHold
    <3>2. rows[rec.row] \in Tokens /\ rows[rec.row][1] = l
      BY <1>2, <3>1 DEF Custody, RunSound, Copied, Moved
    <3> QED BY <1>1, <3>1, <3>2
  <2> QED BY <1>1, <1>2, <2>1, <2>2, SlotWriters
<1>3. ASSUME NEW t \in Tokens, t[1] = l, NEW r \in RowIds, rows[r] = t PROVE Superseded(l)
  <2>1. rows'[r] # t
    BY <1>1, <1>3
  <2>2. ~Stores(r)
    BY <1>1, <1>3, NewIsUnknown, TokenShape DEF Stores, NewToken, Custody
  <2>3. ~Removes(r)
    BY DEF Removes, RemoveRow
  <2>4. CASE Copies(r)
    <3>1. /\ rpc = "apply" /\ r = rec.row /\ rows'[r] = rec.tok /\ rec.tok \in Tokens
          /\ rec.op \in Operations /\ rec.op # "add"
      BY <1>3, <2>4 DEF Copies, applyToRow
    <3>2. MayOverwrite(rec, t)
      BY <1>3, <3>1 DEF Overwrites, Planned
    <3>3. rec.op # "rotate"
      BY <1>1, <1>3, <3>1, <3>2 DEF MayOverwrite
    <3>4. Identity(t) = Identity(rec.tok) /\ Identity(t) # Nothing
      BY <3>1, <3>2, <3>3 DEF MayOverwrite, Operations
    <3> QED BY <1>3, <3>1, <3>4 DEF Superseded
  <2> QED BY <1>3, <2>1, <2>2, <2>3, <2>4, RowChange DEF Custody
<1>4. \E t \in Tokens : t[1] = l /\ (slot = t \/ \E r \in RowIds : rows[r] = t)
  BY DEF Held, Tokens
<1> QED BY <1>2, <1>3, <1>4

(* No step of the plugin lets go of a login: it stays in the slot or in a   *)
(* row until the host overwrites it, a newer login of the same account      *)
(* takes its row, or another store took it over.                            *)
THEOREM LoginsKept == Spec => LoginKept
<1> DEFINE Inv == Named /\ Overwrites /\ ReadsHold
<1>1. Init => Inv
  <2> SUFFICES ASSUME Init PROVE Inv
    OBVIOUS
  <2>1. Named
    BY DEF Init, InitAccounts, Named, Identities, NextLogin
  <2> QED BY <2>1 DEF Init, Overwrites, ReadsHold, Planned
<1>2. Custody /\ Inv /\ [Next]_vars => Inv'
  BY NamedStep, OverwritesStep, ReadsHoldStep
<1>3. Custody /\ Inv /\ [Next]_vars =>
        [\A l \in Logins : Held(l) /\ ~Held(l)' =>
              Environment \/ raced \/ Superseded(l) \/ rpc = "rollback"]_vars
  BY LoginStays DEF KeepsLogin
<1> QED BY <1>1, <1>2, <1>3, CustodyHolds, PTL DEF Spec, LoginKept
=============================================================================
