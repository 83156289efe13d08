---------------------------- MODULE RequestProofs ----------------------------
(***************************************************************************)
(* Proofs about the account pool as a request of one process meets it: the *)
(* rows and readings of AccountSource, and the sends, holds and pins of    *)
(* PoolRequest.                                                            *)
(***************************************************************************)
EXTENDS AccountSource, PoolRequest, FilterProofs, FiniteSetTheorems, TLAPS

(***************************************************************************)
(* AccountSource: types                                                    *)
(***************************************************************************)
Logins == Nat \X Identities

Creds == [epoch : Nat, stamp : Nat, login : Identities, who : Identities]

Readings == [at : Nat, of : SUBSET Identities]

PoolRows == [epoch : Nat, who : Identities, on : BOOLEAN, torn : BOOLEAN,
             reading : Readings, cred : Creds]

Observations == [key : Logins, reading : Readings]

Refreshes ==
    [step : {"start", "failed"}, before : Nat \X Nat]
        \cup [step : {"asked", "contradicted", "failed"}, before : Nat \X Nat, epoch : Nat]
        \cup [step : {"rotated"}, before : Nat \X Nat, epoch : Nat, cred : Creds]

Polls == [step : {"asked"}] \cup [step : {"polling"}, key : Logins, of : SUBSET Identities]

RowTypes ==
    /\ file \in PoolRows
    /\ snap \in [row : PoolRows, active : BOOLEAN]
    /\ reads \in Seq([row : PoolRows, ready : BOOLEAN] \cup {Nil})
    /\ ready \in BOOLEAN

TokenTypes ==
    /\ rotated \in [epoch : Nat, cred : Creds] \cup {Nil}
    /\ refresh \in Refreshes \cup {Nil}
    /\ sent \in Creds \cup {Nil}
    /\ source \in Sources

QuotaTypes ==
    /\ pendingObs \subseteq Observations
    /\ writes \in Seq(Observations)
    /\ poll \in Polls \cup {Nil}
    /\ seen \in [key : Logins, at : Nat] \cup {Nil}
    /\ taken \in Nat /\ aged \in Nat

SourceTypes == RowTypes /\ TokenTypes /\ QuotaTypes

(* The logins this process and the files know of                            *)
ReadRows == {reads[i].row : i \in {j \in DOMAIN reads : reads[j] # Nil}}

LoginOf(cred) == <<cred.epoch, cred.login>>

LoginsOf(row) == {KeyOf(row), LoginOf(row.cred)}

Known(s) ==
    \/ s \in LoginsOf(file) \cup LoginsOf(snap.row)
    \/ \E row \in ReadRows : s \in LoginsOf(row)
    \/ rotated # Nil /\ s = LoginOf(rotated.cred)
    \/ refresh # Nil /\ refresh.step = "rotated" /\ s = LoginOf(refresh.cred)
    \/ source = "opencode" /\ sent # Nil /\ s = LoginOf(sent)

(* One account signed in to each of them, and the files hold the last one.   *)
LoginsAgree ==
    /\ \A s \in Logins : Known(s) => s[1] <= file.cred.epoch
    /\ \A s, t \in Logins : Known(s) /\ Known(t) /\ s[1] = t[1] => s = t

(* A refresh under way is of the login the locked row holds.                 *)
RefreshOfLogin ==
    /\ RowLocked => refresh.epoch = file.epoch /\ ~file.torn
    /\ refresh # Nil /\ refresh.step = "rotated" => refresh.cred.epoch = refresh.epoch
    /\ rotated # Nil => rotated.cred.epoch = rotated.epoch

(* Only a sign-in that was interrupted parts a row from its credential.      *)
FileRowWhole(row) ==
    IF row.torn THEN row.cred.epoch > row.epoch ELSE row.cred.epoch = row.epoch

RowsWhole ==
    /\ FileRowWhole(file)
    /\ \A row \in ReadRows : FileRowWhole(row)
    /\ source = "opencode" =>
         IF snap.row.torn THEN snap.row.cred.epoch >= snap.row.epoch
         ELSE snap.row.cred.epoch = snap.row.epoch

(* The order the files pass through: a login is never undone, and a torn     *)
(* row is whole again only under the next one.                               *)
Before(row, later) ==
    row.epoch < later.epoch \/ (row.epoch = later.epoch /\ (row.torn => later.torn))

ReadsInOrder ==
    /\ Before(snap.row, file)
    /\ \A row \in ReadRows : Before(row, file)
    /\ \A i, j \in DOMAIN reads :
         i < j /\ reads[i] # Nil /\ reads[j] # Nil => Before(reads[i].row, reads[j].row)

(* No row that is read from now on is whole under a login of this epoch.     *)
NotWholeAt(row, epoch) == row.epoch # epoch \/ row.torn

Gone(epoch) ==
    /\ Before([epoch |-> epoch, torn |-> TRUE], file)
    /\ NotWholeAt(snap.row, epoch)
    /\ \A row \in ReadRows : NotWholeAt(row, epoch)

SentBefore ==
    source = "opencode" /\ sent # Nil =>
        /\ sent.epoch <= file.epoch
        /\ snap.row.torn /\ sent.epoch > snap.row.epoch => Gone(snap.row.epoch)

(* What an observation says holds for the account it is kept under, or for   *)
(* no row that is left.                                                      *)
ObservationIsOwn(p) == p.key[2] \in p.reading.of \/ Gone(p.key[1])

ReadingsAreOwn ==
    source = "opencode" =>
        /\ ReadingIsOwn(file)
        /\ ~snap.row.torn => ReadingIsOwn(snap.row)
        /\ \A row \in ReadRows : ReadingIsOwn(row)
        /\ \A p \in pendingObs : ObservationIsOwn(p)
        /\ \A k \in DOMAIN writes : ObservationIsOwn(writes[k])
        /\ poll # Nil /\ poll.step = "polling" => poll.key[2] \in poll.of

(* No reading is of the future, and the last one taken is not forgotten and, *)
(* while it is not too old, shows.                                           *)
ReadingsSoFar ==
    /\ file.reading.at <= taken /\ snap.row.reading.at <= taken
    /\ \A row \in ReadRows : row.reading.at <= taken
    /\ \A p \in pendingObs : p.reading.at <= taken
    /\ \A k \in DOMAIN writes : writes[k].reading.at <= taken

LastIsPending ==
    seen # Nil =>
        /\ \E p \in pendingObs : p.key = seen.key /\ p.reading.at = seen.at
        /\ seen.key = KeyOf(snap.row) /\ seen.at > aged => snap.row.reading.at >= seen.at

(* The row a request of Pi was routed with carries its credential.           *)
HeldTypes ==
    /\ held \in [key : Logins, cred : Creds \cup {Nil}] \cup {Nil}
    /\ phase # "idle" => held # Nil
    /\ source = "pi" /\ held # Nil => held.cred # Nil

SourceInv ==
    /\ SourceTypes /\ LoginsAgree /\ RefreshOfLogin /\ RowsWhole /\ ReadsInOrder
    /\ SentBefore /\ ReadingsAreOwn /\ ReadingsSoFar /\ LastIsPending

(***************************************************************************)
(* AccountSource: lemmas about the rows                                     *)
(***************************************************************************)
LEMMA SourceInitial == SourceInit => SourceInv
<1> SUFFICES ASSUME SourceInit PROVE SourceInv
  OBVIOUS
<1>1. PICK who \in Identities : file = Row(who)
  BY Zenon DEF SourceInit
<1>2. /\ file \in PoolRows /\ file.epoch = 1 /\ file.who = who /\ ~file.torn
      /\ file.reading = NoReading /\ file.cred.epoch = 1 /\ file.cred.login = who
  BY <1>1 DEF Row, PoolRows, NoReading, Readings, Creds
<1>3. /\ snap = [row |-> file, active |-> FALSE] /\ reads = <<>> /\ rotated = Nil
      /\ pendingObs = {} /\ writes = <<>> /\ refresh = Nil /\ poll = Nil
      /\ sent = Nil /\ seen = Nil /\ taken = 0 /\ aged = 0
      /\ ready \in BOOLEAN /\ source \in Sources
  BY DEF SourceInit
<1>4. ReadRows = {}
  BY <1>3 DEF ReadRows
<1>5. SourceTypes
  BY <1>2, <1>3 DEF SourceTypes, RowTypes, TokenTypes, QuotaTypes
<1>6. LoginsAgree
  BY <1>2, <1>3, <1>4 DEF LoginsAgree, Known, LoginsOf, LoginOf, KeyOf
<1>7. RefreshOfLogin /\ RowsWhole
  BY <1>2, <1>3, <1>4 DEF RefreshOfLogin, RowLocked, RowsWhole, FileRowWhole
<1>8. ReadsInOrder /\ SentBefore
  BY <1>2, <1>3, <1>4 DEF ReadsInOrder, Before, SentBefore
<1>9. ReadingsAreOwn /\ ReadingsSoFar /\ LastIsPending
  BY <1>2, <1>3, <1>4
  DEF ReadingsAreOwn, ReadingIsOwn, ReadingsSoFar, LastIsPending, NoReading
<1> QED BY <1>5, <1>6, <1>7, <1>8, <1>9 DEF SourceInv

LEMMA NilIsNoRecord ==
    /\ \A c \in Creds : c # Nil
    /\ \A r \in [epoch : Nat, cred : Creds] : r # Nil
    /\ \A r \in Refreshes : r # Nil
    /\ \A c \in [row : PoolRows, ready : BOOLEAN] : c # Nil
    /\ \A p \in Polls : p # Nil
    /\ \A k \in [key : Logins, at : Nat] : k # Nil
<1>1. DOMAIN Nil = {}
  BY DEF Nil
<1> QED BY <1>1, Zenon DEF Creds, Refreshes, Polls

LEMMA ReadRowTypes ==
    ASSUME RowTypes
    PROVE  ReadRows \subseteq PoolRows
  BY DEF RowTypes, ReadRows

(* The newest of some readings is one of them.                              *)
LEMMA NewestIsOne ==
    ASSUME NEW S, S # {}, S \subseteq Readings, NEW n \in Nat, \A r \in S : r.at <= n
    PROVE  Newest(S) \in S /\ \A r \in S : r.at <= Newest(S).at
<1> DEFINE Times == {r.at : r \in S}
<1>1. Times \subseteq Nat /\ Times # {} /\ \A t \in Times : t <= n
  BY DEF Readings
<1>2. PICK m \in Times : \A t \in Times : t <= m
  <2> HIDE DEF Times
  <2> QED BY <1>1, GreatestMember
<1>3. \E r \in S : \A s \in S : s.at <= r.at
  BY <1>2
<1> QED BY <1>3, Zenon DEF Newest

LEMMA MergedRow ==
    ASSUME NEW row \in PoolRows, NEW r \in Readings
    PROVE  /\ mergePoolObservation(row, r) \in PoolRows
           /\ mergePoolObservation(row, r).epoch = row.epoch
           /\ mergePoolObservation(row, r).who = row.who
           /\ mergePoolObservation(row, r).on = row.on
           /\ mergePoolObservation(row, r).torn = row.torn
           /\ mergePoolObservation(row, r).cred = row.cred
           /\ mergePoolObservation(row, r).reading
                = IF r.at > row.reading.at THEN r ELSE row.reading
<1>1. Newer(row.reading, r) \in Readings
  BY DEF Newer, PoolRows
<1> QED BY <1>1 DEF mergePoolObservation, PoolRows, Newer

(* What a read makes of a row of the files                                  *)
LEMMA LocalRow ==
    ASSUME NEW row \in PoolRows, row.reading.at <= taken,
           SourceTypes, \A p \in pendingObs : p.reading.at <= taken
    PROVE  /\ withLocalState(row) \in PoolRows
           /\ withLocalState(row).epoch = row.epoch
           /\ withLocalState(row).who = row.who
           /\ withLocalState(row).torn = row.torn
           /\ withLocalState(row).cred = IF InForce(row) THEN rotated.cred ELSE row.cred
           /\ withLocalState(row).reading \in {row.reading} \cup CarriedOnto(row)
           /\ row.reading.at <= withLocalState(row).reading.at
           /\ \A p \in pendingObs :
                Carried(p, row) => p.reading.at <= withLocalState(row).reading.at
<1> DEFINE base == IF InForce(row) THEN [row EXCEPT !.cred = rotated.cred] ELSE row
           S == {base.reading} \cup CarriedOnto(base)
<1>1. InForce(row) => rotated # Nil /\ rotated.cred \in Creds
  BY DEF InForce, rotationStands, piRotationStands, SourceTypes, TokenTypes
<1>2. /\ base \in PoolRows /\ base.epoch = row.epoch /\ base.who = row.who
      /\ base.torn = row.torn /\ base.reading = row.reading
      /\ base.cred = IF InForce(row) THEN rotated.cred ELSE row.cred
  <2>1. CASE InForce(row)
    BY <1>1, <2>1 DEF PoolRows
  <2>2. CASE ~InForce(row)
    BY <2>2
  <2> QED BY <2>1, <2>2
<1>3. CarriedOnto(base) = CarriedOnto(row)
  BY <1>2, Zenon DEF CarriedOnto, Carried, KeyOf
<1>4. S \subseteq Readings /\ S # {} /\ \A r \in S : r.at <= taken
  BY <1>2 DEF CarriedOnto, SourceTypes, QuotaTypes, Observations, PoolRows
<1>5. taken \in Nat
  BY DEF SourceTypes, QuotaTypes
<1>6. Newest(S) \in S /\ \A r \in S : r.at <= Newest(S).at
  <2> HIDE DEF S
  <2> QED BY <1>4, <1>5, NewestIsOne
<1>7. withLocalState(row) = mergePoolObservation(base, Newest(S))
  BY DEF withLocalState, applyPendingPoolObservations
<1>8. \A p \in pendingObs : Carried(p, row) => p.reading \in S
  BY <1>3 DEF CarriedOnto
<1>9. row.reading \in S /\ S = {row.reading} \cup CarriedOnto(row)
  BY <1>2, <1>3
<1> HIDE DEF base, S
<1>10. Newest(S) \in Readings
  BY <1>4, <1>6
<1>11. row.reading.at \in Nat /\ Newest(S).at \in Nat
  BY <1>10 DEF PoolRows, Readings
<1>12. withLocalState(row).reading = IF Newest(S).at > row.reading.at THEN Newest(S) ELSE row.reading
  BY <1>2, <1>7, <1>10, MergedRow
<1>13. withLocalState(row).reading \in S /\ withLocalState(row).reading.at = Newest(S).at
  BY <1>6, <1>9, <1>11, <1>12
<1>14. /\ withLocalState(row) \in PoolRows
       /\ withLocalState(row).epoch = row.epoch
       /\ withLocalState(row).who = row.who
       /\ withLocalState(row).torn = row.torn
       /\ withLocalState(row).cred = IF InForce(row) THEN rotated.cred ELSE row.cred
  BY <1>2, <1>7, <1>10, MergedRow
<1> QED BY <1>6, <1>8, <1>9, <1>13, <1>14

(***************************************************************************)
(* AccountSource: its steps                                                 *)
(***************************************************************************)
USE DEF files, tokens, polls, request, writing, world, clocks

(* Steps that move a refresh or a poll along, and nothing else of the rows   *)
Moves ==
    /\ UNCHANGED <<file, snap, reads, rotated, sent, pendingObs, writes, seen, taken, source>>
    /\ ready' \in BOOLEAN
    /\ aged' \in Nat /\ aged <= aged'
    /\ refresh' \in Refreshes \cup {Nil}
    /\ \/ refresh' = refresh
       \/ refresh'.step \in {"start", "failed"}
       \/ refresh'.step = "asked" /\ refresh'.epoch = file.epoch /\ ~file.torn
    /\ poll' \in Polls \cup {Nil}
    /\ poll' \in {poll, Nil} \/ poll'.step = "asked"

LEMMA PollAsked ==
    ASSUME QuotaTypes, requestReading
    PROVE  poll' \in Polls \cup {Nil} /\ (poll' = poll \/ poll'.step = "asked")
  BY DEF QuotaTypes, requestReading, Polls

LEMMA RefreshStarts ==
    ASSUME SourceTypes, StartRefresh(snap.row)
    PROVE  /\ refresh' \in Refreshes \cup {Nil}
           /\ refresh' = refresh \/ refresh'.step = "start"
<1>1. TokenOf(snap.row.cred) \in Nat \X Nat
  BY DEF SourceTypes, RowTypes, PoolRows, Creds, TokenOf
<1>2. [step |-> "start", before |-> TokenOf(snap.row.cred)] \in Refreshes
  BY <1>1 DEF Refreshes
<1> QED BY <1>2, Zenon DEF StartRefresh, SourceTypes, TokenTypes

LEMMA RefreshFails ==
    ASSUME TokenTypes, refresh # Nil, refresh.step \in {"start", "asked"}
    PROVE  /\ [refresh EXCEPT !.step = "failed"] \in Refreshes
           /\ [refresh EXCEPT !.step = "failed"].step = "failed"
  BY DEF TokenTypes, Refreshes

LEMMA SourceSteps ==
    ASSUME SourceTypes, [SourceNext]_sourceVars
    PROVE  \/ Moves \/ startRead
           \/ \E i \in DOMAIN reads : read(i) \/ FailRead(i)
           \/ accessFor
           \/ RowLocked /\ ~enrolled /\ Rotated
           \/ Contradicted \/ OtherRefresh \/ runRefresh
           \/ recordSnapshot \/ WriteQuota \/ coalescedPull \/ pull
           \/ Relogin \/ Switch
<1> USE DEF SourceTypes
<1>14. aged \in Nat /\ aged <= aged
  BY DEF QuotaTypes
<1>1. ASSUME UNCHANGED <<file, snap, reads, rotated, sent, pendingObs, writes, seen, taken,
                        source, ready, refresh, poll>>,
             aged' \in Nat, aged <= aged'
      PROVE  Moves
  BY <1>1 DEF Moves, RowTypes, TokenTypes, QuotaTypes
<1>2. CASE UNCHANGED sourceVars
  BY <1>1, <1>2 DEF sourceVars, QuotaTypes
<1>3. CASE dispose \/ Close \/ Enroll \/ RunOut \/ BackoffEnds
  BY <1>1, <1>3 DEF dispose, Close, Enroll, RunOut, BackoffEnds, QuotaTypes
<1>13. CASE Ages
  BY <1>1, <1>13 DEF Ages, QuotaTypes
<1>4. CASE initialize \/ Migrated
  BY <1>4, <1>14, Zenon DEF Moves, initialize, Migrated, RowTypes, TokenTypes, QuotaTypes
<1>5. CASE prepareTokens \/ piRefreshDueTokens \/ refreshDueTokens
  BY <1>5, RefreshStarts
  DEF Moves, prepareTokens, piRefreshDueTokens, refreshDueTokens, RowTypes, QuotaTypes
<1>6. CASE pollRows
  BY <1>6, RefreshStarts, PollAsked DEF Moves, pollRows, RowTypes, QuotaTypes
<1>7. CASE AskReading
  BY <1>7, PollAsked DEF Moves, AskReading, RowTypes, TokenTypes, QuotaTypes
<1>8. CASE onPullFailure
  BY <1>8 DEF Moves, onPullFailure, RowTypes, TokenTypes, QuotaTypes
<1>9. CASE RefreshRefused
  BY <1>9, RefreshFails DEF Moves, RefreshRefused, RowLocked, RowTypes, QuotaTypes
<1>10. CASE AskProvider
  <2>1. refresh # Nil /\ refresh.step = "start" /\ refresh \in Refreshes
    BY <1>10 DEF AskProvider, TokenTypes
  <2>2. refresh.before \in Nat \X Nat /\ file.epoch \in Nat
    BY <2>1 DEF Refreshes, RowTypes, PoolRows
  <2>3. [step |-> "asked", before |-> refresh.before, epoch |-> file.epoch] \in Refreshes
    BY <2>2 DEF Refreshes
  <2> QED
    BY <1>10, <2>1, <2>3, RefreshFails
    DEF Moves, AskProvider, candidate, RowTypes, TokenTypes, QuotaTypes
<1>11. CASE Rotated /\ enrolled
  BY <1>11, <1>14, RefreshFails DEF Moves, Rotated, RowLocked, RowTypes, QuotaTypes
<1>12. Rotated => RowLocked
  BY DEF Rotated
<1> QED
  BY <1>2, <1>3, <1>4, <1>5, <1>6, <1>7, <1>8, <1>9, <1>10, <1>11, <1>12, <1>13,
     Zenon
  DEF SourceNext, Step

(* Steps that bring no new login keep the logins in agreement.              *)
LEMMA AgreeStays ==
    ASSUME SourceTypes, SourceTypes', LoginsAgree,
           \A s \in Logins : Known(s)' => Known(s),
           file.cred.epoch <= file.cred'.epoch
    PROVE  LoginsAgree'
<1>1. file.cred.epoch \in Nat /\ file.cred'.epoch \in Nat
  BY DEF SourceTypes, RowTypes, PoolRows, Creds
<1>2. ASSUME NEW s \in Logins, Known(s)' PROVE s[1] <= file.cred'.epoch
  <2>1. s[1] <= file.cred.epoch /\ s[1] \in Nat
    BY <1>2 DEF LoginsAgree, Logins
  <2> QED BY <2>1, <1>1
<1>3. ASSUME NEW s \in Logins, NEW t \in Logins, Known(s)', Known(t)', s[1] = t[1]
      PROVE  s = t
  BY <1>3, Zenon DEF LoginsAgree
<1> HIDE DEF Known
<1> QED BY <1>2, <1>3 DEF LoginsAgree

LEMMA MovesStep == ASSUME SourceInv, Moves PROVE SourceInv'
<1> USE DEF SourceInv
<1>1. SourceTypes'
  BY DEF Moves, SourceTypes, RowTypes, TokenTypes, QuotaTypes
<1>2. ReadRows' = ReadRows /\ LoginsOf(file)' = LoginsOf(file)
        /\ LoginsOf(snap.row)' = LoginsOf(snap.row)
  BY DEF Moves, ReadRows, LoginsOf, KeyOf, LoginOf
<1>3. LoginsAgree'
  <2>1. \A s \in Logins : Known(s)' => Known(s)
    BY <1>2, Zenon DEF Moves, Known, LoginsOf, LoginOf, KeyOf
  <2>2. file.cred.epoch <= file.cred'.epoch
    BY DEF Moves, SourceTypes, RowTypes, PoolRows, Creds
  <2> QED BY <1>1, <2>1, <2>2, AgreeStays
<1>4. RefreshOfLogin'
  BY DEF RefreshOfLogin, Moves, RowLocked
<1>5. RowsWhole' /\ ReadsInOrder'
  BY <1>2 DEF RowsWhole, ReadsInOrder, Before, FileRowWhole, Moves
<1>6. \A epoch : Gone(epoch) => Gone(epoch)'
  BY <1>2 DEF Gone, Before, NotWholeAt, Moves
<1>7. SentBefore'
  BY <1>6 DEF SentBefore, Moves
<1>8. ReadingsAreOwn'
  BY <1>2, <1>6 DEF ReadingsAreOwn, ReadingIsOwn, ObservationIsOwn, Moves
<1>9. ReadingsSoFar' /\ LastIsPending'
  BY <1>2 DEF ReadingsSoFar, LastIsPending, KeyOf, Moves, SourceTypes, QuotaTypes
<1> QED BY <1>1, <1>3, <1>4, <1>5, <1>7, <1>8, <1>9

(* A read that begins sees the files as they are, or reads them later.      *)
LEMMA StartReadStep == ASSUME SourceInv, startRead PROVE SourceInv'
<1> USE DEF SourceInv
<1>1. PICK got \in {Contents, Nil} : reads' = Append(reads, got)
  BY DEF startRead
<1>2. UNCHANGED <<file, ready, snap, rotated, pendingObs, writes, refresh, poll, sent, source,
                  seen, taken, aged>>
  BY DEF startRead
<1>3. Contents \in [row : PoolRows, ready : BOOLEAN] /\ Contents.row = file /\ Contents # Nil
  BY NilIsNoRecord DEF Contents, SourceTypes, RowTypes
<1>4. /\ reads \in Seq([row : PoolRows, ready : BOOLEAN] \cup {Nil})
      /\ reads' \in Seq([row : PoolRows, ready : BOOLEAN] \cup {Nil})
      /\ DOMAIN reads = 1 .. Len(reads) /\ DOMAIN reads' = 1 .. Len(reads) + 1
      /\ \A i \in DOMAIN reads : i < Len(reads) + 1 /\ reads'[i] = reads[i]
      /\ reads'[Len(reads) + 1] = got
  BY <1>1, <1>3 DEF SourceTypes, RowTypes
<1>5. SourceTypes'
  BY <1>2, <1>4 DEF SourceTypes, RowTypes, TokenTypes, QuotaTypes
<1>6. ReadRows' \subseteq ReadRows \cup {file}
  BY <1>3, <1>4 DEF ReadRows
<1>7. LoginsAgree'
  <2>1. \A s \in Logins : Known(s)' => Known(s)
    BY <1>2, <1>6 DEF Known, LoginsOf, KeyOf, LoginOf
  <2>2. file.cred.epoch <= file.cred'.epoch
    BY <1>2 DEF SourceTypes, RowTypes, PoolRows, Creds
  <2> QED BY <1>5, <2>1, <2>2, AgreeStays
<1>8. RefreshOfLogin'
  BY <1>2 DEF RefreshOfLogin, RowLocked
<1>9. RowsWhole'
  BY <1>2, <1>6 DEF RowsWhole, FileRowWhole
<1>10. ReadsInOrder'
  <2>1. Before(snap.row, file)' /\ \A row \in ReadRows' : Before(row, file)'
    BY <1>2, <1>6 DEF ReadsInOrder, Before
  <2>2. ASSUME NEW i \in DOMAIN reads', NEW j \in DOMAIN reads', i < j,
               reads'[i] # Nil, reads'[j] # Nil
        PROVE  Before(reads[i].row, reads[j].row)'
    <3>1. i \in DOMAIN reads /\ reads'[i] = reads[i] /\ reads[i].row \in ReadRows
      BY <1>4, <2>2 DEF ReadRows
    <3>2. CASE j \in DOMAIN reads
      BY <1>4, <2>2, <3>1, <3>2 DEF ReadsInOrder, Before
    <3>3. CASE j \notin DOMAIN reads
      <4>1. reads'[j].row = file
        BY <1>3, <1>4, <2>2, <3>3
      <4> QED BY <3>1, <4>1 DEF ReadsInOrder, Before
    <3> QED BY <3>2, <3>3
  <2> QED BY <2>1, <2>2 DEF ReadsInOrder
<1>11. ASSUME NEW epoch \in Nat, Gone(epoch) PROVE Gone(epoch)'
  <2>1. NotWholeAt(file, epoch)
    BY <1>11 DEF Gone, Before, NotWholeAt, SourceTypes, RowTypes, PoolRows
  <2> QED BY <1>2, <1>6, <1>11, <2>1 DEF Gone, Before, NotWholeAt
<1>12. SentBefore'
  BY <1>2, <1>11 DEF SentBefore, SourceTypes, RowTypes, PoolRows
<1>13. ReadingsAreOwn'
  <2>1. ASSUME NEW p \in Observations, ObservationIsOwn(p) PROVE ObservationIsOwn(p)'
    BY <1>11, <2>1 DEF ObservationIsOwn, Observations, Logins
  <2> QED
    BY <1>2, <1>6, <2>1
    DEF ReadingsAreOwn, ReadingIsOwn, SourceTypes, QuotaTypes
<1>14. ReadingsSoFar' /\ LastIsPending'
  BY <1>2, <1>6 DEF ReadingsSoFar, LastIsPending, KeyOf
<1> QED BY <1>5, <1>7, <1>8, <1>9, <1>10, <1>12, <1>13, <1>14

(* What is left of the reads under way, in their order                      *)
FewerReads ==
    /\ reads' \in Seq([row : PoolRows, ready : BOOLEAN] \cup {Nil})
    /\ ReadRows' \subseteq ReadRows
    /\ \A k, l \in DOMAIN reads' : k < l =>
         \E i, j \in DOMAIN reads : i < j /\ reads'[k] = reads[i] /\ reads'[l] = reads[j]

LEMMA RemovedRead ==
    ASSUME SourceTypes, NEW i \in DOMAIN reads, reads' = RemoveAt(reads, i)
    PROVE  FewerReads
<1> DEFINE Types == [row : PoolRows, ready : BOOLEAN] \cup {Nil}
<1>1. reads \in Seq(Types) /\ i \in 1 .. Len(reads) /\ Len(reads) \in Nat
  BY DEF SourceTypes, RowTypes
<1> HIDE DEF Types
<1> DEFINE early == SubSeq(reads, 1, i - 1)
           late == SubSeq(reads, i + 1, Len(reads))
<1>2. /\ early \in Seq(Types) /\ Len(early) = i - 1
      /\ \A k \in 1 .. i - 1 : early[k] = reads[k]
  BY <1>1
<1>3. /\ late \in Seq(Types) /\ Len(late) = Len(reads) - i
      /\ \A k \in 1 .. Len(reads) - i : late[k] = reads[k + i]
  BY <1>1
<1>4. reads' = early \o late
  BY DEF RemoveAt
<1> HIDE DEF early, late
<1>5. reads' \in Seq(Types) /\ Len(reads') = Len(reads) - 1
  BY <1>1, <1>2, <1>3, <1>4
<1>6. ASSUME NEW k \in 1 .. Len(reads) - 1
      PROVE  reads'[k] = IF k < i THEN reads[k] ELSE reads[k + 1]
  <2>1. reads'[k] = IF k <= Len(early) THEN early[k] ELSE late[k - Len(early)]
    BY <1>1, <1>2, <1>3, <1>4
  <2>2. CASE k < i
    <3>1. k \in 1 .. i - 1 /\ k <= Len(early)
      BY <1>1, <1>2, <2>2
    <3> QED BY <1>2, <2>1, <2>2, <3>1
  <2>3. CASE ~(k < i)
    <3>1. k - (i - 1) \in 1 .. Len(reads) - i /\ ~(k <= Len(early))
      BY <1>1, <1>2, <2>3
    <3>2. late[k - (i - 1)] = reads[k + 1]
      BY <1>1, <1>3, <3>1
    <3> QED BY <1>2, <2>1, <2>3, <3>1, <3>2
  <2> QED BY <2>2, <2>3
<1>7. DOMAIN reads' = 1 .. Len(reads) - 1 /\ DOMAIN reads = 1 .. Len(reads)
  BY <1>1, <1>5
<1>8. ReadRows' \subseteq ReadRows
  <2>1. ASSUME NEW k \in DOMAIN reads' PROVE \E j \in DOMAIN reads : reads'[k] = reads[j]
    <3>1. k \in DOMAIN reads /\ k + 1 \in DOMAIN reads
      BY <1>1, <1>7, <2>1
    <3> QED BY <1>6, <1>7, <3>1, <2>1
  <2> QED BY <2>1 DEF ReadRows
<1>9. ASSUME NEW k \in DOMAIN reads', NEW l \in DOMAIN reads', k < l
      PROVE  \E a, b \in DOMAIN reads : a < b /\ reads'[k] = reads[a] /\ reads'[l] = reads[b]
  <2>1. /\ k \in DOMAIN reads /\ k + 1 \in DOMAIN reads
        /\ l \in DOMAIN reads /\ l + 1 \in DOMAIN reads
    BY <1>1, <1>7, <1>9
  <2>2. CASE l < i
    BY <1>6, <1>7, <1>9, <2>1, <2>2
  <2>3. CASE k < i /\ ~(l < i)
    BY <1>6, <1>7, <1>9, <2>1, <2>3
  <2>4. CASE ~(k < i)
    BY <1>1, <1>6, <1>7, <1>9, <2>1, <2>4
  <2> QED BY <1>1, <1>7, <1>9, <2>2, <2>3, <2>4
<1> QED BY <1>5, <1>8, <1>9 DEF FewerReads, Types

LEMMA LaterReads ==
    ASSUME SourceTypes, NEW i \in DOMAIN reads, reads' = SubSeq(reads, i + 1, Len(reads))
    PROVE  /\ FewerReads
           /\ \A k \in DOMAIN reads' : \E j \in DOMAIN reads : i < j /\ reads'[k] = reads[j]
<1> DEFINE Types == [row : PoolRows, ready : BOOLEAN] \cup {Nil}
<1>1. reads \in Seq(Types) /\ i \in 1 .. Len(reads) /\ Len(reads) \in Nat
  BY DEF SourceTypes, RowTypes
<1> HIDE DEF Types
<1>2. /\ reads' \in Seq(Types) /\ Len(reads') = Len(reads) - i
      /\ \A k \in 1 .. Len(reads) - i : reads'[k] = reads[k + i]
  BY <1>1
<1>3. DOMAIN reads' = 1 .. Len(reads) - i /\ DOMAIN reads = 1 .. Len(reads)
  BY <1>1, <1>2
<1>4. \A k \in DOMAIN reads' : k + i \in DOMAIN reads /\ i < k + i /\ reads'[k] = reads[k + i]
  BY <1>1, <1>2, <1>3
<1>5. ReadRows' \subseteq ReadRows
  BY <1>4 DEF ReadRows
<1>6. ASSUME NEW k \in DOMAIN reads', NEW l \in DOMAIN reads', k < l
      PROVE  \E a, b \in DOMAIN reads : a < b /\ reads'[k] = reads[a] /\ reads'[l] = reads[b]
  <2>1. k + i < l + i
    BY <1>1, <1>3, <1>6
  <2> QED BY <1>4, <2>1
<1> QED BY <1>2, <1>4, <1>5, <1>6 DEF FewerReads, Types

LEMMA FewerReadsOrder ==
    ASSUME FewerReads, ReadsInOrder, file' = file, Before(snap.row, file)'
    PROVE  ReadsInOrder'
<1>1. \A row \in ReadRows' : Before(row, file)'
  BY DEF FewerReads, ReadsInOrder, Before
<1>2. ASSUME NEW k \in DOMAIN reads', NEW l \in DOMAIN reads', k < l,
             reads'[k] # Nil, reads'[l] # Nil
      PROVE  Before(reads[k].row, reads[l].row)'
  <2>1. PICK i \in DOMAIN reads, j \in DOMAIN reads :
               i < j /\ reads'[k] = reads[i] /\ reads'[l] = reads[j]
    BY <1>2 DEF FewerReads
  <2> QED BY <1>2, <2>1 DEF ReadsInOrder, Before
<1> QED BY <1>1, <1>2 DEF ReadsInOrder

(* A read that fails changes nothing but the reads under way.               *)
LEMMA FailReadStep == ASSUME SourceInv, NEW i \in DOMAIN reads, FailRead(i) PROVE SourceInv'
<1> USE DEF SourceInv
<1>1. FewerReads
  BY RemovedRead DEF FailRead
<1>2. UNCHANGED <<file, ready, snap, rotated, pendingObs, writes, refresh, poll, sent, source,
                  seen, taken, aged>>
  BY DEF FailRead
<1>3. SourceTypes'
  BY <1>1, <1>2 DEF FewerReads, SourceTypes, RowTypes, TokenTypes, QuotaTypes
<1>4. ReadRows' \subseteq ReadRows
  BY <1>1 DEF FewerReads
<1>5. LoginsAgree'
  <2>1. \A s \in Logins : Known(s)' => Known(s)
    BY <1>2, <1>4 DEF Known, LoginsOf, KeyOf, LoginOf
  <2>2. file.cred.epoch <= file.cred'.epoch
    BY <1>2 DEF SourceTypes, RowTypes, PoolRows, Creds
  <2> QED BY <1>3, <2>1, <2>2, AgreeStays
<1>6. RefreshOfLogin' /\ RowsWhole'
  BY <1>2, <1>4 DEF RefreshOfLogin, RowLocked, RowsWhole, FileRowWhole
<1>7. ReadsInOrder'
  BY <1>1, <1>2, FewerReadsOrder DEF ReadsInOrder, Before
<1>8. \A epoch : Gone(epoch) => Gone(epoch)'
  BY <1>2, <1>4 DEF Gone, Before, NotWholeAt
<1>9. SentBefore' /\ ReadingsAreOwn'
  BY <1>2, <1>4, <1>8 DEF SentBefore, ReadingsAreOwn, ReadingIsOwn, ObservationIsOwn
<1>10. ReadingsSoFar' /\ LastIsPending'
  BY <1>2, <1>4 DEF ReadingsSoFar, LastIsPending, KeyOf
<1> QED BY <1>3, <1>5, <1>6, <1>7, <1>9, <1>10

(* A read that ends: what it read, with this process's own state, becomes    *)
(* the snapshot, or nothing changes after dispose.                          *)
LEMMA ReadStep == ASSUME SourceInv, NEW i \in DOMAIN reads, read(i) PROVE SourceInv'
<1> USE DEF SourceInv
<1> DEFINE got == IF reads[i] = Nil THEN Contents ELSE reads[i]
           row == got.row
           Keeps == snap' = snap /\ rotated' = rotated
           Takes == /\ snap' = [row |-> withLocalState(row), active |-> got.ready]
                    /\ rotated' = IF got.ready /\ ~InForce(row) THEN Nil ELSE rotated
<1>1. /\ UNCHANGED <<file, ready, pendingObs, writes, refresh, sent, source, seen, taken, aged>>
      /\ reads' = SubSeq(reads, i + 1, Len(reads))
      /\ Keeps \/ Takes
  BY Zenon DEF read
<1>2. QuotaTypes /\ (poll' = poll \/ (poll' \in Polls \cup {Nil} /\ poll'.step = "asked"))
  BY PollAsked DEF read, pollUnseenRows, SourceTypes
<1>3. FewerReads /\ \A k \in DOMAIN reads' : \E j \in DOMAIN reads : i < j /\ reads'[k] = reads[j]
  BY <1>1, LaterReads
<1>4. /\ got \in [row : PoolRows, ready : BOOLEAN] /\ row \in PoolRows
      /\ got.ready \in BOOLEAN
      /\ reads[i] = Nil => row = file
      /\ reads[i] # Nil => row = reads[i].row /\ row \in ReadRows
  BY DEF Contents, SourceTypes, RowTypes, ReadRows
<1> HIDE DEF got
<1>5. row \in ReadRows \cup {file}
  BY <1>4
<1>6. row.reading.at <= taken
  BY <1>5 DEF ReadingsSoFar
<1>7. /\ withLocalState(row) \in PoolRows
      /\ withLocalState(row).epoch = row.epoch
      /\ withLocalState(row).who = row.who
      /\ withLocalState(row).torn = row.torn
      /\ withLocalState(row).cred = IF InForce(row) THEN rotated.cred ELSE row.cred
      /\ withLocalState(row).reading \in {row.reading} \cup CarriedOnto(row)
      /\ row.reading.at <= withLocalState(row).reading.at
      /\ \A p \in pendingObs :
           Carried(p, row) => p.reading.at <= withLocalState(row).reading.at
  BY <1>4, <1>6, LocalRow DEF ReadingsSoFar
<1>8. InForce(row) => rotated # Nil
  BY Zenon DEF InForce, rotationStands, piRotationStands
<1>9. SourceTypes'
  <2>1. rotated' \in [epoch : Nat, cred : Creds] \cup {Nil}
    BY <1>1 DEF SourceTypes, TokenTypes
  <2>2. snap' \in [row : PoolRows, active : BOOLEAN]
    BY <1>1, <1>4, <1>7 DEF SourceTypes, RowTypes
  <2> QED
    BY <1>1, <1>2, <1>3, <2>1, <2>2
    DEF SourceTypes, RowTypes, TokenTypes, QuotaTypes, FewerReads
<1>10. ReadRows' \subseteq ReadRows
  BY <1>3 DEF FewerReads
<1>11. LoginsAgree'
  <2>1. Takes => \A s \in LoginsOf(snap.row)' : Known(s)
    BY <1>5, <1>7, <1>8 DEF Known, LoginsOf, KeyOf, LoginOf
  <2>2. ASSUME NEW s \in Logins, Known(s)' PROVE Known(s)
    <3>1. CASE s \in LoginsOf(snap.row)'
      <4>1. CASE Takes
        BY <2>1, <3>1, <4>1
      <4>2. CASE Keeps
        BY <3>1, <4>2 DEF Known, LoginsOf, KeyOf, LoginOf
      <4> QED BY <1>1, <4>1, <4>2
    <3>2. CASE s \notin LoginsOf(snap.row)'
      <4>1. rotated' # Nil => rotated' = rotated
        BY <1>1
      <4>2. LoginsOf(file)' = LoginsOf(file)
        BY <1>1 DEF LoginsOf, KeyOf, LoginOf
      <4> QED
        BY <1>1, <1>10, <2>2, <3>2, <4>1, <4>2 DEF Known, LoginsOf, KeyOf, LoginOf
    <3> QED BY <3>1, <3>2
  <2>3. file.cred.epoch <= file.cred'.epoch
    BY <1>1 DEF SourceTypes, RowTypes, PoolRows, Creds
  <2> QED BY <1>9, <2>2, <2>3, AgreeStays
<1>12. RefreshOfLogin'
  BY <1>1 DEF RefreshOfLogin, RowLocked
<1>13. RowsWhole'
  <2>1. FileRowWhole(row)
    BY <1>5 DEF RowsWhole
  <2>2. source = "opencode" /\ InForce(row) => rotated.cred.epoch = row.epoch
    BY DEF InForce, rotationStands, RefreshOfLogin
  <2>3. row.epoch \in Nat /\ row.cred.epoch \in Nat
    BY <1>4 DEF PoolRows, Creds
  <2>4. source = "opencode" /\ Takes =>
          IF snap'.row.torn THEN snap'.row.cred.epoch >= snap'.row.epoch
          ELSE snap'.row.cred.epoch = snap'.row.epoch
    BY <1>7, <2>1, <2>2, <2>3 DEF FileRowWhole
  <2> QED BY <1>1, <1>10, <2>4 DEF RowsWhole, FileRowWhole
<1>14. Before(row, file)
  BY <1>5 DEF ReadsInOrder, Before
<1>15. ReadsInOrder'
  <2>1. Before(snap.row, file)'
    BY <1>1, <1>7, <1>14 DEF ReadsInOrder, Before
  <2> QED BY <1>1, <1>3, <2>1, FewerReadsOrder
<1>16. ASSUME NEW epoch \in Nat, Gone(epoch) PROVE Gone(epoch)' /\ NotWholeAt(row, epoch)
  <2>1. NotWholeAt(file, epoch)
    BY <1>16 DEF Gone, Before, NotWholeAt, SourceTypes, RowTypes, PoolRows
  <2>2. NotWholeAt(row, epoch)
    BY <1>5, <1>16, <2>1 DEF Gone
  <2>3. NotWholeAt(snap.row, epoch)'
    BY <1>1, <1>7, <1>16, <2>2 DEF Gone, NotWholeAt
  <2> QED BY <1>1, <1>10, <1>16, <2>2, <2>3 DEF Gone, Before, NotWholeAt
<1>17. SentBefore'
  <2>1. SUFFICES ASSUME source = "opencode", sent # Nil PROVE SentBefore'
    BY <1>1 DEF SentBefore
  <2>2. sent.epoch <= file.epoch
    BY <2>1 DEF SentBefore
  <2>3. CASE Keeps
    <3>1. snap.row.epoch \in Nat
      BY DEF SourceTypes, RowTypes, PoolRows
    <3>2. Gone(snap.row.epoch) => Gone(snap.row.epoch)'
      <4>1. ASSUME NEW e, e = snap.row.epoch, Gone(e) PROVE Gone(e)'
        BY <1>16, <3>1, <4>1
      <4> QED BY <1>1, <2>3, <4>1 DEF Gone, Before, NotWholeAt
    <3> QED BY <1>1, <2>1, <2>2, <2>3, <3>2 DEF SentBefore
  <2>4. CASE Takes
    <3>1. SUFFICES ASSUME row.torn, sent.epoch > row.epoch PROVE Gone(snap.row.epoch)'
      BY <1>1, <1>7, <2>1, <2>2, <2>4 DEF SentBefore
    <3>2. reads[i] # Nil
      <4>1. sent.epoch \in Nat /\ row.epoch \in Nat
        BY <1>4, <2>1 DEF SourceTypes, TokenTypes, PoolRows, Creds
      <4>2. row.epoch # file.epoch
        BY <2>2, <3>1, <4>1
      <4> QED BY <1>4, <4>2
    <3>3. ASSUME NEW r \in ReadRows' PROVE NotWholeAt(r, row.epoch)
      <4>1. PICK k \in DOMAIN reads' : reads'[k] # Nil /\ r = reads'[k].row
        BY <3>3 DEF ReadRows
      <4>2. PICK j \in DOMAIN reads : i < j /\ reads'[k] = reads[j]
        BY <1>3, <4>1
      <4>3. Before(row, r)
        BY <1>4, <3>2, <4>1, <4>2 DEF ReadsInOrder
      <4> QED
        BY <1>4, <1>10, <3>1, <3>3, <4>3, ReadRowTypes
        DEF Before, NotWholeAt, SourceTypes, PoolRows
    <3> QED BY <1>1, <1>7, <1>14, <2>4, <3>1, <3>3 DEF Gone, Before, NotWholeAt
  <2> QED BY <1>1, <2>3, <2>4
<1>18. ReadingsAreOwn'
  <2>1. SUFFICES ASSUME source = "opencode" PROVE ReadingsAreOwn'
    BY <1>1 DEF ReadingsAreOwn
  <2>2. ASSUME NEW p \in Observations, ObservationIsOwn(p) PROVE ObservationIsOwn(p)'
    BY <1>16, <2>2 DEF ObservationIsOwn, Observations, Logins
  <2>3. ASSUME Takes, ~snap'.row.torn PROVE ReadingIsOwn(snap.row)'
    <3>1. CASE withLocalState(row).reading = row.reading
      BY <1>5, <1>7, <2>1, <2>3, <3>1 DEF ReadingsAreOwn, ReadingIsOwn
    <3>2. CASE withLocalState(row).reading # row.reading
      <4>1. PICK p \in pendingObs : Carried(p, row) /\ withLocalState(row).reading = p.reading
        BY <1>7, <3>2 DEF CarriedOnto
      <4>2. p.key[1] = row.epoch /\ p.key[2] = row.who
        BY <4>1 DEF Carried, KeyOf
      <4>3. ~Gone(p.key[1])
        <5>1. p.key[1] \in Nat /\ ~row.torn
          BY <1>4, <1>7, <2>3, <4>2 DEF PoolRows
        <5> QED BY <1>16, <4>2, <5>1 DEF NotWholeAt
      <4>4. p.key[2] \in p.reading.of
        BY <2>1, <4>1, <4>3 DEF ReadingsAreOwn, ObservationIsOwn
      <4> QED BY <1>7, <2>3, <4>1, <4>2, <4>4 DEF ReadingIsOwn
    <3> QED BY <3>1, <3>2
  <2>4. ~snap'.row.torn => ReadingIsOwn(snap.row)'
    BY <1>1, <2>1, <2>3 DEF ReadingsAreOwn, ReadingIsOwn
  <2>5. \A p \in pendingObs' : ObservationIsOwn(p)'
    BY <1>1, <2>1, <2>2 DEF ReadingsAreOwn, SourceTypes, QuotaTypes
  <2>6. \A k \in DOMAIN writes' : ObservationIsOwn(writes[k])'
    <3>1. ASSUME NEW k \in DOMAIN writes PROVE writes[k] \in Observations
      BY DEF SourceTypes, QuotaTypes
    <3> QED BY <1>1, <2>1, <2>2, <3>1 DEF ReadingsAreOwn
  <2>7. ReadingIsOwn(file)' /\ \A r \in ReadRows' : ReadingIsOwn(r)
    BY <1>1, <1>10, <2>1 DEF ReadingsAreOwn, ReadingIsOwn
  <2>8. poll' # Nil /\ poll'.step = "polling" => poll'.key[2] \in poll'.of
    BY <1>2, <2>1 DEF ReadingsAreOwn
  <2> QED BY <2>4, <2>5, <2>6, <2>7, <2>8 DEF ReadingsAreOwn, ReadingIsOwn
<1>19. ReadingsSoFar'
  <2>1. Takes => snap'.row.reading.at <= taken
    BY <1>6, <1>7 DEF CarriedOnto, ReadingsSoFar
  <2> QED BY <1>1, <1>10, <2>1 DEF ReadingsSoFar
<1>20. LastIsPending'
  <2>1. SUFFICES ASSUME seen # Nil, Takes PROVE LastIsPending'
    BY <1>1 DEF LastIsPending
  <2>2. PICK p \in pendingObs : p.key = seen.key /\ p.reading.at = seen.at
    BY <2>1 DEF LastIsPending
  <2>3. seen.key = KeyOf(snap.row)' /\ seen.at > aged => snap'.row.reading.at >= seen.at
    BY <1>7, <2>1, <2>2 DEF Carried, KeyOf
  <2> QED BY <1>1, <2>2, <2>3 DEF LastIsPending
<1> QED BY <1>9, <1>11, <1>12, <1>13, <1>15, <1>17, <1>18, <1>19, <1>20

(* The request and its row                                                   *)
LEMMA HeldStays ==
    ASSUME SourceTypes, HeldTypes, [SourceNext]_sourceVars
    PROVE  HeldTypes'
<1> USE DEF HeldTypes
<1>1. CASE UNCHANGED <<held, phase, source>>
  BY <1>1
<1>2. /\ KeyOf(snap.row) \in Logins /\ snap.row.cred \in Creds
      /\ snap.row.cred # Nil
  BY NilIsNoRecord DEF SourceTypes, RowTypes, PoolRows, KeyOf, Logins
<1>3. /\ [key |-> KeyOf(snap.row), cred |-> Nil] # Nil
      /\ [key |-> KeyOf(snap.row), cred |-> snap.row.cred] # Nil
  <2>1. DOMAIN Nil = {}
    BY DEF Nil
  <2> QED BY <2>1
<1>4. CASE prepareTokens
  BY <1>2, <1>3, <1>4 DEF prepareTokens
<1>5. CASE piRefreshDueTokens
  BY <1>2, <1>3, <1>5 DEF piRefreshDueTokens
<1>6. CASE accessFor
  BY <1>6 DEF accessFor
<1>7. CASE UNCHANGED sourceVars
  BY <1>1, <1>7 DEF sourceVars
<1>8. CASE \/ startRead \/ \E i \in DOMAIN reads : read(i) \/ FailRead(i)
           \/ initialize \/ refreshDueTokens \/ AskProvider \/ Rotated \/ Contradicted
  BY <1>1, <1>8
  DEF startRead, read, FailRead, initialize, refreshDueTokens, AskProvider, Rotated, Contradicted
<1>9. CASE RefreshRefused \/ runRefresh \/ recordSnapshot \/ WriteQuota \/ AskReading \/ pollRows
  BY <1>1, <1>9
  DEF RefreshRefused, runRefresh, recordSnapshot, WriteQuota, AskReading, pollRows
<1>10. CASE \/ coalescedPull \/ pull \/ onPullFailure \/ dispose \/ Close
            \/ OtherRefresh \/ Relogin \/ Switch \/ Migrated \/ Enroll \/ RunOut \/ Ages
            \/ BackoffEnds
  BY <1>1, <1>10
  DEF coalescedPull, pull, onPullFailure, dispose, Close, OtherRefresh, Relogin, Switch,
      Migrated, Enroll, RunOut, Ages, BackoffEnds, Elsewhere
<1> QED
  BY <1>4, <1>5, <1>6, <1>7, <1>8, <1>9, <1>10, Zenon DEF SourceNext, Step

(* A bearer that is sent is of the login the snapshot shows.                 *)
LEMMA AccessStep == ASSUME SourceInv, HeldTypes, accessFor PROVE SourceInv'
<1> USE DEF SourceInv
<1>1. UNCHANGED <<file, ready, snap, reads, rotated, pendingObs, writes, refresh, poll, source,
                  seen, taken, aged>>
  BY DEF accessFor
<1>2. /\ snap.row \in PoolRows /\ snap.row.cred \in Creds /\ file \in PoolRows
      /\ snap.row.epoch \in Nat /\ file.epoch \in Nat
  BY DEF SourceTypes, RowTypes, PoolRows
<1>3. /\ sent' \in Creds \cup {Nil}
      /\ source = "opencode" =>
           sent' = sent \/ (sent' = snap.row.cred /\ ~snap.row.torn)
  <2>1. held # Nil
    BY DEF HeldTypes, accessFor
  <2> QED
    BY <1>2, <2>1
    DEF HeldTypes, accessFor, Bearer, usableToken, candidate, SourceTypes, TokenTypes,
        SourcesAssumption
<1>4. SourceTypes'
  BY <1>1, <1>3 DEF SourceTypes, RowTypes, TokenTypes, QuotaTypes
<1>5. ReadRows' = ReadRows
  BY <1>1 DEF ReadRows
<1>6. LoginsAgree'
  <2>1. \A s \in Logins : Known(s)' => Known(s)
    BY <1>1, <1>3, <1>5 DEF Known, LoginsOf, KeyOf, LoginOf
  <2>2. file.cred.epoch <= file.cred'.epoch
    BY <1>1, <1>2 DEF PoolRows, Creds
  <2> QED BY <1>4, <2>1, <2>2, AgreeStays
<1>7. RefreshOfLogin' /\ RowsWhole' /\ ReadsInOrder'
  BY <1>1, <1>5 DEF RefreshOfLogin, RowLocked, RowsWhole, FileRowWhole, ReadsInOrder, Before
<1>8. \A epoch : Gone(epoch) => Gone(epoch)'
  BY <1>1, <1>5 DEF Gone, Before, NotWholeAt
<1>9. SentBefore'
  <2>1. CASE source = "opencode" /\ sent' = snap.row.cred /\ ~snap.row.torn
    <3>1. snap.row.cred.epoch = snap.row.epoch /\ snap.row.epoch <= file.epoch
      BY <1>2, <2>1 DEF RowsWhole, ReadsInOrder, Before
    <3> QED BY <1>1, <2>1, <3>1 DEF SentBefore
  <2>2. CASE source # "opencode" \/ sent' = sent
    BY <1>1, <1>8, <2>2 DEF SentBefore
  <2> QED BY <1>3, <2>1, <2>2
<1>10. ReadingsAreOwn'
  BY <1>1, <1>5, <1>8 DEF ReadingsAreOwn, ReadingIsOwn, ObservationIsOwn
<1>11. ReadingsSoFar' /\ LastIsPending'
  BY <1>1, <1>5 DEF ReadingsSoFar, LastIsPending, KeyOf
<1> QED BY <1>4, <1>6, <1>7, <1>9, <1>10, <1>11

(* Steps that write the row's login, credential or switch, and leave what    *)
(* this process holds of it alone                                            *)
FileMoves ==
    /\ file' \in PoolRows /\ Before(file, file') /\ FileRowWhole(file')
    /\ file.cred.epoch <= file'.cred.epoch
    /\ \/ file'.reading = NoReading
       \/ file'.reading = file.reading /\ file'.who = file.who
    /\ UNCHANGED <<snap, reads, rotated, sent, pendingObs, writes, seen, taken, aged, source>>

LEMMA FileStep ==
    ASSUME SourceInv, FileMoves, SourceTypes', LoginsAgree', RefreshOfLogin',
           source = "opencode" /\ poll' # Nil /\ poll'.step = "polling"
             => poll'.key[2] \in poll'.of
    PROVE  SourceInv'
<1> USE DEF SourceInv
<1>1. UNCHANGED <<snap, reads, rotated, sent, pendingObs, writes, seen, taken, aged, source>>
  BY DEF FileMoves
<1>2. ReadRows' = ReadRows
  BY <1>1 DEF ReadRows
<1>3. /\ file \in PoolRows /\ file' \in PoolRows /\ file.epoch \in Nat /\ file'.epoch \in Nat
      /\ file.torn \in BOOLEAN /\ file'.torn \in BOOLEAN
  BY DEF FileMoves, SourceTypes, RowTypes, PoolRows
<1>4. RowsWhole'
  BY <1>1, <1>2 DEF RowsWhole, FileRowWhole, FileMoves
<1>5. ASSUME NEW r, r.epoch \in Nat, Before(r, file) PROVE Before(r, file')
  BY <1>3, <1>5 DEF Before, FileMoves
<1>6. ReadsInOrder'
  <2>1. snap.row.epoch \in Nat /\ \A row \in ReadRows : row.epoch \in Nat
    BY ReadRowTypes DEF SourceTypes, RowTypes, PoolRows
  <2>2. Before(snap.row, file') /\ \A row \in ReadRows : Before(row, file')
    BY <1>5, <2>1 DEF ReadsInOrder
  <2>3. \A i, j \in DOMAIN reads :
          i < j /\ reads[i] # Nil /\ reads[j] # Nil => Before(reads[i].row, reads[j].row)
    BY DEF ReadsInOrder
  <2> HIDE DEF Before
  <2> QED BY <1>1, <1>2, <2>2, <2>3 DEF ReadsInOrder, Before
<1>7. ASSUME NEW epoch \in Nat, Gone(epoch) PROVE Gone(epoch)'
  <2>1. Before([epoch |-> epoch, torn |-> TRUE], file')
    BY <1>5, <1>7 DEF Gone
  <2> QED BY <1>1, <1>2, <1>7, <2>1 DEF Gone, NotWholeAt, Before
<1>8. SentBefore'
  <2>1. sent # Nil => sent.epoch \in Nat
    BY DEF SourceTypes, TokenTypes, Creds
  <2>2. file.epoch <= file'.epoch
    BY <1>3 DEF FileMoves, Before
  <2>3. snap.row.epoch \in Nat
    BY DEF SourceTypes, RowTypes, PoolRows
  <2>4. Gone(snap.row.epoch) => Gone(snap.row.epoch)'
    <3>1. ASSUME NEW e, e = snap.row.epoch, Gone(e) PROVE Gone(e)'
      BY <1>7, <2>3, <3>1
    <3> QED BY <1>1, <3>1 DEF Gone, Before, NotWholeAt
  <2> QED BY <1>1, <1>3, <2>1, <2>2, <2>4 DEF SentBefore
<1>9. ReadingsAreOwn'
  <2>1. ASSUME NEW p \in Observations, ObservationIsOwn(p) PROVE ObservationIsOwn(p)'
    BY <1>7, <2>1 DEF ObservationIsOwn, Observations, Logins
  <2>2. source = "opencode" => ReadingIsOwn(file)'
    BY DEF FileMoves, ReadingsAreOwn, ReadingIsOwn
  <2>3. source = "opencode" => \A p \in pendingObs' : ObservationIsOwn(p)'
    BY <1>1, <2>1 DEF ReadingsAreOwn, SourceTypes, QuotaTypes
  <2>4. source = "opencode" => \A k \in DOMAIN writes' : ObservationIsOwn(writes[k])'
    <3>1. ASSUME NEW k \in DOMAIN writes PROVE writes[k] \in Observations
      BY DEF SourceTypes, QuotaTypes
    <3> QED BY <1>1, <2>1, <3>1 DEF ReadingsAreOwn
  <2> QED BY <1>1, <1>2, <2>2, <2>3, <2>4 DEF ReadingsAreOwn, ReadingIsOwn
<1>10. ReadingsSoFar' /\ LastIsPending'
  <2>1. NoReading.at = 0 /\ taken \in Nat
    BY DEF NoReading, SourceTypes, QuotaTypes
  <2> QED BY <1>1, <1>2, <2>1 DEF ReadingsSoFar, LastIsPending, KeyOf, FileMoves
<1> QED BY <1>4, <1>6, <1>8, <1>9, <1>10

(* A write of the row's tokens or switch under the same login.               *)
Rewritten(on, stamp, who) ==
    [file EXCEPT !.on = on, !.cred = [@ EXCEPT !.stamp = stamp, !.who = who]]

LEMMA SameLoginStep ==
    ASSUME SourceInv,
           \E on \in BOOLEAN, stamp \in Nat, who \in Identities : file' = Rewritten(on, stamp, who),
           UNCHANGED <<ready, snap, reads, rotated, sent, pendingObs, writes, seen, taken, aged,
                       source, poll>>,
           refresh' \in Refreshes \cup {Nil},
           \/ refresh' = refresh
           \/ refresh'.step = "contradicted"
           \/ refresh'.step = "rotated" /\ refresh'.cred = file'.cred
                /\ refresh'.epoch = file'.cred.epoch
    PROVE  SourceInv'
<1> USE DEF SourceInv
<1>1. file \in PoolRows /\ file.cred \in Creds
  BY DEF SourceTypes, RowTypes, PoolRows
<1>2. /\ file' \in PoolRows /\ file'.epoch = file.epoch /\ file'.who = file.who
      /\ file'.torn = file.torn /\ file'.reading = file.reading
      /\ file'.cred.epoch = file.cred.epoch /\ file'.cred.login = file.cred.login
  <2>1. PICK on \in BOOLEAN, stamp \in Nat, who \in Identities :
          file' = [file EXCEPT !.on = on, !.cred = [@ EXCEPT !.stamp = stamp, !.who = who]]
    BY DEF Rewritten
  <2>2. [file.cred EXCEPT !.stamp = stamp, !.who = who] \in Creds
    BY <1>1 DEF Creds
  <2>3. /\ [file.cred EXCEPT !.stamp = stamp, !.who = who].epoch = file.cred.epoch
        /\ [file.cred EXCEPT !.stamp = stamp, !.who = who].login = file.cred.login
    BY <1>1 DEF Creds
  <2> QED BY <1>1, <2>1, <2>2, <2>3 DEF PoolRows
<1>3. SourceTypes'
  BY <1>2 DEF SourceTypes, RowTypes, TokenTypes, QuotaTypes
<1>4. ReadRows' = ReadRows /\ LoginsOf(file') = LoginsOf(file)
  BY <1>2 DEF ReadRows, LoginsOf, KeyOf, LoginOf
<1>5. LoginsAgree'
  <2>1. \A s \in Logins : Known(s)' => Known(s)
    BY <1>2, <1>4 DEF Known, LoginsOf, KeyOf, LoginOf
  <2>2. file.cred.epoch <= file.cred'.epoch
    BY <1>1, <1>2 DEF Creds
  <2> QED BY <1>3, <2>1, <2>2, AgreeStays
<1>6. RefreshOfLogin'
  BY <1>2 DEF RefreshOfLogin, RowLocked
<1>7. FileMoves
  BY <1>1, <1>2 DEF FileMoves, Before, FileRowWhole, RowsWhole, Creds
<1>8. source = "opencode" /\ poll' # Nil /\ poll'.step = "polling" => poll'.key[2] \in poll'.of
  BY DEF ReadingsAreOwn
<1> QED BY <1>3, <1>5, <1>6, <1>7, <1>8, FileStep

LEMMA TokenWrites ==
    ASSUME SourceInv,
           \/ RowLocked /\ ~enrolled /\ Rotated
           \/ Contradicted \/ OtherRefresh \/ Switch
    PROVE  SourceInv'
<1> USE DEF SourceInv
<1>1. /\ file \in PoolRows /\ file.cred \in Creds /\ file.who \in Identities
      /\ file.on \in BOOLEAN /\ file.cred.stamp \in Nat /\ file.cred.who \in Identities
      /\ file.epoch \in Nat
  BY DEF SourceTypes, RowTypes, PoolRows, Creds
<1>2. ASSUME NEW who \in Identities
      PROVE  /\ [file EXCEPT !.cred = Rotation(who)]
                  = Rewritten(file.on, file.cred.stamp + 1, who)
             /\ [file EXCEPT !.cred = Rotation(who), !.on = FALSE]
                  = Rewritten(FALSE, file.cred.stamp + 1, who)
  BY <1>1 DEF Rotation, PoolRows, Creds, Rewritten
<1>3. [file EXCEPT !.on = ~@] = Rewritten(~file.on, file.cred.stamp, file.cred.who)
  BY <1>1 DEF PoolRows, Creds, Rewritten
<1>4. file.cred.stamp + 1 \in Nat /\ (~file.on) \in BOOLEAN /\ FALSE \in BOOLEAN
  BY <1>1
<1>5. refresh \in Refreshes \cup {Nil}
  BY DEF SourceTypes, TokenTypes
<1>6. RowLocked => /\ refresh.before \in Nat \X Nat /\ refresh.epoch \in Nat
                   /\ refresh.epoch = file.epoch /\ file.cred.epoch = file.epoch
                   /\ [refresh EXCEPT !.step = "contradicted"] \in Refreshes
                   /\ [refresh EXCEPT !.step = "contradicted"].step = "contradicted"
  BY <1>5 DEF RowLocked, Refreshes, RefreshOfLogin, RowsWhole, FileRowWhole
<1>7. CASE RowLocked /\ ~enrolled /\ Rotated
  <2>1. file' = [file EXCEPT !.cred = Rotation(file.who)]
    BY <1>7 DEF Rotated
  <2>2. /\ Rotation(file.who) \in Creds
        /\ Rotation(file.who).epoch = file.cred.epoch
        /\ file'.cred = Rotation(file.who)
    <3>1. Rotation(file.who) \in Creds
      <4> DEFINE stamp == file.cred.stamp + 1
      <4>1. stamp \in Nat
        BY <1>1
      <4>2. Rotation(file.who) = [file.cred EXCEPT !.stamp = stamp, !.who = file.who]
        BY DEF Rotation
      <4> HIDE DEF stamp
      <4> QED BY <1>1, <4>1, <4>2 DEF Creds
    <3>2. Rotation(file.who).epoch = file.cred.epoch
      BY <1>1 DEF Rotation, Creds
    <3>3. file'.cred = Rotation(file.who)
      BY <1>1, <2>1 DEF PoolRows
    <3> QED BY <3>1, <3>2, <3>3
  <2>3. /\ refresh' \in Refreshes /\ refresh'.step = "rotated"
        /\ refresh'.cred = file'.cred /\ refresh'.epoch = file'.cred.epoch
    <3>1. refresh' = [step |-> "rotated", before |-> refresh.before,
                      epoch |-> refresh.epoch, cred |-> file'.cred]
      BY <1>7 DEF Rotated
    <3> QED BY <1>6, <1>7, <2>2, <3>1 DEF Refreshes
  <2>4. UNCHANGED <<ready, snap, reads, rotated, sent, pendingObs, writes, seen, taken, aged,
                    source, poll>>
    BY <1>7 DEF Rotated
  <2>5. \E on \in BOOLEAN, stamp \in Nat, who \in Identities :
          file' = Rewritten(on, stamp, who)
    BY <1>1, <1>2, <2>1, <1>4, Zenon
  <2> QED BY <2>3, <2>4, <2>5, SameLoginStep
<1>8. CASE Contradicted
  <2>1. PICK who \in Identities : file' = [file EXCEPT !.cred = Rotation(who), !.on = FALSE]
    BY <1>8 DEF Contradicted
  <2>2. refresh' \in Refreshes /\ refresh'.step = "contradicted"
    BY <1>6, <1>8 DEF Contradicted
  <2>3. UNCHANGED <<ready, snap, reads, rotated, sent, pendingObs, writes, seen, taken, aged,
                    source, poll>>
    BY <1>8 DEF Contradicted
  <2>4. \E on \in BOOLEAN, stamp \in Nat, w \in Identities :
          file' = Rewritten(on, stamp, w)
    BY <1>1, <1>2, <2>1, <1>4, Zenon
  <2> QED BY <2>2, <2>3, <2>4, SameLoginStep
<1>9. CASE OtherRefresh \/ Switch
  <2>1. UNCHANGED <<ready, snap, reads, rotated, sent, pendingObs, writes, seen, taken, aged,
                    source, poll, refresh>>
    BY <1>9 DEF OtherRefresh, Switch, Elsewhere
  <2>2. \E on \in BOOLEAN, stamp \in Nat, who \in Identities :
          file' = Rewritten(on, stamp, who)
    <3>1. CASE file' = [file EXCEPT !.cred = Rotation(file.who)]
      BY <1>1, <1>2, <1>4, <3>1, Zenon
    <3>2. CASE file' = [file EXCEPT !.on = ~@]
      <4>1. file' = Rewritten(~file.on, file.cred.stamp, file.cred.who)
        BY <1>3, <3>2, Zenon
      <4> HIDE DEF Rewritten
      <4> QED BY <1>1, <1>4, <4>1
    <3> QED BY <1>9, <3>1, <3>2 DEF OtherRefresh, Switch
  <2> QED BY <1>5, <2>1, <2>2, SameLoginStep
<1> QED BY <1>7, <1>8, <1>9

(* The row is signed in again: a login nobody knew, and the torn row keeps   *)
(* its old account until it is completed.                                    *)
LEMMA ReloginStep == ASSUME SourceInv, Relogin PROVE SourceInv'
<1> USE DEF SourceInv
<1>1. PICK who \in Identities, torn \in BOOLEAN :
        LET login == [file.cred EXCEPT !.epoch = @ + 1, !.login = who, !.who = who]
            row == [file EXCEPT !.cred = login, !.on = TRUE]
        IN  file' = IF torn THEN [row EXCEPT !.torn = TRUE] ELSE Completed(row)
  BY DEF Relogin
<1> DEFINE epoch == file.cred.epoch + 1
           login == [file.cred EXCEPT !.epoch = epoch, !.login = who, !.who = who]
           new == <<epoch, who>>
<1>2. /\ file \in PoolRows /\ file.cred \in Creds /\ file.epoch \in Nat /\ file.cred.epoch \in Nat
      /\ ~file.torn /\ file.cred.epoch = file.epoch
  BY DEF SourceTypes, RowTypes, PoolRows, Creds, Relogin, RowsWhole, FileRowWhole
<1>3. epoch \in Nat /\ epoch > file.cred.epoch /\ epoch > file.epoch
  BY <1>2
<1>4. login \in Creds /\ login.epoch = epoch /\ login.login = who
  <2> HIDE DEF epoch
  <2> QED BY <1>2, <1>3 DEF Creds
<1>5. NoReading \in Readings
  BY DEF NoReading, Readings
<1>6. /\ UNCHANGED <<ready, snap, reads, rotated, sent, pendingObs, writes, seen, taken, aged,
                     source, poll, refresh>>
      /\ ~RowLocked
  BY DEF Relogin, Elsewhere
<1>7. \/ file' = [file EXCEPT !.cred = login, !.on = TRUE, !.torn = TRUE]
      \/ file' = [file EXCEPT !.cred = login, !.on = TRUE, !.torn = FALSE, !.epoch = login.epoch,
                              !.who = login.login, !.reading = NoReading]
  <2>1. CASE torn
    BY <1>1, <1>2, <2>1 DEF PoolRows
  <2>2. CASE ~torn
    BY <1>1, <1>2, <2>2 DEF PoolRows, Completed
  <2> QED BY <2>1, <2>2
<1> HIDE DEF login, epoch
<1>8. /\ file' \in PoolRows /\ file'.cred = login
      /\ \/ file'.torn /\ file'.epoch = file.epoch /\ file'.who = file.who
              /\ file'.reading = file.reading
         \/ ~file'.torn /\ file'.epoch = epoch /\ file'.who = who /\ file'.reading = NoReading
  BY <1>2, <1>3, <1>4, <1>5, <1>7 DEF PoolRows
<1>9. SourceTypes'
  BY <1>6, <1>8 DEF SourceTypes, RowTypes, TokenTypes, QuotaTypes
<1>10. LoginsAgree'
  <2>1. LoginsOf(file') \subseteq LoginsOf(file) \cup {new}
    BY <1>4, <1>8 DEF LoginsOf, KeyOf, LoginOf
  <2>2. ReadRows' = ReadRows
    BY <1>6 DEF ReadRows
  <2>3. \A s \in Logins : Known(s)' => Known(s) \/ s = new
    BY <1>6, <2>1, <2>2 DEF Known, LoginsOf, KeyOf, LoginOf
  <2>4. \A s \in Logins : Known(s) => s[1] <= file.cred.epoch /\ s[1] \in Nat
    BY DEF LoginsAgree, Logins
  <2>5. new[1] = epoch /\ file'.cred.epoch = epoch
    BY <1>4, <1>8
  <2>6. \A s \in Logins : Known(s)' => s[1] <= file'.cred.epoch
    BY <1>2, <1>3, <2>3, <2>4, <2>5
  <2>7. ASSUME NEW s \in Logins, NEW t \in Logins, Known(s)', Known(t)', s[1] = t[1]
        PROVE  s = t
    <3>1. Known(s) => s[1] # new[1]
      BY <1>2, <1>3, <2>4, <2>5
    <3>2. Known(t) => t[1] # new[1]
      BY <1>2, <1>3, <2>4, <2>5
    <3> HIDE DEF new
    <3>3. CASE Known(s) /\ Known(t)
      BY <2>7, <3>3, Zenon DEF LoginsAgree
    <3> HIDE DEF Known
    <3> QED BY <2>3, <2>7, <3>1, <3>2, <3>3
  <2> HIDE DEF Known
  <2> QED BY <2>6, <2>7 DEF LoginsAgree
<1>11. RefreshOfLogin'
  BY <1>6 DEF RefreshOfLogin, RowLocked
<1>12. FileMoves
  BY <1>2, <1>3, <1>4, <1>6, <1>8 DEF FileMoves, Before, FileRowWhole
<1>13. source = "opencode" /\ poll' # Nil /\ poll'.step = "polling" => poll'.key[2] \in poll'.of
  BY <1>6 DEF ReadingsAreOwn
<1> QED BY <1>9, <1>10, <1>11, <1>12, <1>13, FileStep

(* A poll completes a torn row, and asks with the credential of its login.   *)
LEMMA CompleteStep == ASSUME SourceInv, coalescedPull PROVE SourceInv'
<1> USE DEF SourceInv
<1> DEFINE row == IF file.torn THEN Completed(file) ELSE file
<1>1. /\ file \in PoolRows /\ file.cred \in Creds /\ file.epoch \in Nat /\ file.cred.epoch \in Nat
      /\ file.torn \in BOOLEAN /\ NoReading \in Readings
      /\ IF file.torn THEN file.cred.epoch > file.epoch ELSE file.cred.epoch = file.epoch
  BY DEF SourceTypes, RowTypes, PoolRows, Creds, RowsWhole, FileRowWhole, NoReading, Readings
<1>2. /\ UNCHANGED <<ready, snap, reads, rotated, sent, pendingObs, writes, seen, taken, aged,
                     source, refresh>>
      /\ ~RowLocked
      /\ \/ file' = file /\ poll' = Nil
         \/ /\ file' = row
            /\ \/ poll' = Nil
               \/ poll' = [step |-> "polling", key |-> KeyOf(row), of |-> AccountsOf(row.cred)]
  BY DEF coalescedPull
<1>3. /\ row \in PoolRows /\ row.cred = file.cred /\ ~row.torn
      /\ row.epoch = file.cred.epoch
      /\ IF file.torn THEN row.who = file.cred.login /\ row.reading = NoReading
         ELSE row = file
  BY <1>1 DEF Completed, PoolRows, Creds
<1> HIDE DEF row
<1>4. ReadRows' = ReadRows
  BY <1>2 DEF ReadRows
<1>5. LoginsOf(row) \subseteq LoginsOf(file)
  BY <1>3 DEF LoginsOf, KeyOf, LoginOf
<1>6. KeyOf(row) = LoginOf(row.cred)
  <2>1. KeyOf(row) \in Logins /\ LoginOf(row.cred) \in Logins
    BY <1>1, <1>3 DEF KeyOf, LoginOf, Logins, PoolRows, Creds
  <2>2. KeyOf(row)[1] = LoginOf(row.cred)[1]
    BY <1>3 DEF KeyOf, LoginOf
  <2>3. Known(KeyOf(row)) /\ Known(LoginOf(row.cred))
    BY <1>5 DEF Known, LoginsOf
  <2> QED BY <2>1, <2>2, <2>3, Zenon DEF LoginsAgree
<1>7. row.who \in AccountsOf(row.cred)
  BY <1>6 DEF KeyOf, LoginOf, AccountsOf
<1>8. poll' \in Polls \cup {Nil}
  <2>1. KeyOf(row) \in Logins /\ AccountsOf(row.cred) \in SUBSET Identities
    BY <1>3 DEF KeyOf, AccountsOf, Logins, PoolRows, Creds
  <2> QED BY <1>2, <2>1 DEF Polls
<1>9. SourceTypes'
  BY <1>2, <1>3, <1>8 DEF SourceTypes, RowTypes, TokenTypes, QuotaTypes
<1>10. LoginsAgree'
  <2>1. \A s \in Logins : Known(s)' => Known(s)
    BY <1>2, <1>4, <1>5 DEF Known, LoginsOf, KeyOf, LoginOf
  <2>2. file.cred.epoch <= file.cred'.epoch
    BY <1>1, <1>2, <1>3
  <2> QED BY <1>9, <2>1, <2>2, AgreeStays
<1>11. RefreshOfLogin'
  BY <1>2 DEF RefreshOfLogin, RowLocked
<1>12. FileMoves
  BY <1>1, <1>2, <1>3 DEF FileMoves, Before, FileRowWhole
<1>13. source = "opencode" /\ poll' # Nil /\ poll'.step = "polling" => poll'.key[2] \in poll'.of
  BY <1>2, <1>7 DEF KeyOf
<1> QED BY <1>9, <1>10, <1>11, <1>12, <1>13, FileStep

(* A refresh that ended: its token becomes the snapshot's when the row still *)
(* shows the login it refreshed.                                             *)
LEMMA RefreshStep == ASSUME SourceInv, runRefresh PROVE SourceInv'
<1> USE DEF SourceInv
<1>1. /\ UNCHANGED <<file, ready, reads, pendingObs, writes, poll, sent, source, seen, taken, aged>>
      /\ refresh # Nil /\ refresh' = Nil
  BY DEF runRefresh
<1>2. /\ snap.row \in PoolRows /\ snap.row.epoch \in Nat /\ snap.row.cred.epoch \in Nat
      /\ snap \in [row : PoolRows, active : BOOLEAN]
  BY DEF SourceTypes, RowTypes, PoolRows, Creds
<1>3. refresh.step = "rotated" => /\ refresh.cred \in Creds /\ refresh.epoch \in Nat
                                  /\ refresh.cred.epoch = refresh.epoch
  BY <1>1 DEF SourceTypes, TokenTypes, Refreshes, RefreshOfLogin
<1>4. \/ rotated' = rotated
      \/ refresh.step = "rotated" /\ rotated' = [epoch |-> refresh.epoch, cred |-> refresh.cred]
  BY DEF runRefresh
<1>5. /\ snap' \in [row : PoolRows, active : BOOLEAN]
      /\ snap'.row.epoch = snap.row.epoch /\ snap'.row.who = snap.row.who
      /\ snap'.row.torn = snap.row.torn /\ snap'.row.reading = snap.row.reading
      /\ \/ snap'.row.cred = snap.row.cred
         \/ refresh.step = "rotated" /\ snap'.row.cred = refresh.cred
              /\ (source = "opencode" => snap.row.epoch = refresh.epoch)
  <2> DEFINE next == IF source = "pi" THEN piRefreshedRow ELSE RefreshedRow
  <2>1. /\ next \in PoolRows
        /\ next.epoch = snap.row.epoch /\ next.who = snap.row.who
        /\ next.torn = snap.row.torn /\ next.reading = snap.row.reading
        /\ \/ next.cred = snap.row.cred
           \/ refresh.step = "rotated" /\ next.cred = refresh.cred
                /\ (source = "opencode" => snap.row.epoch = refresh.epoch)
    <3>1. \/ next = snap.row
          \/ next = [snap.row EXCEPT !.on = FALSE]
          \/ /\ refresh.step = "rotated" /\ next = [snap.row EXCEPT !.cred = refresh.cred]
             /\ source = "opencode" => snap.row.epoch = refresh.epoch
      BY DEF piRefreshedRow, RefreshedRow
    <3> HIDE DEF next
    <3>2. CASE next = snap.row
      BY <1>2, <3>2
    <3>3. CASE next = [snap.row EXCEPT !.on = FALSE]
      BY <1>2, <3>3 DEF PoolRows
    <3>4. CASE /\ refresh.step = "rotated" /\ next = [snap.row EXCEPT !.cred = refresh.cred]
               /\ source = "opencode" => snap.row.epoch = refresh.epoch
      BY <1>2, <1>3, <3>4 DEF PoolRows
    <3> QED BY <3>1, <3>2, <3>3, <3>4
  <2>2. snap' = [snap EXCEPT !.row = next]
    BY DEF runRefresh
  <2> HIDE DEF next
  <2> QED BY <1>2, <2>1, <2>2
<1>6. SourceTypes'
  <2>1. rotated' \in [epoch : Nat, cred : Creds] \cup {Nil}
    BY <1>3, <1>4 DEF SourceTypes, TokenTypes
  <2> QED BY <1>1, <1>5, <2>1 DEF SourceTypes, RowTypes, TokenTypes, QuotaTypes
<1>7. ReadRows' = ReadRows
  BY <1>1 DEF ReadRows
<1>8. LoginsAgree'
  <2>1. \A s \in LoginsOf(snap.row)' : Known(s)
    BY <1>1, <1>5 DEF Known, LoginsOf, KeyOf, LoginOf
  <2>2. rotated' # Nil => Known(LoginOf(rotated'.cred))
    BY <1>1, <1>4 DEF Known
  <2>3. LoginsOf(file)' = LoginsOf(file)
    BY <1>1 DEF LoginsOf, KeyOf, LoginOf
  <2>4. ASSUME NEW s \in Logins, Known(s)' PROVE Known(s)
    <3>1. \/ s \in LoginsOf(file)' \/ s \in LoginsOf(snap.row)'
          \/ \E row \in ReadRows' : s \in LoginsOf(row)
          \/ rotated' # Nil /\ s = LoginOf(rotated'.cred)
          \/ source = "opencode" /\ sent # Nil /\ s = LoginOf(sent)
      BY <1>1, <2>4 DEF Known, LoginOf, LoginsOf, KeyOf
    <3>2. CASE s \in LoginsOf(snap.row)'
      BY <2>1, <3>2
    <3>3. CASE rotated' # Nil /\ s = LoginOf(rotated'.cred)
      BY <2>2, <3>3
    <3> QED BY <1>7, <2>3, <3>1, <3>2, <3>3, Zenon DEF Known
  <2>5. file.cred.epoch <= file.cred'.epoch
    BY <1>1 DEF SourceTypes, RowTypes, PoolRows, Creds
  <2> QED BY <1>6, <2>4, <2>5, AgreeStays
<1>9. RefreshOfLogin'
  BY <1>1, <1>3, <1>4 DEF RefreshOfLogin, RowLocked
<1>10. RowsWhole'
  <2>1. source = "opencode" =>
          IF snap'.row.torn THEN snap'.row.cred.epoch >= snap'.row.epoch
          ELSE snap'.row.cred.epoch = snap'.row.epoch
    BY <1>2, <1>3, <1>5 DEF RowsWhole
  <2> QED BY <1>1, <1>7, <2>1 DEF RowsWhole, FileRowWhole
<1>11. ReadsInOrder'
  BY <1>1, <1>5, <1>7 DEF ReadsInOrder, Before
<1>12. \A epoch : Gone(epoch) => Gone(epoch)'
  BY <1>1, <1>5, <1>7 DEF Gone, Before, NotWholeAt
<1>13. SentBefore'
  BY <1>1, <1>5, <1>12 DEF SentBefore
<1>14. ReadingsAreOwn'
  BY <1>1, <1>5, <1>7, <1>12 DEF ReadingsAreOwn, ReadingIsOwn, ObservationIsOwn
<1>15. ReadingsSoFar' /\ LastIsPending'
  BY <1>1, <1>5, <1>7 DEF ReadingsSoFar, LastIsPending, KeyOf
<1> QED BY <1>6, <1>8, <1>9, <1>10, <1>11, <1>13, <1>14, <1>15

(* Steps that take, show or write a reading, and change nothing else of the  *)
(* rows                                                                      *)
SameLogin(row, next) ==
    /\ next.epoch = row.epoch /\ next.who = row.who
    /\ next.torn = row.torn /\ next.cred = row.cred

QuotaMoves ==
    /\ SameLogin(file, file') /\ SameLogin(snap.row, snap'.row)
    /\ UNCHANGED <<ready, reads, rotated, refresh, source, aged>>
    /\ sent' \in {sent, Nil} /\ poll' \in {poll, Nil}
    /\ taken <= taken'
    /\ source = "opencode" =>
         /\ ReadingIsOwn(file')
         /\ ~snap.row.torn => ReadingIsOwn(snap'.row)
         /\ \A p \in pendingObs' : ObservationIsOwn(p)
         /\ \A k \in DOMAIN writes' : ObservationIsOwn(writes'[k])
    /\ file'.reading.at <= taken' /\ snap'.row.reading.at <= taken'
    /\ \A p \in pendingObs' : p.reading.at <= taken'
    /\ \A k \in DOMAIN writes' : writes'[k].reading.at <= taken'

LEMMA QuotaStep ==
    ASSUME SourceInv, QuotaMoves, LastIsPending',
           file' \in PoolRows, snap' \in [row : PoolRows, active : BOOLEAN], QuotaTypes'
    PROVE  SourceInv'
<1> USE DEF SourceInv
<1>1. /\ SameLogin(file, file') /\ SameLogin(snap.row, snap'.row)
      /\ UNCHANGED <<ready, reads, rotated, refresh, source>>
      /\ sent' \in {sent, Nil} /\ poll' \in {poll, Nil}
      /\ taken <= taken'
  BY DEF QuotaMoves
<1>2. SourceTypes'
  BY <1>1 DEF SourceTypes, RowTypes, TokenTypes
<1>3. /\ ReadRows' = ReadRows /\ LoginsOf(file)' = LoginsOf(file)
      /\ LoginsOf(snap.row)' = LoginsOf(snap.row)
  BY <1>1 DEF ReadRows, LoginsOf, KeyOf, LoginOf, SameLogin
<1>4. LoginsAgree'
  <2>1. \A s \in Logins : Known(s)' => Known(s)
    BY <1>1, <1>3, Zenon DEF Known, LoginsOf, KeyOf, LoginOf
  <2>2. file.cred.epoch <= file.cred'.epoch
    BY <1>1 DEF SameLogin, SourceTypes, RowTypes, PoolRows, Creds
  <2> QED BY <1>2, <2>1, <2>2, AgreeStays
<1>5. RefreshOfLogin'
  BY <1>1 DEF RefreshOfLogin, RowLocked, SameLogin
<1>6. RowsWhole' /\ ReadsInOrder'
  BY <1>1, <1>3 DEF RowsWhole, FileRowWhole, ReadsInOrder, Before, SameLogin
<1>7. \A epoch : Gone(epoch) => Gone(epoch)'
  BY <1>1, <1>3 DEF Gone, Before, NotWholeAt, SameLogin
<1>8. SentBefore'
  BY <1>1, <1>7 DEF SentBefore, SameLogin
<1>9. ReadingsAreOwn'
  <2>1. SUFFICES ASSUME source = "opencode" PROVE ReadingsAreOwn'
    BY <1>1 DEF ReadingsAreOwn
  <2>2. \A p : ObservationIsOwn(p) => ObservationIsOwn(p)'
    BY <1>7 DEF ObservationIsOwn
  <2>3. /\ ReadingIsOwn(file)' /\ (~snap'.row.torn => ReadingIsOwn(snap.row)')
        /\ \A p \in pendingObs' : ObservationIsOwn(p)'
        /\ \A k \in DOMAIN writes' : ObservationIsOwn(writes[k])'
    BY <1>1, <2>1, <2>2 DEF QuotaMoves, ReadingIsOwn, SameLogin
  <2>4. \A row \in ReadRows' : ReadingIsOwn(row)
    BY <1>3, <2>1 DEF ReadingsAreOwn
  <2>5. poll' # Nil /\ poll'.step = "polling" => poll'.key[2] \in poll'.of
    BY <1>1, <2>1 DEF ReadingsAreOwn
  <2> QED BY <2>3, <2>4, <2>5 DEF ReadingsAreOwn, ReadingIsOwn
<1>10. ReadingsSoFar'
  <2>1. ASSUME NEW row \in ReadRows PROVE row.reading.at <= taken'
    <3>1. /\ row.reading.at <= taken /\ row.reading.at \in Nat /\ taken \in Nat
          /\ taken' \in Nat
      BY ReadRowTypes DEF ReadingsSoFar, SourceTypes, QuotaTypes, PoolRows, Readings
    <3> QED BY <1>1, <3>1
  <2> QED BY <1>3, <2>1 DEF ReadingsSoFar, QuotaMoves
<1> QED BY <1>2, <1>4, <1>5, <1>6, <1>8, <1>9, <1>10

(* The newest observation is always among those remembered.                  *)
LEMMA Remembered ==
    ASSUME SourceTypes, ReadingsSoFar, NEW reading \in Readings, reading.at = taken + 1
    PROVE  LET p == [key |-> KeyOf(snap.row), reading |-> reading]
               kept == rememberPoolObservation(snap.row, reading)
           IN  p \in Observations /\ p \in kept /\ kept \subseteq pendingObs \cup {p}
<1> DEFINE new == [key |-> KeyOf(snap.row), reading |-> reading]
           mine == {p \in pendingObs : p.key[1] = snap.row.epoch} \cup {new}
           oldest == {p \in mine : \A q \in mine : p.reading.at <= q.reading.at}
<1>1. KeyOf(snap.row) \in Logins
  BY DEF SourceTypes, RowTypes, PoolRows, KeyOf, Logins
<1>2. new \in Observations
  BY <1>1 DEF Observations
<1>3. CASE mine = {new}
  <2>1. Cardinality(mine) = 1
    BY <1>3, FS_Singleton
  <2>2. ~(Cardinality(mine) > PendingCap)
    BY <2>1, SourceBounds
  <2>3. rememberPoolObservation(snap.row, reading) = mine
    BY <2>2, Zenon DEF rememberPoolObservation
  <2> QED BY <1>2, <1>3, <2>3
<1>4. CASE mine # {new}
  <2>1. PICK q \in mine : q # new
    BY <1>4
  <2>2. q \in pendingObs /\ q.reading.at <= taken /\ q.reading.at \in Nat /\ taken \in Nat
    BY <2>1 DEF ReadingsSoFar, SourceTypes, QuotaTypes, Observations, Readings
  <2>3. ~(new.reading.at <= q.reading.at)
    BY <2>2
  <2>4. new \notin oldest
    BY <2>1, <2>3
  <2>5. rememberPoolObservation(snap.row, reading) \in {mine, mine \ oldest}
    BY Zenon DEF rememberPoolObservation
  <2> QED BY <1>2, <2>4, <2>5
<1> QED BY <1>3, <1>4

(* A reading of the row's account shows in the snapshot and is remembered.   *)
LEMMA Observed ==
    ASSUME SourceInv, NEW reading \in Readings, reading.at = taken + 1, taken' = taken + 1,
           source = "opencode"
             => ObservationIsOwn([key |-> KeyOf(snap.row), reading |-> reading]),
           applyObservation(reading)
    PROVE  /\ snap' \in [row : PoolRows, active : BOOLEAN]
           /\ SameLogin(snap.row, snap'.row)
           /\ pendingObs' \subseteq Observations
           /\ seen' \in [key : Logins, at : Nat]
           /\ source = "opencode" =>
                /\ ~snap.row.torn => ReadingIsOwn(snap'.row)
                /\ \A p \in pendingObs' : ObservationIsOwn(p)
           /\ snap'.row.reading.at <= taken'
           /\ \A p \in pendingObs' : p.reading.at <= taken'
           /\ LastIsPending'
<1> USE DEF SourceInv
<1> DEFINE new == [key |-> KeyOf(snap.row), reading |-> reading]
           row == mergePoolObservation(snap.row, reading)
<1>1. /\ snap.row \in PoolRows /\ snap.row.reading.at \in Nat /\ taken \in Nat
      /\ snap \in [row : PoolRows, active : BOOLEAN]
      /\ KeyOf(snap.row) \in Logins
  BY DEF SourceTypes, RowTypes, QuotaTypes, PoolRows, Readings, KeyOf, Logins
<1>2. /\ row \in PoolRows /\ SameLogin(snap.row, row)
      /\ row.reading = reading
  <2>1. reading.at > snap.row.reading.at
    BY <1>1 DEF ReadingsSoFar
  <2> QED BY <1>1, <2>1, MergedRow DEF SameLogin
<1>3. snap' = [snap EXCEPT !.row = row]
  BY DEF applyObservation
<1>4. /\ new \in Observations /\ new \in pendingObs'
      /\ pendingObs' \subseteq pendingObs \cup {new}
  BY Remembered DEF applyObservation
<1>5. seen' = [key |-> KeyOf(snap.row), at |-> reading.at]
  BY DEF applyObservation
<1> HIDE DEF row
<1>6. snap'.row = row /\ snap' \in [row : PoolRows, active : BOOLEAN]
  BY <1>1, <1>2, <1>3
<1>7. seen' \in [key : Logins, at : Nat]
  BY <1>1, <1>5
<1>8. new.key = KeyOf(snap.row) /\ new.reading = reading
  OBVIOUS
<1>9. source = "opencode" =>
         /\ ~snap.row.torn => ReadingIsOwn(row)
         /\ \A p \in pendingObs' : ObservationIsOwn(p)
  <2>1. SUFFICES ASSUME source = "opencode"
                 PROVE  /\ ~snap.row.torn => ReadingIsOwn(row)
                        /\ \A p \in pendingObs' : ObservationIsOwn(p)
    OBVIOUS
  <2>2. ObservationIsOwn(new)
    BY <2>1
  <2>3. ~snap.row.torn => ~Gone(snap.row.epoch)
    BY DEF Gone, NotWholeAt
  <2>4. ~snap.row.torn => ReadingIsOwn(row)
    BY <1>2, <2>2, <2>3 DEF ObservationIsOwn, KeyOf, ReadingIsOwn, SameLogin
  <2>5. \A p \in pendingObs : ObservationIsOwn(p)
    BY <2>1 DEF ReadingsAreOwn
  <2> HIDE DEF new
  <2> QED BY <1>4, <2>2, <2>4, <2>5
<1>10. \A p \in pendingObs' : p.reading.at <= taken'
  <2>1. \A p \in pendingObs : p.reading.at <= taken /\ p.reading.at \in Nat
    BY DEF ReadingsSoFar, SourceTypes, QuotaTypes, Observations, Readings
  <2>2. \A p \in pendingObs : p.reading.at <= taken'
    BY <1>1, <2>1
  <2>3. new.reading.at <= taken'
    BY <1>1
  <2> HIDE DEF new
  <2> QED BY <1>4, <2>2, <2>3
<1>11. LastIsPending'
  <2>1. seen'.key = KeyOf(snap.row) /\ seen'.at = reading.at
    BY <1>5
  <2>2. \E p \in pendingObs' : p.key = seen'.key /\ p.reading.at = seen'.at
    BY <1>4, <1>8, <2>1
  <2>3. snap'.row.reading.at >= seen'.at
    BY <1>1, <1>2, <1>6, <2>1
  <2> QED BY <2>2, <2>3 DEF LastIsPending
<1>12. snap'.row.reading.at <= taken'
  BY <1>1, <1>2, <1>6
<1>13. pendingObs' \subseteq Observations
  <2>1. pendingObs \subseteq Observations
    BY DEF SourceTypes, QuotaTypes
  <2> HIDE DEF new
  <2> QED BY <1>4, <2>1
<1> QED BY <1>2, <1>6, <1>7, <1>9, <1>10, <1>11, <1>12, <1>13

(* A reading taken with the bearer sent is of its account; when it cannot be *)
(* told, the bearer is the very one the row holds.                           *)
LEMMA SentIsOwn ==
    ASSUME SourceInv, sent # Nil, source = "opencode", NEW at,
           sent.who = snap.row.who \/ sent.epoch = snap.row.cred.epoch
    PROVE  ObservationIsOwn([key |-> KeyOf(snap.row),
                             reading |-> [at |-> at, of |-> AccountsOf(sent)]])
<1> USE DEF SourceInv
<1> DEFINE p == [key |-> KeyOf(snap.row), reading |-> [at |-> at, of |-> AccountsOf(sent)]]
<1>1. p.key[1] = snap.row.epoch /\ p.key[2] = snap.row.who /\ p.reading.of = {sent.login, sent.who}
  BY DEF KeyOf, AccountsOf
<1>2. /\ snap.row \in PoolRows /\ snap.row.cred \in Creds /\ sent \in Creds
      /\ snap.row.epoch \in Nat /\ snap.row.cred.epoch \in Nat
  BY DEF SourceTypes, RowTypes, TokenTypes, PoolRows, Creds
<1>3. CASE sent.who = snap.row.who
  BY <1>1, <1>3, Zenon DEF ObservationIsOwn
<1>4. CASE sent.epoch = snap.row.cred.epoch
  <2>1. /\ KeyOf(snap.row) \in Logins /\ LoginOf(snap.row.cred) \in Logins
        /\ LoginOf(sent) \in Logins
    BY <1>2 DEF KeyOf, LoginOf, Logins, PoolRows, Creds
  <2>2. Known(KeyOf(snap.row)) /\ Known(LoginOf(snap.row.cred)) /\ Known(LoginOf(sent))
    BY DEF Known, LoginsOf
  <2>3. LoginOf(sent) = LoginOf(snap.row.cred)
    <3>1. LoginOf(sent)[1] = LoginOf(snap.row.cred)[1]
      BY <1>4 DEF LoginOf
    <3> QED BY <2>1, <2>2, <3>1, Zenon DEF LoginsAgree
  <2>4. CASE snap.row.cred.epoch = snap.row.epoch
    <3>1. KeyOf(snap.row)[1] = LoginOf(sent)[1]
      BY <1>4, <2>4 DEF LoginOf, KeyOf
    <3>2. KeyOf(snap.row) = LoginOf(sent)
      BY <2>1, <2>2, <3>1, Zenon DEF LoginsAgree
    <3>3. snap.row.who = sent.login
      BY <3>2 DEF KeyOf, LoginOf
    <3> QED BY <1>1, <3>3, Zenon DEF ObservationIsOwn
  <2>5. CASE snap.row.cred.epoch # snap.row.epoch
    <3>1. snap.row.torn /\ sent.epoch > snap.row.epoch
      BY <1>2, <1>4, <2>5 DEF RowsWhole
    <3>2. Gone(snap.row.epoch)
      BY <3>1 DEF SentBefore
    <3> QED BY <1>1, <3>2, Zenon DEF ObservationIsOwn
  <2> QED BY <2>4, <2>5
<1> QED BY <1>3, <1>4

LEMMA RecordStep == ASSUME SourceInv, recordSnapshot PROVE SourceInv'
<1> USE DEF SourceInv
<1> DEFINE reading == [at |-> taken + 1, of |-> AccountsOf(sent)]
           new == [key |-> KeyOf(snap.row), reading |-> reading]
<1>1. /\ UNCHANGED <<file, ready, reads, rotated, refresh, source, poll, aged>>
      /\ sent # Nil /\ sent' = Nil /\ taken' = taken + 1
      /\ applyObservation(reading)
      /\ writes' = Append(writes, new)
      /\ sent.who = snap.row.who \/ sent.epoch = snap.row.cred.epoch
  BY DEF recordSnapshot, belongs
<1>2. /\ taken \in Nat /\ sent \in Creds /\ file \in PoolRows /\ writes \in Seq(Observations)
      /\ file.reading.at \in Nat /\ KeyOf(snap.row) \in Logins
  BY <1>1 DEF SourceTypes, RowTypes, TokenTypes, QuotaTypes, PoolRows, Readings, KeyOf, Logins
<1>3. reading \in Readings /\ reading.at = taken + 1
  BY <1>2 DEF Readings, AccountsOf, Creds
<1>4. new \in Observations /\ new.reading.at = taken'
  BY <1>1, <1>2, <1>3 DEF Observations
<1>5. source = "opencode" => ObservationIsOwn(new)
  BY <1>1, SentIsOwn
<1>6. /\ snap' \in [row : PoolRows, active : BOOLEAN]
      /\ SameLogin(snap.row, snap'.row)
      /\ pendingObs' \subseteq Observations
      /\ seen' \in [key : Logins, at : Nat]
      /\ source = "opencode" =>
           /\ ~snap.row.torn => ReadingIsOwn(snap'.row)
           /\ \A p \in pendingObs' : ObservationIsOwn(p)
      /\ snap'.row.reading.at <= taken'
      /\ \A p \in pendingObs' : p.reading.at <= taken'
      /\ LastIsPending'
  <2> HIDE DEF reading
  <2> QED BY <1>1, <1>3, <1>5, Observed
<1> HIDE DEF new
<1>7. /\ writes' \in Seq(Observations)
      /\ \A k \in DOMAIN writes' : (k \in DOMAIN writes /\ writes'[k] = writes[k]) \/ writes'[k] = new
  <2> HIDE DEF Observations
  <2> QED BY <1>1, <1>2, <1>4
<1>8. \A k \in DOMAIN writes' : writes'[k].reading.at <= taken'
  <2>1. ASSUME NEW k \in DOMAIN writes
        PROVE  writes[k].reading.at <= taken /\ writes[k].reading.at \in Nat
    <3>1. writes[k] \in Observations
      BY <1>2
    <3> QED BY <3>1 DEF ReadingsSoFar, Observations, Readings
  <2>2. \A k \in DOMAIN writes : writes[k].reading.at <= taken'
    BY <1>1, <1>2, <2>1
  <2>3. new.reading.at <= taken'
    BY <1>1, <1>2, <1>4
  <2> QED BY <1>7, <2>2, <2>3
<1>9. source = "opencode" => \A k \in DOMAIN writes' : ObservationIsOwn(writes'[k])
  BY <1>5, <1>7 DEF ReadingsAreOwn
<1>10. QuotaTypes'
  BY <1>1, <1>2, <1>6, <1>7 DEF SourceTypes, QuotaTypes
<1>11. file.reading.at <= taken' /\ taken <= taken'
  BY <1>1, <1>2 DEF ReadingsSoFar
<1>12. source = "opencode" => ReadingIsOwn(file)
  BY DEF ReadingsAreOwn
<1>13. QuotaMoves
  BY <1>1, <1>6, <1>8, <1>9, <1>11, <1>12 DEF QuotaMoves, SameLogin
<1> QED BY <1>1, <1>2, <1>6, <1>10, <1>13, QuotaStep

(* A reading written to the files is of the account the row is of.           *)
LEMMA Written ==
    ASSUME SourceInv, NEW p \in Observations, recordQuota(p.key, p.reading),
           p.reading.at <= taken + 1,
           source = "opencode" => ObservationIsOwn(p)
    PROVE  /\ file' \in PoolRows /\ SameLogin(file, file')
           /\ source = "opencode" => ReadingIsOwn(file')
           /\ file'.reading.at <= taken \/ file'.reading.at = p.reading.at
<1> USE DEF SourceInv
<1>1. file \in PoolRows /\ p.reading \in Readings
  BY DEF SourceTypes, RowTypes, Observations
<1>2. file.reading.at <= taken /\ (source = "opencode" => ReadingIsOwn(file))
  BY DEF ReadingsSoFar, ReadingsAreOwn
<1>3. CASE file' = file
  BY <1>1, <1>2, <1>3 DEF SameLogin
<1>4. CASE /\ file' = mergePoolObservation(file, p.reading)
           /\ p.key = KeyOf(file) /\ ~file.torn
  <2>1. /\ file' \in PoolRows /\ SameLogin(file, file')
        /\ file'.reading \in {p.reading, file.reading}
    BY <1>1, <1>4, MergedRow DEF SameLogin
  <2>2. source = "opencode" => file.who \in p.reading.of
    <3>1. ~Gone(file.epoch)
      BY <1>4 DEF Gone, Before, SourceTypes, RowTypes, PoolRows
    <3>2. p.key[1] = file.epoch /\ p.key[2] = file.who
      BY <1>4 DEF KeyOf
    <3> QED BY <3>1, <3>2, Zenon DEF ObservationIsOwn
  <2> QED BY <1>2, <2>1, <2>2 DEF ReadingIsOwn, SameLogin
<1> QED BY <1>3, <1>4, Zenon DEF recordQuota

LEMMA WriteStep == ASSUME SourceInv, WriteQuota PROVE SourceInv'
<1> USE DEF SourceInv
<1>1. /\ UNCHANGED <<ready, snap, reads, rotated, pendingObs, refresh, source, poll, sent, seen,
                     taken, aged>>
      /\ writes # <<>> /\ writes' = Tail(writes)
      /\ recordQuota(Head(writes).key, Head(writes).reading)
  BY DEF WriteQuota
<1>2. writes \in Seq(Observations) /\ taken \in Nat
  BY DEF SourceTypes, QuotaTypes
<1>3. /\ Head(writes) \in Observations /\ Head(writes) = writes[1] /\ 1 \in DOMAIN writes
      /\ writes' \in Seq(Observations)
      /\ \A k \in DOMAIN writes' : k + 1 \in DOMAIN writes /\ writes'[k] = writes[k + 1]
  <2> HIDE DEF Observations
  <2> QED BY <1>1, <1>2
<1>4. /\ Head(writes).reading.at <= taken /\ Head(writes).reading.at \in Nat
      /\ source = "opencode" => ObservationIsOwn(Head(writes))
  BY <1>3 DEF ReadingsSoFar, ReadingsAreOwn, Observations, Readings
<1>5. /\ file' \in PoolRows /\ SameLogin(file, file')
      /\ source = "opencode" => ReadingIsOwn(file')
      /\ file'.reading.at <= taken \/ file'.reading.at = Head(writes).reading.at
  <2>1. Head(writes).reading.at <= taken + 1
    BY <1>2, <1>4
  <2> QED BY <1>1, <1>3, <1>4, <2>1, Written
<1>6. QuotaMoves
  <2>1. \A k \in DOMAIN writes' : writes'[k].reading.at <= taken
    BY <1>3 DEF ReadingsSoFar
  <2>2. source = "opencode" => \A k \in DOMAIN writes' : ObservationIsOwn(writes'[k])
    BY <1>3 DEF ReadingsAreOwn
  <2>3. snap.row.reading.at <= taken /\ \A p \in pendingObs : p.reading.at <= taken
    BY DEF ReadingsSoFar
  <2>4. source = "opencode" => /\ ~snap.row.torn => ReadingIsOwn(snap.row)
                               /\ \A p \in pendingObs : ObservationIsOwn(p)
    BY DEF ReadingsAreOwn
  <2>5. SameLogin(snap.row, snap'.row) /\ taken <= taken' /\ file'.reading.at <= taken'
    BY <1>1, <1>2, <1>4, <1>5 DEF SameLogin
  <2> QED BY <1>1, <1>5, <2>1, <2>2, <2>3, <2>4, <2>5 DEF QuotaMoves
<1>7. QuotaTypes' /\ LastIsPending' /\ snap' \in [row : PoolRows, active : BOOLEAN]
  BY <1>1, <1>3 DEF SourceTypes, RowTypes, QuotaTypes, LastIsPending, KeyOf
<1> QED BY <1>5, <1>6, <1>7, QuotaStep

LEMMA PullStep == ASSUME SourceInv, pull PROVE SourceInv'
<1> USE DEF SourceInv
<1> DEFINE reading == [at |-> taken + 1, of |-> poll.of]
           p == [key |-> poll.key, reading |-> reading]
<1>1. /\ UNCHANGED <<ready, reads, rotated, refresh, source, sent, writes, aged>>
      /\ poll # Nil /\ poll.step = "polling" /\ poll' = Nil /\ taken' = taken + 1
      /\ IF KeyOf(snap.row) = poll.key THEN applyObservation(reading)
         ELSE UNCHANGED <<snap, pendingObs, seen>>
      /\ recordQuota(poll.key, reading)
  BY DEF pull
<1>2. /\ poll.key \in Logins /\ poll.of \in SUBSET Identities /\ taken \in Nat
      /\ writes \in Seq(Observations) /\ pendingObs \subseteq Observations /\ aged \in Nat
      /\ seen \in [key : Logins, at : Nat] \cup {Nil}
  BY <1>1 DEF SourceTypes, QuotaTypes, Polls
<1>3. /\ reading \in Readings /\ reading.at = taken + 1 /\ p \in Observations
      /\ p.key = poll.key /\ p.reading = reading
  BY <1>2 DEF Readings, Observations
<1>4. source = "opencode" => ObservationIsOwn(p)
  BY <1>1 DEF ReadingsAreOwn, ObservationIsOwn
<1> HIDE DEF p, reading
<1>5. /\ file' \in PoolRows /\ SameLogin(file, file')
      /\ source = "opencode" => ReadingIsOwn(file')
      /\ file'.reading.at <= taken \/ file'.reading.at = p.reading.at
  <2>1. p.reading.at <= taken + 1
    BY <1>2, <1>3
  <2> QED BY <1>1, <1>3, <1>4, <2>1, Written
<1>6. /\ snap' \in [row : PoolRows, active : BOOLEAN]
      /\ SameLogin(snap.row, snap'.row)
      /\ pendingObs' \subseteq Observations
      /\ seen' \in [key : Logins, at : Nat] \cup {Nil}
      /\ source = "opencode" =>
           /\ ~snap.row.torn => ReadingIsOwn(snap'.row)
           /\ \A q \in pendingObs' : ObservationIsOwn(q)
      /\ snap'.row.reading.at <= taken'
      /\ \A q \in pendingObs' : q.reading.at <= taken'
      /\ LastIsPending'
  <2>1. CASE KeyOf(snap.row) = poll.key
    <3>1. p = [key |-> KeyOf(snap.row), reading |-> reading]
      BY <2>1 DEF p
    <3> QED BY <1>1, <1>3, <1>4, <2>1, <3>1, Observed
  <2>2. CASE KeyOf(snap.row) # poll.key
    <3>1. snap' = snap /\ pendingObs' = pendingObs /\ seen' = seen
      BY <1>1, <2>2
    <3>2. snap.row.reading.at <= taken' /\ \A q \in pendingObs : q.reading.at <= taken'
      <4>1. snap.row.reading.at <= taken /\ snap.row.reading.at \in Nat
        BY DEF ReadingsSoFar, SourceTypes, RowTypes, PoolRows, Readings
      <4>2. \A q \in pendingObs : q.reading.at <= taken /\ q.reading.at \in Nat
        BY <1>2 DEF ReadingsSoFar, Observations, Readings
      <4> QED BY <1>1, <1>2, <4>1, <4>2
    <3> QED
      BY <1>1, <1>2, <3>1, <3>2
      DEF SourceTypes, RowTypes, SameLogin, ReadingsAreOwn, LastIsPending, KeyOf
  <2> QED BY <2>1, <2>2
<1>7. QuotaMoves
  <2>1. ASSUME NEW k \in DOMAIN writes
        PROVE  writes[k].reading.at <= taken /\ writes[k].reading.at \in Nat
    <3>1. writes[k] \in Observations
      BY <1>2
    <3> QED BY <3>1 DEF ReadingsSoFar, Observations, Readings
  <2>2. \A k \in DOMAIN writes : writes[k].reading.at <= taken'
    BY <1>1, <1>2, <2>1
  <2>3. source = "opencode" => \A k \in DOMAIN writes : ObservationIsOwn(writes[k])
    BY DEF ReadingsAreOwn
  <2>4. taken <= taken' /\ file'.reading.at <= taken'
    BY <1>1, <1>2, <1>3, <1>5 DEF PoolRows, Readings
  <2> QED BY <1>1, <1>5, <1>6, <2>2, <2>3, <2>4 DEF QuotaMoves
<1>8. QuotaTypes'
  BY <1>1, <1>2, <1>6 DEF QuotaTypes
<1> QED BY <1>5, <1>6, <1>7, <1>8, QuotaStep

(***************************************************************************)
(* AccountSource: the theorems                                              *)
(***************************************************************************)
LEMMA SourceStep ==
    ASSUME SourceInv, HeldTypes, [SourceNext]_sourceVars
    PROVE  SourceInv'
<1>1. SourceTypes
  BY DEF SourceInv
<1> QED
  BY <1>1, SourceSteps, MovesStep, StartReadStep, ReadStep, FailReadStep, AccessStep, TokenWrites,
     RefreshStep, RecordStep, WriteStep, CompleteStep, PullStep, ReloginStep, Zenon

LEMMA SourceInvariant == SourceSpec => [](SourceInv /\ HeldTypes)
<1>1. SourceInit => SourceInv /\ HeldTypes
  BY SourceInitial DEF SourceInit, HeldTypes
<1>2. SourceInv /\ HeldTypes /\ [SourceNext]_sourceVars => (SourceInv /\ HeldTypes)'
  BY SourceStep, HeldStays DEF SourceInv
<1> QED BY <1>1, <1>2, PTL DEF SourceSpec

(* Whatever the reads, the writes and the other processes do, the state of   *)
(* one process's account source is well formed (PoolAccountSource).          *)
THEOREM SourceTypeCorrect == SourceSpec => []SourceTypes
<1>1. SourceInv => SourceTypes
  BY DEF SourceInv
<1> QED BY <1>1, SourceInvariant, PTL

(* A reading taken from an answer stays in the rows the next decision sees   *)
(* until it is too old to be carried, and never shows on the row of another  *)
(* account (rememberPoolObservation, applyPendingPoolObservations,           *)
(* recordQuota).                                                             *)
THEOREM ReadingsStayCorrect == SourceSpec => []ReadingsStay
<1>1. SourceInv => ReadingsStay
  BY DEF SourceInv, LastIsPending, ReadingsAreOwn, ReadingsStay, candidate
<1> QED BY <1>1, SourceInvariant, PTL

(* OpenCode sends a request the login it was routed with, or none            *)
(* (usableToken, runRefresh, withLocalState).                                *)
SendsHeld ==
    source = "opencode" /\ sent' # sent =>
        \/ sent' = Nil
        \/ /\ <<sent'.epoch, sent'.login>> = held.key
           /\ sent'.login \notin Vaulted

LEMMA SendsHeldStep ==
    ASSUME SourceInv, HeldTypes, [SourceNext]_sourceVars
    PROVE  SendsHeld
<1> USE DEF SourceInv
<1>1. CASE sent' \in {sent, Nil}
  BY <1>1 DEF SendsHeld
<1>2. CASE accessFor
  <2>1. SUFFICES ASSUME source = "opencode", sent' # sent
                 PROVE  /\ <<sent'.epoch, sent'.login>> = held.key
                        /\ sent'.login \notin Vaulted
    BY DEF SendsHeld
  <2>2. sent' = snap.row.cred /\ usableToken(held)
    BY <1>2, <2>1 DEF accessFor, Bearer
  <2>3. ~snap.row.torn /\ KeyOf(snap.row) = held.key /\ snap.row.who \notin Vaulted
    BY <2>1, <2>2 DEF usableToken, candidate, vaultOwned
  <2>4. snap.row.cred.epoch = snap.row.epoch
    BY <2>1, <2>3 DEF RowsWhole
  <2>5. KeyOf(snap.row) \in Logins /\ LoginOf(snap.row.cred) \in Logins
    BY DEF KeyOf, LoginOf, Logins, SourceTypes, RowTypes, PoolRows, Creds
  <2>6. Known(KeyOf(snap.row)) /\ Known(LoginOf(snap.row.cred))
    BY DEF Known, LoginsOf
  <2>7. KeyOf(snap.row)[1] = LoginOf(snap.row.cred)[1]
    BY <2>4 DEF KeyOf, LoginOf
  <2>8. KeyOf(snap.row) = LoginOf(snap.row.cred)
    BY <2>5, <2>6, <2>7, Zenon DEF LoginsAgree
  <2> QED BY <2>2, <2>3, <2>8 DEF KeyOf, LoginOf
<1>3. CASE Moves
  BY <1>1, <1>3 DEF Moves
<1>4. CASE startRead \/ \E i \in DOMAIN reads : read(i) \/ FailRead(i)
  BY <1>1, <1>4 DEF startRead, read, FailRead
<1>5. CASE Rotated \/ Contradicted \/ OtherRefresh \/ Relogin \/ Switch
  BY <1>1, <1>5 DEF Rotated, Contradicted, OtherRefresh, Relogin, Switch, Elsewhere
<1>6. CASE runRefresh \/ recordSnapshot \/ WriteQuota \/ coalescedPull \/ pull
  BY <1>1, <1>6 DEF runRefresh, recordSnapshot, WriteQuota, coalescedPull, pull
<1> QED BY <1>2, <1>3, <1>4, <1>5, <1>6, SourceSteps, Zenon

THEOREM SendsHeldLoginCorrect == SourceSpec => SendsHeldLogin
<1>1. (SourceInv /\ HeldTypes) /\ [SourceNext]_sourceVars => [SendsHeld]_sourceVars
  BY SendsHeldStep
<1>2. SourceSpec => [][SendsHeld]_sourceVars
  BY <1>1, SourceInvariant, PTL DEF SourceSpec
<1> QED BY <1>2 DEF SendsHeldLogin, SendsHeld

(* What was accepted before dispose is written before the store closes: the  *)
(* writes dispose waits for are all there are, as none is accepted after it. *)
Drains ==
    /\ ending = "disposed" => drain = Len(writes)
    /\ ending = "closed" => writes = <<>>

LEMMA DrainsStep ==
    ASSUME writes \in Seq(Observations), Drains, [SourceNext]_sourceVars
    PROVE  Drains'
<1>1. CASE UNCHANGED <<writes, drain, ending>>
  BY <1>1 DEF Drains
<1>2. CASE recordSnapshot
  BY <1>2 DEF recordSnapshot, Accepts, Drains
<1>3. CASE ending # "closed" /\ WriteQuota
  <2>1. Len(Tail(writes)) = Len(writes) - 1 /\ Len(writes) > 0 /\ Len(writes) \in Nat
    <3> HIDE DEF Observations
    <3> QED BY <1>3 DEF WriteQuota
  <2> QED BY <1>3, <2>1 DEF WriteQuota, Drains
<1>4. CASE dispose
  BY <1>4 DEF dispose, Drains
<1>5. CASE Close
  <2>1. Len(writes) = 0
    BY <1>5 DEF Close, Drains
  <2>2. writes = <<>>
    <3> HIDE DEF Observations
    <3> QED BY <2>1
  <2> QED BY <1>5, <2>2 DEF Close, Drains
<1>6. CASE UNCHANGED sourceVars
  BY <1>1, <1>6 DEF sourceVars
<1>7. CASE \/ startRead \/ \E i \in DOMAIN reads : read(i) \/ FailRead(i)
           \/ initialize \/ prepareTokens \/ piRefreshDueTokens \/ refreshDueTokens \/ accessFor
  BY <1>1, <1>7
  DEF startRead, read, FailRead, initialize, prepareTokens, piRefreshDueTokens, refreshDueTokens,
      accessFor
<1>8. CASE \/ AskProvider \/ Rotated \/ Contradicted \/ RefreshRefused \/ runRefresh
           \/ AskReading \/ pollRows \/ coalescedPull \/ pull \/ onPullFailure
  BY <1>1, <1>8
  DEF AskProvider, Rotated, Contradicted, RefreshRefused, runRefresh, AskReading, pollRows,
      coalescedPull, pull, onPullFailure
<1>9. CASE OtherRefresh \/ Relogin \/ Switch \/ Migrated \/ Enroll \/ RunOut \/ Ages \/ BackoffEnds
  BY <1>1, <1>9
  DEF OtherRefresh, Relogin, Switch, Migrated, Enroll, RunOut, Ages, BackoffEnds, Elsewhere
<1> QED
  BY <1>2, <1>3, <1>4, <1>5, <1>6, <1>7, <1>8, <1>9, Zenon DEF SourceNext, Step

THEOREM DrainedBeforeCloseCorrect == SourceSpec => []DrainedBeforeClose
<1>1. SourceInit => Drains
  BY DEF SourceInit, Drains
<1>2. SourceTypes /\ Drains /\ [SourceNext]_sourceVars => Drains'
  BY DrainsStep DEF SourceTypes, QuotaTypes
<1>3. Drains => DrainedBeforeClose
  BY DEF Drains, DrainedBeforeClose
<1> QED BY <1>1, <1>2, <1>3, SourceTypeCorrect, PTL DEF SourceSpec

(***************************************************************************)
(* PoolRouting: the orders and the placements                               *)
(***************************************************************************)
Views == [Accounts -> Conditions]

LEMMA RosterIsOrder == Roster \in Seq(Accounts) /\ IsInjective(Roster) /\ Range(Roster) = Accounts
<1>1. Roster \in Seq(STRING) /\ IsInjective(Roster)
  BY RosterAssumption
<1>2. \A i \in 1 .. Len(Roster) : Roster[i] \in Accounts
  BY <1>1 DEF Accounts, Range
<1> QED BY <1>1, <1>2 DEF Accounts

(* An order names every account once.                                       *)
IsOrder(s) == s \in Seq(Accounts) /\ IsInjective(s) /\ Range(s) = Accounts

LEMMA PlacementIsOrder == ASSUME NEW m PROVE IsOrder(orderedPlacement(m))
<1> DEFINE others == Only(Roster, Accounts \ {Main})
           main == Only(Roster, {Main})
<1>1. /\ others \in Seq(Accounts) /\ IsInjective(others) /\ Range(others) = Accounts \ {Main}
      /\ main \in Seq(Accounts) /\ IsInjective(main) /\ Range(main) = Accounts \cap {Main}
  BY RosterIsOrder, OnlyKeeps
<1> HIDE DEF others, main
<1>2. Range(others) \cap Range(main) = {} /\ Range(others) \cup Range(main) = Accounts
  BY <1>1
<1>3. IsOrder(others \o main)
  <2>1. /\ others \o main \in Seq(Accounts)
        /\ Range(others \o main) = Range(others) \cup Range(main)
        /\ IsInjective(others \o main)
    <3>1. Range(others) \cap Range(main) = {}
      BY <1>2
    <3>2. /\ others \in Seq(Accounts) /\ IsInjective(others)
          /\ main \in Seq(Accounts) /\ IsInjective(main)
      BY <1>1
    <3> QED BY <3>1, <3>2, Concatenated, Zenon
  <2> QED BY <1>2, <2>1, Zenon DEF IsOrder
<1>4. IsOrder(main \o others)
  <2>1. Range(main) \cap Range(others) = {} /\ Range(main) \cup Range(others) = Accounts
    BY <1>2
  <2>2. /\ main \o others \in Seq(Accounts)
        /\ Range(main \o others) = Range(main) \cup Range(others)
        /\ IsInjective(main \o others)
    BY <1>1, <2>1, Concatenated, Zenon
  <2> QED BY <2>1, <2>2, Zenon DEF IsOrder
<1>5. IsOrder(Roster)
  BY RosterIsOrder DEF IsOrder
<1>6. orderedPlacement(m) \in {Roster, others \o main, main \o others}
  BY DEF orderedPlacement, MainFirst, MainLast, others, main
<1> QED BY <1>3, <1>4, <1>5, <1>6

LEMMA InOrderKeeps ==
    ASSUME NEW m, NEW S, S \subseteq Accounts
    PROVE  /\ InOrder(m, S) \in Seq(Accounts) /\ IsInjective(InOrder(m, S))
           /\ Range(InOrder(m, S)) = S
           /\ (InOrder(m, S) = <<>>) <=> (S = {})
<1>1. IsOrder(orderedPlacement(m))
  BY PlacementIsOrder
<1>2. /\ InOrder(m, S) \in Seq(Accounts) /\ IsInjective(InOrder(m, S))
      /\ Range(InOrder(m, S)) = Accounts \cap S
  BY <1>1, OnlyKeeps, Zenon DEF IsOrder, InOrder
<1>3. Accounts \cap S = S
  OBVIOUS
<1> QED BY <1>2, <1>3, EmptyRange, Zenon

(* The conditions an account is never asked in                              *)
Barred == {"killed", "unknown", "marked", "backoff"}

(* What the admission lets serve                                            *)
LEMMA ServingFacts ==
    ASSUME NEW v, NEW R, R \subseteq Accounts
    PROVE  /\ Serving(v, R) \subseteq R /\ Free(v, R) \subseteq Serving(v, R)
           /\ Credits(v, R) \subseteq R /\ Confirmed(v, R) \subseteq R
           /\ \A r \in Serving(v, R) :
                v[r] = "free" \/ (v[r] = "budget" /\ Free(v, R) = {})
           /\ \A r \in Confirmed(v, R) : v[r] \in {"spent", "credits", "budget"}
           /\ Credits(v, R) \subseteq Confirmed(v, R)
           /\ Free(v, R) = {r \in R : v[r] = "free"} /\ Credits(v, R) = {r \in R : v[r] = "credits"}
  BY DEF Serving, Free, Survivors, LastPath, Credits, Confirmed

(* An account that may be asked: with quota or money left, or in a request  *)
(* that can be replayed only when no account has free quota.                *)
MayAsk(v, R, replayable, r) ==
    /\ r \in R /\ v[r] \notin Barred
    /\ replayable /\ v[r] # "free" => Free(v, R) = {}

LEMMA UnlessReplayedFacts ==
    ASSUME NEW v, NEW R, R \subseteq Accounts
    PROVE  LET plan == planUnlessReplayed(v, R)
           IN  /\ plan \in Seq(Accounts) /\ Len(plan) <= 1
               /\ \A r \in Range(plan) : MayAsk(v, R, FALSE, r)
<1> DEFINE order == InOrder("main-first", Serving(v, R))
           free == InOrder("main-first", Free(v, R))
           credits == InOrder("main-first", Credits(v, R))
           lastPath == InOrder("main-first", Confirmed(v, R))
           preferred == free \o credits \o order \o lastPath
           target == IF Main \in R THEN <<Main>>
                     ELSE SubSeq(preferred, 1, IF preferred = <<>> THEN 0 ELSE 1)
           Askable == Serving(v, R) \cup Free(v, R) \cup Credits(v, R) \cup Confirmed(v, R)
<1>1. /\ order \in Seq(Accounts) /\ Range(order) \subseteq Askable
      /\ free \in Seq(Accounts) /\ Range(free) \subseteq Askable
      /\ credits \in Seq(Accounts) /\ Range(credits) \subseteq Askable
      /\ lastPath \in Seq(Accounts) /\ Range(lastPath) \subseteq Askable
  <2>1. Serving(v, R) \subseteq Accounts /\ Free(v, R) \subseteq Accounts
          /\ Credits(v, R) \subseteq Accounts /\ Confirmed(v, R) \subseteq Accounts
    BY ServingFacts
  <2> QED BY <2>1, InOrderKeeps
<1>2. \A r \in Askable : MayAsk(v, R, FALSE, r)
  BY ServingFacts DEF MayAsk, Barred
<1> HIDE DEF order, free, credits, lastPath, Askable
<1>3. preferred \in Seq(Accounts) /\ Range(preferred) \subseteq Askable
  <2>1. ASSUME NEW s \in Seq(Accounts), NEW t \in Seq(Accounts),
               Range(s) \subseteq Askable, Range(t) \subseteq Askable
        PROVE  s \o t \in Seq(Accounts) /\ Range(s \o t) \subseteq Askable
    <3>1. s \o t \in Seq(Accounts) /\ Range(s \o t) = Range(s) \cup Range(t)
      BY Concatenated, Zenon
    <3> QED BY <2>1, <3>1
  <2>2. free \o credits \in Seq(Accounts) /\ Range(free \o credits) \subseteq Askable
    BY <1>1, <2>1, Zenon
  <2>3. /\ free \o credits \o order \in Seq(Accounts)
        /\ Range(free \o credits \o order) \subseteq Askable
    BY <1>1, <2>1, <2>2, Zenon
  <2> QED BY <1>1, <2>1, <2>3, Zenon DEF preferred
<1> HIDE DEF preferred
<1>4. target \in Seq(Accounts) /\ Len(target) <= 1
  BY <1>3
<1> HIDE DEF target
<1>5. /\ Only(target, Range(preferred)) \in Seq(Accounts)
      /\ Len(Only(target, Range(preferred))) <= Len(target)
      /\ Range(Only(target, Range(preferred))) \subseteq Range(preferred)
  BY <1>4, OnlyKeeps
<1>6. Len(Only(target, Range(preferred))) <= 1
  BY <1>4, <1>5
<1>7. planUnlessReplayed(v, R) = Only(target, Range(preferred))
  BY Zenon DEF planUnlessReplayed, target, preferred, order, free, credits, lastPath
<1> QED BY <1>2, <1>3, <1>5, <1>6, <1>7

(* The accounts to try may be asked, and each comes once.                   *)
LEMMA PlanFacts ==
    ASSUME NEW v, NEW R, R \subseteq Accounts, NEW m, NEW replayable \in BOOLEAN
    PROVE  LET plan == planOrdered(v, R, m, replayable)
           IN  /\ plan \in Seq(Accounts)
               /\ replayable => IsInjective(plan)
               /\ ~replayable => Len(plan) <= 1
               /\ \A r \in Range(plan) : MayAsk(v, R, replayable, r)
<1> DEFINE order == InOrder(m, Serving(v, R))
           free == InOrder(m, Free(v, R))
           credits == InOrder(m, Credits(v, R))
           lastPath == InOrder(m, Confirmed(v, R))
           rest == IF order # <<>> THEN order ELSE lastPath
           others == Only(rest, Accounts \ Range(credits))
<1>1. /\ Serving(v, R) \subseteq Accounts /\ Free(v, R) \subseteq Accounts
      /\ Credits(v, R) \subseteq Accounts /\ Confirmed(v, R) \subseteq Accounts
  BY ServingFacts
<1>2. CASE ~replayable
  <2>1. planOrdered(v, R, m, replayable) = planUnlessReplayed(v, R)
    BY <1>2, Zenon DEF planOrdered
  <2> QED BY <1>2, <2>1, UnlessReplayedFacts
<1>3. CASE replayable /\ free # <<>>
  <2>1. planOrdered(v, R, m, replayable) = free
    BY <1>3 DEF planOrdered
  <2>2. free \in Seq(Accounts) /\ IsInjective(free) /\ Range(free) = Free(v, R)
    BY <1>1, InOrderKeeps
  <2>3. \A r \in Free(v, R) : MayAsk(v, R, replayable, r)
    BY DEF Free, MayAsk, Barred
  <2> HIDE DEF free
  <2> QED BY <1>3, <2>1, <2>2, <2>3
<1>4. CASE replayable /\ free = <<>>
  <2>1. planOrdered(v, R, m, replayable) = credits \o others
    BY <1>4 DEF planOrdered
  <2>2. /\ credits \in Seq(Accounts) /\ IsInjective(credits) /\ Range(credits) = Credits(v, R)
        /\ rest \in Seq(Accounts) /\ IsInjective(rest)
        /\ Range(rest) \subseteq Serving(v, R) \cup Confirmed(v, R)
        /\ Free(v, R) = {}
    BY <1>1, <1>4, InOrderKeeps
  <2> HIDE DEF credits, rest
  <2>3. /\ others \in Seq(Accounts) /\ IsInjective(others)
        /\ Range(others) \subseteq Range(rest) /\ Range(others) \cap Range(credits) = {}
    BY <2>2, OnlyKeeps
  <2> HIDE DEF others
  <2>4. /\ credits \o others \in Seq(Accounts) /\ IsInjective(credits \o others)
        /\ Range(credits \o others) = Range(credits) \cup Range(others)
    BY <2>2, <2>3, Concatenated
  <2>5. \A r \in Serving(v, R) \cup Confirmed(v, R) \cup Credits(v, R) : MayAsk(v, R, replayable, r)
    BY <2>2, ServingFacts DEF MayAsk, Barred
  <2> QED BY <1>4, <2>1, <2>2, <2>3, <2>4, <2>5
<1> QED BY <1>2, <1>3, <1>4

(* Where a session is placed: on an account that may be asked, or the pin.  *)
LEMMA SelectFacts ==
    ASSUME NEW v, NEW R, R \subseteq Accounts, NEW p \in selectStickyRow(v, R)
    PROVE  /\ MayAsk(v, R, TRUE, p)
           /\ p \in Serving(v, R) \/ (v[p] = "credits" /\ Free(v, R) = {})
<1>1. CASE Free(v, R) # {}
  <2>1. p \in Free(v, R)
    BY <1>1 DEF selectStickyRow
  <2> QED BY <2>1, ServingFacts DEF MayAsk, Free, Barred
<1>2. CASE Free(v, R) = {} /\ Only(Roster, Credits(v, R)) # <<>>
  <2>1. p = Head(Only(Roster, Credits(v, R)))
    BY <1>2, Zenon DEF selectStickyRow
  <2>2. /\ Only(Roster, Credits(v, R)) \in Seq(Accounts)
        /\ Range(Only(Roster, Credits(v, R))) \subseteq Credits(v, R)
    BY RosterIsOrder, OnlyKeeps
  <2>3. p \in Credits(v, R)
    BY <1>2, <2>1, <2>2, HeadAndTail
  <2> QED BY <1>2, <2>3 DEF MayAsk, Credits, Barred
<1>3. CASE Free(v, R) = {} /\ Only(Roster, Credits(v, R)) = <<>>
  <2>1. p \in Serving(v, R)
    BY <1>3 DEF selectStickyRow
  <2> QED BY <1>3, <2>1, ServingFacts DEF MayAsk, Barred
<1> QED BY <1>1, <1>2, <1>3

(***************************************************************************)
(* PoolRequest: types and the invariant                                     *)
(***************************************************************************)
Answers == {"served", "refused", "held", "error"}
Paths == {"ordered", "sticky", "moved", "held"}

Progress ==
    [pc : {"idle", "ready", "sending", "waiting", "done"}, path : Paths,
     on : Accounts \cup {None}, rest : Seq(Accounts), last : Accounts \cup {None},
     replayable : BOOLEAN, suppressHold : BOOLEAN, waited : BOOLEAN, target : Nat,
     sent : Seq(Accounts), view : Views \cup {<<>>}, failed : BOOLEAN,
     answer : {None} \cup Answers]

PoolTypes ==
    /\ now \in Nat
    /\ account \in [Accounts -> [is : Conditions, until : Nat]]
    /\ pin \in Accounts \cup {None} /\ current \in Accounts \cup {None}
    /\ pending \in [on : Accounts, target : Nat] \cup {NoHold}
    /\ req \in [Requests -> Progress]

(* Pi marks no account mid-stream.                                           *)
NoPiMarks == host = "pi" => \A r \in Accounts : account[r].is # "marked"

(* A request that has not been sent, or has spent its wait, may be routed    *)
(* anew.                                                                     *)
Routable(q) ==
    /\ ~q.failed
    /\ q.waited \/ q.sent = <<>>
    /\ q.waited => host = "pi" /\ q.replayable
    /\ q.suppressHold => host = "opencode"
    /\ host = "pi" => q.replayable

Live(q) == q.pc \in {"ready", "sending"}

Fit(q, r) ==
    /\ q.view[r] \notin Barred
    /\ q.replayable /\ ~q.waited /\ q.view[r] # "free" =>
         \A a \in Accounts : q.view[a] # "free"

(* What a request is sent on, and tries next, its view lets it ask           *)
SentAsViewed(q) ==
    /\ Live(q) => q.on \in Accounts /\ q.view \in Views
    /\ Live(q) /\ q.path # "moved" => Fit(q, q.on)
    /\ Live(q) => \A r \in Range(q.rest) : Fit(q, r)

(* and it has not been sent there before.                                    *)
SentOnce(q) ==
    /\ q.pc = "waiting" => IsInjective(q.sent)
    /\ Live(q) =>
         /\ q.path # "ordered" => q.rest = <<>>
         /\ ~q.waited =>
              /\ IsInjective(q.sent) /\ IsInjective(q.rest)
              /\ q.on \notin Range(q.rest) /\ Range(q.rest) \cap Range(q.sent) = {}
              /\ q.pc = "ready" => q.on \notin Range(q.sent)
              /\ q.path \in {"sticky", "held"} =>
                   q.sent = IF q.pc = "ready" THEN <<>> ELSE <<q.on>>

(* A request that cannot be replayed is sent once, on the ordered path.      *)
NotReplayed(q) ==
    ~q.replayable =>
        /\ q.path = "ordered" /\ q.rest = <<>> /\ Len(q.sent) <= 1
        /\ q.pc = "ready" => q.sent = <<>>

RequestInv(q) ==
    /\ SentAsViewed(q) /\ SentOnce(q) /\ NotReplayed(q)
    /\ q.failed => q.pc = "done"
    /\ q.pc \in {"idle", "done"} => q.sent = <<>> /\ ~q.waited /\ ~q.suppressHold
    /\ q.pc = "waiting" => host = "pi" /\ q.on \in Accounts /\ ~q.waited
    /\ q.waited => host = "pi"
    /\ q.suppressHold => host = "opencode"
    /\ host = "pi" => q.replayable
    /\ host = "pi" /\ Live(q) /\ q.path = "held" => q.waited

PoolInv ==
    /\ PoolTypes /\ NoPiMarks
    /\ \A i \in Requests : RequestInv(req[i])

LEMMA PoolConstants ==
    /\ Resets \subseteq Nat \ {0} /\ Starts \cup Turns \subseteq Conditions
    /\ CacheTtl \in Nat /\ MaxWait \in Nat /\ MaxNow \in Nat /\ MaxChanges \in Nat
  BY BoundsAssumption

LEMMA IdleProgress ==
    /\ Idle \in Progress /\ RequestInv(Idle)
    /\ \A q, answer : q.failed \in BOOLEAN /\ answer \in Answers
         => Done(q, answer) \in Progress /\ RequestInv(Done(q, answer))
              /\ Done(q, answer).pc = "done" /\ Done(q, answer).path = "ordered"
              /\ Done(q, answer).failed = q.failed
<1>1. Idle \in Progress
  BY DEF Idle, Progress, Paths
<1>2. /\ Idle.pc = "idle" /\ ~Idle.failed /\ Idle.replayable /\ ~Idle.waited /\ ~Idle.suppressHold
      /\ Idle.path = "ordered" /\ Idle.sent = <<>> /\ Idle.rest = <<>>
  BY DEF Idle
<1>3. RequestInv(Idle)
  BY <1>2 DEF RequestInv, SentAsViewed, SentOnce, NotReplayed, Live
<1>4. ASSUME NEW q, NEW answer, q.failed \in BOOLEAN,
             answer \in Answers
      PROVE  Done(q, answer) \in Progress /\ RequestInv(Done(q, answer))
               /\ Done(q, answer).pc = "done" /\ Done(q, answer).path = "ordered"
               /\ Done(q, answer).failed = q.failed
  <2> DEFINE d == Done(q, answer)
  <2>1. /\ d \in Progress /\ d.pc = "done" /\ d.failed = q.failed
        /\ d.replayable = Idle.replayable /\ d.waited = Idle.waited /\ d.path = Idle.path
        /\ d.suppressHold = Idle.suppressHold /\ d.sent = Idle.sent /\ d.rest = Idle.rest
    BY <1>1, <1>4 DEF Done, Progress, Paths
  <2> HIDE DEF d
  <2>2. RequestInv(d)
    BY <1>2, <2>1 DEF RequestInv, SentAsViewed, SentOnce, NotReplayed, Live
  <2> QED BY <1>2, <2>1, <2>2 DEF d
<1> QED BY <1>1, <1>3, <1>4

(* The fields of a request made ready to send                                *)
LEMMA ReadyFields ==
    ASSUME NEW q \in Progress, NEW path \in Paths,
           NEW r \in Accounts, NEW rest \in Seq(Accounts)
    PROVE  LET x == Ready(q, path, r, rest)
           IN  /\ x \in Progress /\ x.pc = "ready" /\ x.path = path /\ x.on = r /\ x.rest = rest
               /\ x.replayable = q.replayable /\ x.suppressHold = q.suppressHold
               /\ x.waited = q.waited /\ x.sent = q.sent /\ x.view = q.view
               /\ x.failed = q.failed /\ x.last = q.last
  BY DEF Ready, Progress

LEMMA ViewedFields ==
    ASSUME NEW q \in Progress, NEW v \in Views
    PROVE  LET x == [q EXCEPT !.view = v]
           IN  /\ x \in Progress /\ x.view = v /\ x.sent = q.sent /\ x.waited = q.waited
               /\ x.replayable = q.replayable /\ x.suppressHold = q.suppressHold
               /\ x.failed = q.failed /\ x.pc = q.pc /\ x.last = q.last /\ x.path = q.path
               /\ x.rest = q.rest /\ x.on = q.on
  BY DEF Progress

LEMMA ViewTypes ==
    ASSUME PoolTypes
    PROVE  /\ View \in Views
           /\ NoPiMarks /\ host = "pi" => \A r \in Accounts : View[r] # "marked"
<1>1. "free" \in Conditions
  BY DEF Conditions
<1>2. \A r \in Accounts : account[r].is \in Conditions
  BY DEF PoolTypes
<1>3. \A r \in Accounts : View[r] \in {"free", account[r].is}
  BY DEF View
<1>4. View \in Views
  BY <1>1, <1>2 DEF View, Views
<1> QED BY <1>3, <1>4 DEF NoPiMarks

(***************************************************************************)
(* PoolRequest: routing a request                                           *)
(***************************************************************************)
LEMMA NothingSent == IsInjective(<<>>) /\ Range(<<>>) = {}
  BY DEF IsInjective, Range

(* Pi waits, once, for an account that is limited.                          *)
LEMMA WaitFacts ==
    ASSUME NEW q \in Progress, NEW r \in Accounts, NEW target \in Nat,
           host = "pi", ~q.waited, ~q.failed, q.replayable, ~q.suppressHold, IsInjective(q.sent)
    PROVE  LET x == policyResult(q, r, target)
           IN  x \in Progress /\ RequestInv(x) /\ x.pc = "waiting" /\ x.on = r
                 /\ x.failed = q.failed
<1> DEFINE x == policyResult(q, r, target)
<1>1. /\ x \in Progress /\ x.pc = "waiting" /\ x.on = r /\ x.waited = q.waited
      /\ x.failed = q.failed /\ x.replayable = q.replayable /\ x.suppressHold = q.suppressHold
      /\ x.sent = q.sent
  BY DEF policyResult, Progress
<1> HIDE DEF x
<1>2. RequestInv(x)
  BY <1>1 DEF RequestInv, SentAsViewed, SentOnce, NotReplayed, Live
<1> QED BY <1>1, <1>2 DEF x

LEMMA TerminalFacts ==
    ASSUME NEW q \in Progress, NEW limited, limited \subseteq Accounts, now \in Nat,
           host = "pi" => ~q.failed /\ q.replayable /\ ~q.suppressHold,
           ~q.waited => IsInjective(q.sent),
           NEW x \in TerminalWaits(q, limited)
    PROVE  /\ x \in Progress /\ RequestInv(x) /\ x.pc = "waiting"
           /\ host = "pi" /\ ~q.waited
<1>1. PICK r \in IF host = "pi" /\ ~q.waited THEN limited ELSE {},
           t \in {n \in now + 1 .. now + MaxWait : n <= MaxNow} :
             x = policyResult(q, r, t)
  <2> DEFINE F(r, t) == policyResult(q, r, t)
             S == IF host = "pi" /\ ~q.waited THEN limited ELSE {}
             T == {n \in now + 1 .. now + MaxWait : n <= MaxNow}
  <2>1. TerminalWaits(q, limited) = {F(r, t) : r \in S, t \in T}
    BY DEF TerminalWaits
  <2> HIDE DEF F, S, T
  <2>2. \E r \in S, t \in T : x = F(r, t)
    BY <2>1
  <2> QED BY <2>2 DEF F, S, T
<1>2. host = "pi" /\ ~q.waited /\ r \in Accounts
  BY <1>1
<1>3. t \in Nat
  BY <1>1, PoolConstants
<1> QED BY <1>1, <1>2, <1>3, WaitFacts

LEMMA OrderedFacts ==
    ASSUME NEW q \in Progress, Routable(q), NEW v \in Views, NEW R, R \subseteq Accounts,
           ~q.waited => R = Accounts, now \in Nat, NEW x \in serveOrdered(q, v, R)
    PROVE  /\ x \in Progress /\ RequestInv(x)
           /\ x.pc = "waiting" => host = "pi" /\ ~q.waited
           /\ x.pc # "sending" /\ ~x.failed
<1> DEFINE plan == planOrdered(v, R, mode, q.replayable)
           viewed == [q EXCEPT !.view = v]
<1>1. /\ viewed \in Progress /\ viewed.view = v /\ viewed.sent = q.sent
      /\ viewed.waited = q.waited /\ viewed.replayable = q.replayable
      /\ viewed.suppressHold = q.suppressHold /\ viewed.failed = q.failed
  BY ViewedFields
<1>2. q.replayable \in BOOLEAN /\ q.failed = FALSE
  BY DEF Progress, Routable
<1>3. /\ plan \in Seq(Accounts)
      /\ q.replayable => IsInjective(plan)
      /\ ~q.replayable => Len(plan) <= 1
      /\ \A r \in Range(plan) : MayAsk(v, R, q.replayable, r)
  BY <1>2, PlanFacts
<1>4. \/ plan # <<>> /\ x = Ready(viewed, "ordered", Head(plan), Tail(plan))
      \/ x = Done(viewed, "refused")
      \/ x \in TerminalWaits(viewed, terminalFacts(v, R))
  BY Zenon DEF serveOrdered
<1> HIDE DEF plan, viewed
<1>5. CASE plan # <<>> /\ x = Ready(viewed, "ordered", Head(plan), Tail(plan))
  <2>1. /\ Head(plan) \in Accounts /\ Head(plan) \in Range(plan)
        /\ Tail(plan) \in Seq(Accounts) /\ Range(Tail(plan)) \subseteq Range(plan)
        /\ Len(Tail(plan)) = Len(plan) - 1
        /\ IsInjective(plan) => IsInjective(Tail(plan)) /\ Head(plan) \notin Range(Tail(plan))
    BY <1>3, <1>5, HeadAndTail
  <2>2. /\ x \in Progress /\ x.pc = "ready" /\ x.path = "ordered" /\ x.on = Head(plan)
        /\ x.rest = Tail(plan) /\ x.replayable = q.replayable /\ x.suppressHold = q.suppressHold
        /\ x.waited = q.waited /\ x.sent = q.sent /\ x.view = v /\ x.failed = q.failed
    <3> DEFINE first == Head(plan)
               later == Tail(plan)
    <3>1. first \in Accounts /\ later \in Seq(Accounts) /\ x = Ready(viewed, "ordered", first, later)
      BY <1>5, <2>1
    <3> HIDE DEF first, later
    <3>2. /\ x \in Progress /\ x.pc = "ready" /\ x.path = "ordered" /\ x.on = first
          /\ x.rest = later /\ x.replayable = viewed.replayable
          /\ x.suppressHold = viewed.suppressHold /\ x.waited = viewed.waited
          /\ x.sent = viewed.sent /\ x.view = viewed.view /\ x.failed = viewed.failed
      BY <1>1, <3>1, ReadyFields DEF Paths
    <3> QED BY <1>1, <3>2 DEF first, later
  <2>3. \A r \in Range(plan) : Fit(x, r)
    <3>1. ASSUME NEW r \in Range(plan), MayAsk(v, R, q.replayable, r)
          PROVE  Fit(x, r)
      <4>1. v[r] \notin Barred
        BY <3>1 DEF MayAsk
      <4>2. q.replayable /\ ~q.waited /\ v[r] # "free" => \A a \in Accounts : v[a] # "free"
        BY <3>1 DEF MayAsk, Free
      <4> QED BY <2>2, <4>1, <4>2 DEF Fit
    <3> QED BY <1>3, <3>1
  <2>4. SentAsViewed(x)
    BY <2>1, <2>2, <2>3 DEF SentAsViewed
  <2>5. ~q.replayable => Tail(plan) = <<>>
    <3>1. ~q.replayable => Len(Tail(plan)) = 0
      BY <1>3, <2>1
    <3> QED BY <2>1, <3>1
  <2>6. Tail(plan) = <<>> => IsInjective(Tail(plan)) /\ Range(Tail(plan)) = {}
    BY NothingSent
  <2>7. ~q.waited => q.sent = <<>>
    BY DEF Routable
  <2>8. IsInjective(Tail(plan)) /\ Head(plan) \notin Range(Tail(plan))
    BY <1>2, <1>3, <2>1, <2>5, <2>6
  <2>9. SentOnce(x)
    BY <2>2, <2>7, <2>8, NothingSent DEF SentOnce, Live
  <2>10. NotReplayed(x)
    BY <2>2, <2>5, <2>7 DEF NotReplayed, Routable
  <2> QED BY <2>2, <2>4, <2>9, <2>10 DEF RequestInv, Routable
<1>6. CASE x = Done(viewed, "refused")
  <2>1. viewed.failed \in BOOLEAN /\ "refused" \in Answers
    BY <1>1, <1>2 DEF Answers
  <2> QED BY <1>1, <1>2, <1>6, <2>1, IdleProgress
<1>7. CASE x \in TerminalWaits(viewed, terminalFacts(v, R))
  <2>1. terminalFacts(v, R) \subseteq Accounts
    BY DEF terminalFacts
  <2>2. ~viewed.waited => IsInjective(viewed.sent)
    BY <1>1, NothingSent DEF Routable
  <2>3. host = "pi" => ~viewed.failed /\ viewed.replayable /\ ~viewed.suppressHold
    BY <1>1 DEF Routable
  <2>4. x \in Progress /\ RequestInv(x) /\ x.pc = "waiting" /\ host = "pi" /\ ~viewed.waited
    BY <1>1, <1>7, <2>1, <2>2, <2>3, TerminalFacts
  <2> QED BY <1>1, <2>4 DEF RequestInv, Progress
<1> QED BY <1>4, <1>5, <1>6, <1>7

(* What a send on the sticky path needs: an account that may be asked.       *)
LEMMA StickySendFacts ==
    ASSUME NEW q \in Progress, Routable(q), q.replayable, NEW v \in Views, NEW r \in Accounts,
           v[r] \notin Barred, ~q.waited /\ v[r] # "free" => \A a \in Accounts : v[a] # "free"
    PROVE  LET x == Ready([q EXCEPT !.view = v], "sticky", r, <<>>)
           IN  x \in Progress /\ RequestInv(x) /\ x.pc = "ready" /\ x.waited = q.waited /\ ~x.failed
<1> DEFINE viewed == [q EXCEPT !.view = v]
           x == Ready(viewed, "sticky", r, <<>>)
<1>1. /\ viewed \in Progress /\ viewed.view = v /\ viewed.sent = q.sent
      /\ viewed.waited = q.waited /\ viewed.replayable = q.replayable
      /\ viewed.suppressHold = q.suppressHold /\ viewed.failed = q.failed
  BY ViewedFields
<1> HIDE DEF viewed
<1>2. /\ x \in Progress /\ x.pc = "ready" /\ x.path = "sticky" /\ x.on = r
      /\ x.rest = <<>> /\ x.replayable = q.replayable /\ x.suppressHold = q.suppressHold
      /\ x.waited = q.waited /\ x.sent = q.sent /\ x.view = v /\ x.failed = q.failed
  <2> DEFINE none == <<>>
  <2>1. /\ none \in Seq(Accounts) /\ "sticky" \in Paths /\ x = Ready(viewed, "sticky", r, none)
        /\ viewed \in Progress
    BY <1>1 DEF Paths
  <2> HIDE DEF none, x
  <2>2. /\ x \in Progress /\ x.pc = "ready" /\ x.path = "sticky" /\ x.on = r
        /\ x.rest = none /\ x.replayable = viewed.replayable
        /\ x.suppressHold = viewed.suppressHold /\ x.waited = viewed.waited
        /\ x.sent = viewed.sent /\ x.view = viewed.view /\ x.failed = viewed.failed
    BY <2>1, ReadyFields
  <2> QED BY <1>1, <2>2 DEF none
<1> HIDE DEF x
<1>3. Fit(x, r)
  BY <1>2 DEF Fit
<1>4. SentAsViewed(x)
  BY <1>2, <1>3, NothingSent DEF SentAsViewed
<1>5. SentOnce(x)
  BY <1>2, NothingSent DEF SentOnce, Live, Routable
<1>6. NotReplayed(x)
  BY <1>2 DEF NotReplayed
<1>7. RequestInv(x)
  BY <1>2, <1>4, <1>5, <1>6 DEF RequestInv, Routable
<1> QED BY <1>2, <1>7 DEF x, viewed, Routable

(* What routing says of an account of the roster                             *)
LEMMA RoutedFacts ==
    ASSUME NEW v, NEW R, R \subseteq Accounts, NEW p \in R
    PROVE  LET kind == routePinnedRow(v, R, p)
           IN  /\ kind \in {"serve", "last-path", "move", "detour", "none"}
               /\ kind \in {"serve", "last-path"} => MayAsk(v, R, TRUE, p)
               /\ kind = "move" => v[p] \notin {"free", "unknown", "marked", "backoff"}
               /\ kind = "detour" => v[p] # "free"
               /\ p \in Serving(v, R) \/ (v[p] = "credits" /\ Free(v, R) = {}) =>
                    /\ kind \in {"serve", "move"}
                    /\ kind = "move" => Credits(v, R) \ {p} # {}
<1> DEFINE kind == routePinnedRow(v, R, p)
           serving == Serving(v, R)
           confirmed == p \in Confirmed(v, R) \/ v[p] = "killed"
           onCredits == v[p] = "credits"
           othersOnCredits == Credits(v, R) \ {p} # {}
           toLastPath == Free(v, R) = {}
<1>1. /\ p \in serving => v[p] = "free" \/ (v[p] = "budget" /\ toLastPath)
      /\ p \in Confirmed(v, R) => v[p] \in {"spent", "credits", "budget"}
      /\ onCredits => p \in Confirmed(v, R)
      /\ v[p] = "free" => p \in serving
      /\ v[p] = "free" => ~toLastPath
      /\ serving = {} => toLastPath
  BY ServingFacts
<1>2. CASE p \in serving
  <2>1. kind = IF toLastPath /\ othersOnCredits THEN "move" ELSE "serve"
    BY <1>2, Zenon DEF routePinnedRow
  <2> QED BY <1>1, <1>2, <2>1 DEF MayAsk, Barred
<1>3. CASE p \notin serving /\ serving # {}
  <2>1. kind = IF ~confirmed THEN "detour"
               ELSE IF toLastPath /\ onCredits THEN "serve" ELSE "move"
    BY <1>3, Zenon DEF routePinnedRow
  <2> QED BY <1>1, <1>3, <2>1 DEF MayAsk, Barred
<1>4. CASE p \notin serving /\ serving = {}
  <2>1. kind = IF onCredits THEN "serve"
               ELSE IF othersOnCredits THEN (IF confirmed THEN "move" ELSE "detour")
               ELSE IF confirmed /\ v[p] # "killed" THEN "last-path" ELSE "none"
    BY <1>4, Zenon DEF routePinnedRow
  <2> QED BY <1>1, <1>4, <2>1 DEF MayAsk, Barred
<1> QED BY <1>2, <1>3, <1>4

(* Where a session that leaves p may go                                      *)
LEMMA MovedFacts ==
    ASSUME NEW v, NEW R, R \subseteq Accounts, NEW p
    PROVE  LET moved == migrate(v, R, p, p)
           IN  /\ \A r \in moved : r \in Accounts /\ MayAsk(v, R \ {p}, TRUE, r)
               /\ moved = {} => Free(v, R \ {p}) = {} /\ Credits(v, R \ {p}) = {}
<1> DEFINE rest == R \ {p}
<1>1. migrate(v, R, p, p) = selectStickyRow(v, rest)
  BY DEF migrate, placeStickyPin
<1>2. rest \subseteq Accounts
  OBVIOUS
<1> HIDE DEF rest
<1>3. \A r \in selectStickyRow(v, rest) : MayAsk(v, rest, TRUE, r)
  BY <1>2, SelectFacts
<1>4. ASSUME selectStickyRow(v, rest) = {}
      PROVE  Free(v, rest) = {} /\ Credits(v, rest) = {}
  <2>1. Free(v, rest) = {}
    BY <1>4 DEF selectStickyRow
  <2>2. Only(Roster, Credits(v, rest)) = <<>>
    BY <1>4, <2>1 DEF selectStickyRow
  <2>3. Range(Only(Roster, Credits(v, rest))) = {}
    BY <2>2, NothingSent
  <2>4. Range(Only(Roster, Credits(v, rest))) = Accounts \cap Credits(v, rest)
    BY RosterIsOrder, OnlyKeeps
  <2>5. Credits(v, rest) \subseteq Accounts
    BY <1>2 DEF Credits
  <2> QED BY <2>1, <2>3, <2>4, <2>5
<1> QED BY <1>1, <1>2, <1>3, <1>4 DEF MayAsk, rest

(* A session's request on the sticky path: what it is sent on, its view lets *)
(* serve; and the session keeps its pin unless the view is against it, or    *)
(* the pin was left out after a wait.                                        *)
LEMMA StickyFacts ==
    ASSUME NEW q \in Progress, Routable(q), q.replayable, NEW v \in Views,
           NEW R, R \subseteq Accounts, ~q.waited => R = Accounts, now \in Nat,
           pin \in Accounts \cup {None}, NEW s \in serveSticky(q, v, R)
    PROVE  /\ s.q \in Progress /\ RequestInv(s.q) /\ s.pin \in Accounts \cup {None}
           /\ s.q.pc = "waiting" => host = "pi" /\ ~q.waited
           /\ s.q.pc # "sending" /\ ~s.q.failed
           /\ s.pin # pin =>
                /\ pin \in R => v[pin] \notin {"free", "unknown"}
                /\ pin \notin R => s.q.pc = "ready" /\ s.q.waited = q.waited
<1> DEFINE viewed == [q EXCEPT !.view = v]
           ordered(p) == {[q |-> x, pin |-> p] : x \in serveOrdered(q, v, R)}
           send(r, p) == {[q |-> Ready(viewed, "sticky", r, <<>>), pin |-> p]}
           moved(p) == migrate(v, R, p, p)
           routed(p) ==
             LET kind == routePinnedRow(v, R, p)
             IN CASE kind \in {"serve", "last-path"} -> send(p, p)
                  [] kind = "none" -> ordered(p)
                  [] kind = "move" ->
                       IF moved(p) # {} THEN UNION {send(r, r) : r \in moved(p)}
                       ELSE IF v[p] = "killed" THEN ordered(p) ELSE send(p, p)
                  [] kind = "detour" ->
                       IF moved(p) = {} THEN ordered(p)
                       ELSE UNION {send(r, p) : r \in moved(p)}
           placed == placeStickyPin(v, R, pin, {})
           (* a request that is served, refused or waits in order            *)
           Ordered == /\ s.q \in Progress /\ RequestInv(s.q)
                      /\ s.q.pc = "waiting" => host = "pi" /\ ~q.waited
                      /\ s.q.pc # "sending" /\ ~s.q.failed
           (* one that is sent                                               *)
           Sends == Ordered /\ s.q.pc = "ready" /\ s.q.waited = q.waited
<1>1. serveSticky(q, v, R) = IF placed = {} THEN ordered(pin) ELSE UNION {routed(p) : p \in placed}
  BY Zenon DEF serveSticky
<1>2. ASSUME NEW p, s \in ordered(p)
      PROVE  Ordered /\ s.pin = p
  <2>1. PICK x \in serveOrdered(q, v, R) : s = [q |-> x, pin |-> p]
    BY <1>2
  <2>2. s.q = x /\ s.pin = p
    BY <2>1
  <2>3. /\ x \in Progress /\ RequestInv(x)
        /\ x.pc = "waiting" => host = "pi" /\ ~q.waited
        /\ x.pc # "sending" /\ ~x.failed
    BY OrderedFacts
  <2> QED BY <2>2, <2>3
<1>3. ASSUME NEW r \in Accounts, NEW p, s \in send(r, p), v[r] \notin Barred,
             ~q.waited /\ v[r] # "free" => \A a \in Accounts : v[a] # "free"
      PROVE  Sends /\ s.pin = p
  <2>1. s.q = Ready(viewed, "sticky", r, <<>>) /\ s.pin = p
    BY <1>3
  <2>2. LET x == Ready(viewed, "sticky", r, <<>>)
        IN  x \in Progress /\ RequestInv(x) /\ x.pc = "ready" /\ x.waited = q.waited /\ ~x.failed
    BY <1>3, StickySendFacts
  <2> HIDE DEF viewed
  <2> QED BY <2>1, <2>2
<1> HIDE DEF ordered, send
<1>4. ASSUME NEW p \in R, s \in routed(p)
      PROVE  /\ Ordered /\ s.pin \in Accounts
             /\ s.pin # p => Sends /\ v[p] \notin {"free", "unknown"}
             /\ p \in Serving(v, R) \/ (v[p] = "credits" /\ Free(v, R) = {}) => Sends
  <2> DEFINE kind == routePinnedRow(v, R, p)
  <2>1. /\ kind \in {"serve", "last-path", "move", "detour", "none"}
        /\ kind \in {"serve", "last-path"} => MayAsk(v, R, TRUE, p)
        /\ kind = "move" => v[p] \notin {"free", "unknown", "marked", "backoff"}
        /\ kind = "detour" => v[p] # "free"
        /\ p \in Serving(v, R) \/ (v[p] = "credits" /\ Free(v, R) = {}) =>
             kind \in {"serve", "move"} /\ (kind = "move" => Credits(v, R) \ {p} # {})
    BY RoutedFacts
  <2>2. /\ \A r \in moved(p) : r \in Accounts /\ MayAsk(v, R \ {p}, TRUE, r)
        /\ moved(p) = {} => Free(v, R \ {p}) = {} /\ Credits(v, R \ {p}) = {}
    BY MovedFacts
  <2>3. p \in Accounts /\ Credits(v, R \ {p}) = Credits(v, R) \ {p}
    BY DEF Credits
  <2>4. routed(p) = CASE kind \in {"serve", "last-path"} -> send(p, p)
                      [] kind = "none" -> ordered(p)
                      [] kind = "move" ->
                           IF moved(p) # {} THEN UNION {send(r, r) : r \in moved(p)}
                           ELSE IF v[p] = "killed" THEN ordered(p) ELSE send(p, p)
                      [] kind = "detour" ->
                           IF moved(p) = {} THEN ordered(p)
                           ELSE UNION {send(r, p) : r \in moved(p)}
    OBVIOUS
  <2> HIDE DEF routed, kind, moved, Ordered
  (* an account that is moved to, when the account left has no free quota    *)
  <2>5. ASSUME NEW r \in moved(p), NEW k, s \in send(r, k), v[p] # "free"
        PROVE  Sends /\ s.pin = k /\ r \in Accounts
    <3>1. r \in Accounts /\ v[r] \notin Barred /\ (v[r] # "free" => Free(v, R \ {p}) = {})
      BY <2>2 DEF MayAsk
    <3>2. ~q.waited /\ v[r] # "free" => \A a \in Accounts : v[a] # "free"
      BY <2>5, <3>1 DEF Free
    <3> QED BY <1>3, <2>5, <3>1, <3>2
  <2>6. CASE kind \in {"serve", "last-path"}
    <3>1. s \in send(p, p)
      BY <1>4, <2>4, <2>6
    <3>2. v[p] \notin Barred /\ (~q.waited /\ v[p] # "free" => \A a \in Accounts : v[a] # "free")
      BY <2>1, <2>6 DEF MayAsk, Free
    <3> QED BY <1>3, <2>3, <3>1, <3>2
  <2>7. CASE kind = "none"
    <3>1. s \in ordered(p)
      BY <1>4, <2>4, <2>7
    <3> QED BY <1>2, <2>1, <2>3, <2>7, <3>1
  <2>8. CASE kind = "move" /\ moved(p) # {}
    <3>1. PICK r \in moved(p) : s \in send(r, r)
      BY <1>4, <2>4, <2>8
    <3>2. Sends /\ s.pin = r /\ r \in Accounts
      BY <2>1, <2>5, <2>8, <3>1
    <3> QED BY <2>1, <2>8, <3>2
  <2>9. CASE kind = "move" /\ moved(p) = {} /\ v[p] = "killed"
    <3>1. s \in ordered(p)
      BY <1>4, <2>4, <2>9
    <3>2. p \notin Serving(v, R) /\ v[p] # "credits"
      BY <2>1, <2>2, <2>3, <2>9
    <3> QED BY <1>2, <2>3, <3>1, <3>2
  <2>10. CASE kind = "move" /\ moved(p) = {} /\ v[p] # "killed"
    <3>1. s \in send(p, p)
      BY <1>4, <2>4, <2>10
    <3>2. v[p] \notin Barred
      BY <2>1, <2>10 DEF Barred
    <3>3. ~q.waited => \A a \in Accounts : v[a] # "free"
      BY <2>1, <2>2, <2>10 DEF Free
    <3> QED BY <1>3, <2>3, <3>1, <3>2, <3>3
  <2>11. CASE kind = "detour" /\ moved(p) = {}
    <3>1. s \in ordered(p)
      BY <1>4, <2>4, <2>11
    <3> QED BY <1>2, <2>1, <2>3, <2>11, <3>1
  <2>12. CASE kind = "detour" /\ moved(p) # {}
    <3>1. PICK r \in moved(p) : s \in send(r, p)
      BY <1>4, <2>4, <2>12
    <3>2. Sends /\ s.pin = p
      BY <2>1, <2>5, <2>12, <3>1
    <3> QED BY <2>3, <3>2
  <2> QED BY <2>1, <2>6, <2>7, <2>8, <2>9, <2>10, <2>11, <2>12
<1> HIDE DEF routed, Ordered, Sends
<1>5. CASE placed = {}
  <2>1. s \in ordered(pin)
    BY <1>1, <1>5
  <2> QED BY <1>2, <2>1 DEF Ordered
<1>6. CASE placed # {}
  <2>1. PICK p \in placed : s \in routed(p)
    BY <1>1, <1>6
  <2>2. CASE pin \in R \ Excluded(v, R)
    <3>1. p = pin
      BY <2>1, <2>2 DEF placeStickyPin
    <3> QED BY <1>4, <2>1, <2>2, <3>1 DEF Ordered, Sends
  <2>3. CASE pin \notin R \ Excluded(v, R)
    <3>1. p \in selectStickyRow(v, R)
      BY <2>1, <2>3 DEF placeStickyPin
    <3>2. p \in R /\ (p \in Serving(v, R) \/ (v[p] = "credits" /\ Free(v, R) = {}))
      BY <3>1, SelectFacts DEF MayAsk
    <3>3. pin \in R => v[pin] \notin {"free", "unknown"}
      BY <2>3 DEF Excluded
    <3> QED BY <1>4, <2>1, <3>2, <3>3 DEF Ordered, Sends
  <2> QED BY <2>2, <2>3
<1> QED BY <1>5, <1>6

(* Routing a request of the session                                          *)
LEMMA RoutesFacts ==
    ASSUME NEW q \in Progress, Routable(q), NEW v \in Views,
           NEW R, R \subseteq Accounts, ~q.waited => R = Accounts, now \in Nat,
           pin \in Accounts \cup {None}, NEW s \in Routes(q, v, R)
    PROVE  /\ s.q \in Progress /\ RequestInv(s.q) /\ s.pin \in Accounts \cup {None}
           /\ s.q.pc = "waiting" => host = "pi" /\ ~q.waited
           /\ s.q.pc # "sending" /\ ~s.q.failed
           /\ s.pin # pin =>
                /\ pin \in R => v[pin] \notin {"free", "unknown"}
                /\ pin \notin R => s.q.pc = "ready" /\ s.q.waited = q.waited
<1>1. CASE mode = "sticky-balanced" /\ q.replayable
  <2>1. s \in serveSticky(q, v, R)
    BY <1>1, Zenon DEF Routes
  <2> QED BY <1>1, <2>1, StickyFacts
<1>2. CASE ~(mode = "sticky-balanced" /\ q.replayable)
  <2>1. Routes(q, v, R) = {[q |-> x, pin |-> pin] : x \in serveOrdered(q, v, R)}
    BY <1>2, Zenon DEF Routes
  <2>2. PICK x \in serveOrdered(q, v, R) : s = [q |-> x, pin |-> pin]
    BY <2>1
  <2>3. s.q = x /\ s.pin = pin
    BY <2>2
  <2>4. /\ x \in Progress /\ RequestInv(x)
        /\ x.pc = "waiting" => host = "pi" /\ ~q.waited
        /\ x.pc # "sending" /\ ~x.failed
    BY OrderedFacts
  <2> QED BY <2>3, <2>4
<1> QED BY <1>1, <1>2

Becomes(i, x) == req' = [req EXCEPT ![i] = x]

(* What a step of request i does, whatever the action: the request becomes   *)
(* x, and the session's pin and hold change only as they may.                *)
Steps(i, x) ==
    /\ Becomes(i, x) /\ req[i].pc # "done"
    /\ x \in Progress /\ RequestInv(x) /\ pin' \in Accounts \cup {None}
    /\ x.pc = "waiting" => host = "pi" /\ ~req[i].waited
    /\ pin' # pin =>
         \/ pin \notin Accounts
         \/ View[pin] \notin {"free", "unknown"}
         \/ req[i].pc = "sending" /\ x.path = "moved"
         \/ x.waited /\ req[i].on = pin

(* The hold is kept, dropped, or OpenCode's first one for this request.      *)
HoldsOnce(i) ==
    \/ pending' \in {pending, NoHold}
    \/ pending' \in [on : Accounts, target : Nat] /\ host # "pi" /\ ~req[i].suppressHold

LEMMA RouteSteps ==
    ASSUME PoolInv, NEW i \in Requests, NEW q \in Progress, Routable(q),
           NEW R, R \subseteq Accounts, ~q.waited => R = Accounts, Route(i, q, R),
           req[i].pc # "done", req[i].waited => q.waited,
           pin \in Accounts => pin \in R \/ (q.waited /\ req[i].on = pin)
    PROVE  \E x : Steps(i, x)
<1>1. View \in Views /\ now \in Nat /\ pin \in Accounts \cup {None}
  BY ViewTypes DEF PoolInv, PoolTypes
<1>2. PICK s \in Routes(q, View, R) : req' = [req EXCEPT ![i] = s.q] /\ pin' = s.pin
  BY Zenon DEF Route
<1>3. /\ s.q \in Progress /\ RequestInv(s.q) /\ s.pin \in Accounts \cup {None}
      /\ s.q.pc = "waiting" => host = "pi" /\ ~q.waited
      /\ s.pin # pin =>
           /\ pin \in R => View[pin] \notin {"free", "unknown"}
           /\ pin \notin R => s.q.pc = "ready" /\ s.q.waited = q.waited
  BY <1>1, <1>2, RoutesFacts
<1>4. s.q.pc = "waiting" => ~req[i].waited
  BY <1>3
<1> DEFINE x == s.q
<1> HIDE DEF x
<1>5. Steps(i, x)
  BY <1>2, <1>3, <1>4 DEF Steps, Becomes, x
<1> QED BY <1>5

(* A request that ends                                                       *)
LEMMA DoneSteps ==
    ASSUME PoolInv, NEW i \in Requests, NEW q, q.failed \in BOOLEAN,
           NEW answer \in Answers,
           Becomes(i, Done(q, answer)), pin' = pin, req[i].pc # "done"
    PROVE  \E x : Steps(i, x)
<1> DEFINE x == Done(q, answer)
<1>1. x \in Progress /\ RequestInv(x) /\ x.pc = "done"
  BY IdleProgress
<1>2. Becomes(i, x)
  OBVIOUS
<1> HIDE DEF x
<1>3. Steps(i, x)
  BY <1>1, <1>2 DEF Steps, PoolInv, PoolTypes
<1> QED BY <1>3

(* The next account of the order                                             *)
LEMMA NextInOrder ==
    ASSUME NEW q \in Progress, RequestInv(q), Live(q), q.path = "ordered", q.rest # <<>>,
           NEW x, x = Ready(q, "ordered", Head(q.rest), Tail(q.rest))
    PROVE  x \in Progress /\ RequestInv(x) /\ x.pc = "ready"
<1> DEFINE first == Head(q.rest)
           later == Tail(q.rest)
<1>1. q.rest \in Seq(Accounts) /\ q.sent \in Seq(Accounts)
  BY DEF Progress
<1>2. /\ first \in Accounts /\ first \in Range(q.rest)
      /\ later \in Seq(Accounts) /\ Range(later) \subseteq Range(q.rest)
      /\ IsInjective(q.rest) => IsInjective(later) /\ first \notin Range(later)
  BY <1>1, HeadAndTail
<1>3. "ordered" \in Paths
  BY DEF Paths
<1> HIDE DEF first, later
<1>4. x = Ready(q, "ordered", first, later)
  BY DEF first, later
<1>5. /\ x \in Progress /\ x.pc = "ready" /\ x.path = "ordered" /\ x.on = first /\ x.rest = later
      /\ x.replayable = q.replayable /\ x.suppressHold = q.suppressHold
      /\ x.waited = q.waited /\ x.sent = q.sent /\ x.view = q.view /\ x.failed = q.failed
  BY <1>2, <1>3, <1>4, ReadyFields
<1>6. q.replayable /\ ~q.failed
  BY DEF RequestInv, NotReplayed, Live
<1>7. /\ q.view \in Views
      /\ \A r \in Range(q.rest) : Fit(q, r)
  BY DEF RequestInv, SentAsViewed
<1>8. \A r : Fit(q, r) => Fit(x, r)
  BY <1>5 DEF Fit
<1>9. SentAsViewed(x)
  BY <1>2, <1>5, <1>7, <1>8 DEF SentAsViewed
<1>10. ~q.waited => /\ IsInjective(q.sent) /\ IsInjective(q.rest)
                    /\ Range(q.rest) \cap Range(q.sent) = {}
  BY DEF RequestInv, SentOnce
<1>11. SentOnce(x)
  BY <1>2, <1>5, <1>10 DEF SentOnce, Live
<1>12. NotReplayed(x)
  BY <1>5, <1>6 DEF NotReplayed
<1> QED BY <1>5, <1>6, <1>9, <1>11, <1>12 DEF RequestInv

(* The account a session was held for is sent to again                       *)
LEMMA ReadyEmpty ==
    ASSUME NEW q \in Progress, NEW path \in Paths, NEW r \in Accounts,
           NEW x, x = Ready(q, path, r, <<>>)
    PROVE  /\ x \in Progress /\ x.pc = "ready" /\ x.path = path /\ x.on = r /\ x.rest = <<>>
           /\ x.replayable = q.replayable /\ x.suppressHold = q.suppressHold
           /\ x.waited = q.waited /\ x.sent = q.sent /\ x.view = q.view /\ x.failed = q.failed
<1> DEFINE none == <<>>
<1>1. none \in Seq(Accounts) /\ x = Ready(q, path, r, none)
  OBVIOUS
<1> HIDE DEF none
<1>2. /\ x \in Progress /\ x.pc = "ready" /\ x.path = path /\ x.on = r /\ x.rest = none
      /\ x.replayable = q.replayable /\ x.suppressHold = q.suppressHold
      /\ x.waited = q.waited /\ x.sent = q.sent /\ x.view = q.view /\ x.failed = q.failed
  BY <1>1, ReadyFields
<1> QED BY <1>2 DEF none

LEMMA HeldFacts ==
    ASSUME NEW w \in Progress, NEW r \in Accounts, NEW x, x = Ready(w, "held", r, <<>>)
    PROVE  /\ w.view \in Views /\ w.view[r] = "free" /\ w.replayable /\ ~w.failed
           /\ w.waited \/ w.sent = <<>>
           /\ w.waited <=> host = "pi"
           /\ w.suppressHold => host = "opencode"
           => x \in Progress /\ RequestInv(x) /\ x.pc = "ready" /\ x.waited = w.waited
<1>1. "held" \in Paths
  BY DEF Paths
<1>2. /\ x \in Progress /\ x.pc = "ready" /\ x.path = "held" /\ x.on = r
      /\ x.rest = <<>> /\ x.replayable = w.replayable
      /\ x.suppressHold = w.suppressHold /\ x.waited = w.waited
      /\ x.sent = w.sent /\ x.view = w.view /\ x.failed = w.failed
  BY <1>1, ReadyEmpty
<1>3. SUFFICES ASSUME w.view \in Views, w.view[r] = "free", w.replayable, ~w.failed,
                      w.waited \/ w.sent = <<>>, w.waited <=> host = "pi",
                      w.suppressHold => host = "opencode"
               PROVE  x \in Progress /\ RequestInv(x) /\ x.pc = "ready" /\ x.waited = w.waited
  OBVIOUS
<1>4. Fit(x, r)
  BY <1>2, <1>3 DEF Fit, Barred
<1>5. SentAsViewed(x)
  BY <1>2, <1>3, <1>4, NothingSent DEF SentAsViewed
<1>6. SentOnce(x)
  BY <1>2, <1>3, NothingSent DEF SentOnce, Live
<1>7. NotReplayed(x)
  BY <1>2, <1>3 DEF NotReplayed
<1> QED BY <1>2, <1>3, <1>5, <1>6, <1>7 DEF RequestInv

(***************************************************************************)
(* PoolRequest: the steps of a request                                      *)
(***************************************************************************)
LEMMA RequestFacts ==
    ASSUME PoolInv, NEW i \in Requests
    PROVE  /\ req[i] \in Progress /\ RequestInv(req[i]) /\ View \in Views /\ now \in Nat
           /\ pin \in Accounts \cup {None} /\ pending \in [on : Accounts, target : Nat] \cup {NoHold}
           /\ host = "pi" => \A r \in Accounts : View[r] # "marked"
  BY ViewTypes DEF PoolInv, PoolTypes

LEMMA StartSteps ==
    ASSUME PoolInv, NEW i \in Requests, Start(i)
    PROVE  (\E x : Steps(i, x)) /\ HoldsOnce(i)
<1>1. /\ View \in Views /\ now \in Nat /\ pin \in Accounts \cup {None}
      /\ pending \in [on : Accounts, target : Nat] \cup {NoHold}
  BY RequestFacts
<1>2. host = "opencode" /\ req[i].pc = "idle"
  BY DEF Start
<1>3. ~req[i].waited /\ host # "pi"
  BY <1>2 DEF PoolInv, RequestInv
<1>4. PICK replayable, sameModel \in BOOLEAN :
         consumeHold(i, [Idle EXCEPT !.replayable = replayable], sameModel)
  BY DEF Start
<1> DEFINE q == [Idle EXCEPT !.replayable = replayable]
           again == [q EXCEPT !.suppressHold = TRUE]
<1>5. /\ q \in Progress /\ ~q.failed /\ ~q.waited /\ ~q.suppressHold /\ q.sent = <<>>
      /\ q.rest = <<>> /\ q.replayable = replayable
  BY IdleProgress DEF Idle, Progress
<1>6. /\ again \in Progress /\ ~again.failed /\ ~again.waited /\ again.suppressHold
      /\ again.sent = <<>> /\ again.rest = <<>> /\ again.replayable = replayable
  BY IdleProgress DEF Idle, Progress
<1>7. Routable(q) /\ Routable(again)
  BY <1>2, <1>5, <1>6 DEF Routable
<1>8. \/ Route(i, q, Accounts) /\ UNCHANGED pending
      \/ /\ pending # NoHold /\ Stands(q, sameModel)
         /\ req' = [req EXCEPT ![i] = Done([q EXCEPT !.view = View], "held")]
         /\ UNCHANGED <<pin, pending>>
      \/ /\ pending # NoHold /\ Stands(q, sameModel)
         /\ View[pending.on] \notin {"spent", "credits"}
         /\ pending' = NoHold
         /\ req' = [req EXCEPT ![i] = Ready([q EXCEPT !.view = View, !.suppressHold = TRUE],
                                            "held", pending.on, <<>>)]
         /\ UNCHANGED pin
      \/ pending' = NoHold /\ Route(i, again, Accounts)
  BY <1>4, Zenon DEF consumeHold, q, again
<1> HIDE DEF q, again
<1>9. HoldsOnce(i)
  BY <1>8 DEF HoldsOnce
<1>10. CASE Route(i, q, Accounts)
  <2>1. /\ q \in Progress /\ Routable(q) /\ Route(i, q, Accounts)
        /\ req[i].pc # "done" /\ ~req[i].waited
    BY <1>2, <1>3, <1>5, <1>7, <1>10
  <2> QED BY <1>9, <2>1, RouteSteps
<1>11. CASE Route(i, again, Accounts)
  <2>1. /\ again \in Progress /\ Routable(again) /\ Route(i, again, Accounts)
        /\ req[i].pc # "done" /\ ~req[i].waited
    BY <1>2, <1>3, <1>6, <1>7, <1>11
  <2> QED BY <1>9, <2>1, RouteSteps
<1>12. CASE /\ req' = [req EXCEPT ![i] = Done([q EXCEPT !.view = View], "held")]
            /\ UNCHANGED <<pin, pending>>
  <2> DEFINE w == [q EXCEPT !.view = View]
  <2>1. w.failed \in BOOLEAN /\ req' = [req EXCEPT ![i] = Done(w, "held")] /\ UNCHANGED pin
    BY <1>5, <1>12 DEF Progress
  <2> HIDE DEF w
  <2>2. req[i].pc # "done"
    BY <1>2
  <2>3. /\ w.failed \in BOOLEAN /\ Becomes(i, Done(w, "held"))
        /\ UNCHANGED pin /\ req[i].pc # "done" /\ "held" \in Answers
    BY <2>1, <2>2 DEF Answers, Becomes
  <2>4. \E x : Steps(i, x)
    BY <2>3, DoneSteps
  <2> QED BY <1>9, <2>4
<1>13. CASE /\ pending # NoHold /\ Stands(q, sameModel)
            /\ View[pending.on] \notin {"spent", "credits"}
            /\ req' = [req EXCEPT ![i] = Ready([q EXCEPT !.view = View, !.suppressHold = TRUE],
                                               "held", pending.on, <<>>)]
            /\ UNCHANGED pin
  <2> DEFINE w == [q EXCEPT !.view = View, !.suppressHold = TRUE]
             r == pending.on
             x == Ready(w, "held", r, <<>>)
  <2>1. /\ w \in Progress /\ ~w.failed /\ ~w.waited /\ w.suppressHold /\ w.sent = <<>>
        /\ w.replayable = q.replayable /\ w.view = View
    BY <1>1, <1>5 DEF Progress
  <2>2. r \in Accounts
    BY <1>1, <1>13
  <2>3. q.replayable /\ View[r] = "free"
    <3>1. q.replayable /\ r \in policyCandidates(View)
      BY <1>2, <1>13 DEF Stands, openAiHoldFacts
    <3>2. View[r] \in Conditions /\ View[r] \notin {"killed", "budget", "unknown", "backoff", "marked"}
      BY <1>1, <2>2, <3>1 DEF policyCandidates, Views
    <3> QED BY <1>13, <3>1, <3>2 DEF Conditions
  <2>4. Becomes(i, x) /\ x = Ready(w, "held", r, <<>>)
    BY <1>13 DEF Becomes
  <2> HIDE DEF w, r, x
  <2>5. x \in Progress /\ RequestInv(x) /\ x.pc = "ready"
    BY <1>1, <1>2, <2>1, <2>2, <2>3, <2>4, HeldFacts
  <2>6. Steps(i, x)
    BY <1>1, <1>2, <1>13, <2>4, <2>5 DEF Steps
  <2> QED BY <1>9, <2>6
<1> QED BY <1>8, <1>9, <1>10, <1>11, <1>12, <1>13

LEMMA PiStartSteps ==
    ASSUME PoolInv, NEW i \in Requests, PiStart(i)
    PROVE  (\E x : Steps(i, x)) /\ HoldsOnce(i)
<1>1. host = "pi" /\ req[i].pc = "idle" /\ Route(i, Idle, Accounts) /\ UNCHANGED pending
  BY DEF PiStart
<1>2. pin \in Accounts \cup {None} /\ ~req[i].waited
  BY <1>1, RequestFacts DEF RequestInv
<1>3. Idle \in Progress /\ ~Idle.waited /\ Routable(Idle)
  BY IdleProgress DEF Idle, Routable
<1> QED BY <1>1, <1>2, <1>3, RouteSteps DEF HoldsOnce

LEMMA SendSteps ==
    ASSUME PoolInv, NEW i \in Requests, Send(i)
    PROVE  (\E x : Steps(i, x)) /\ HoldsOnce(i)
<1> DEFINE q == req[i]
           asked == Append(q.sent, q.on)
           x == [q EXCEPT !.pc = "sending", !.sent = asked]
<1>1. /\ q \in Progress /\ RequestInv(q) /\ q.pc = "ready" /\ pin \in Accounts \cup {None}
      /\ UNCHANGED <<pin, pending>>
  BY RequestFacts DEF Send
<1>2. req' = [req EXCEPT ![i] = x]
  BY DEF Send, PoolInv, PoolTypes
<1>3. q.on \in Accounts /\ q.sent \in Seq(Accounts) /\ q.rest \in Seq(Accounts)
  BY <1>1 DEF RequestInv, SentAsViewed, Live, Progress
<1>4. /\ asked \in Seq(Accounts) /\ Range(asked) = Range(q.sent) \cup {q.on}
      /\ Len(asked) = Len(q.sent) + 1
      /\ IsInjective(q.sent) /\ q.on \notin Range(q.sent) => IsInjective(asked)
  BY <1>3, Appended
<1>5. q.sent = <<>> => asked = <<q.on>> /\ Len(asked) = 1
  BY <1>3
<1> HIDE DEF asked
<1>6. /\ x \in Progress /\ x.pc = "sending" /\ x.path = q.path /\ x.on = q.on
      /\ x.rest = q.rest /\ x.replayable = q.replayable
      /\ x.suppressHold = q.suppressHold /\ x.waited = q.waited
      /\ x.sent = asked /\ x.view = q.view /\ x.failed = q.failed
  BY <1>1, <1>4 DEF Progress
<1> HIDE DEF q, x
<1>7. SentAsViewed(x)
  <2>1. \A r : Fit(q, r) <=> Fit(x, r)
    BY <1>6 DEF Fit
  <2>2. SentAsViewed(q) /\ Live(q) /\ Live(x)
    BY <1>1, <1>6 DEF RequestInv, Live
  <2> QED BY <1>6, <2>1, <2>2 DEF SentAsViewed
<1>8. SentOnce(x)
  <2>1. SentOnce(q) /\ Live(q)
    BY <1>1 DEF RequestInv, Live
  <2> QED BY <1>1, <1>4, <1>5, <1>6, <2>1 DEF SentOnce, Live
<1>9. NotReplayed(x)
  <2>1. ~q.replayable => q.path = "ordered" /\ q.rest = <<>> /\ q.sent = <<>>
    BY <1>1 DEF RequestInv, NotReplayed
  <2>2. ~q.replayable => Len(asked) = 1
    BY <1>5, <2>1, Zenon
  <2>3. Len(asked) = 1 => Len(asked) <= 1
    OBVIOUS
  <2>4. ~x.replayable => x.path = "ordered" /\ x.rest = <<>> /\ Len(x.sent) <= 1
    BY <1>6, <2>1, <2>2, <2>3, Zenon
  <2> QED BY <1>6, <2>4 DEF NotReplayed
<1>10. RequestInv(x)
  BY <1>1, <1>6, <1>7, <1>8, <1>9 DEF RequestInv, Live
<1>11. Steps(i, x)
  BY <1>1, <1>2, <1>6, <1>10 DEF Steps, Becomes, q
<1> QED BY <1>1, <1>11 DEF HoldsOnce

(* Whatever can serve after a wait                                           *)
LEMMA AfterWaitSteps ==
    ASSUME PoolInv, NEW i \in Requests, NEW q \in Progress, Routable(q), q.waited, host = "pi",
           q.on = req[i].on, req[i].pc # "done", AfterWait(i, q)
    PROVE  \E x : Steps(i, x)
<1>1. \/ Becomes(i, Done(q, "refused")) /\ pin' = pin
      \/ Route(i, q, Accounts)
      \/ Route(i, q, Accounts \ {q.on})
  BY Zenon DEF AfterWait, Becomes
<1>2. q.failed \in BOOLEAN /\ "refused" \in Answers
  BY DEF Progress, Answers
<1>3. CASE Becomes(i, Done(q, "refused")) /\ pin' = pin
  BY <1>2, <1>3, DoneSteps
<1>4. CASE Route(i, q, Accounts)
  BY <1>4, RouteSteps
<1>5. CASE Route(i, q, Accounts \ {q.on})
  <2> DEFINE R == Accounts \ {q.on}
  <2>1. /\ R \subseteq Accounts /\ Route(i, q, R)
        /\ pin \in Accounts => pin \in R \/ (q.waited /\ req[i].on = pin)
    BY <1>5
  <2> HIDE DEF R
  <2> QED BY <2>1, RouteSteps
<1> QED BY <1>1, <1>3, <1>4, <1>5

(* A request that has not been sent, or has spent its wait                   *)
LEMMA UnsentIsRoutable ==
    ASSUME NEW q \in Progress, RequestInv(q), q.pc = "ready", q.path \in {"sticky", "held"}
    PROVE  Routable(q)
  BY DEF RequestInv, SentOnce, Live, Routable, Progress

LEMMA UnsentSteps ==
    ASSUME PoolInv, NEW i \in Requests, Unsent(i)
    PROVE  (\E x : Steps(i, x)) /\ HoldsOnce(i)
<1> DEFINE q == req[i]
<1>1. /\ q \in Progress /\ RequestInv(q) /\ View \in Views /\ now \in Nat
      /\ pin \in Accounts \cup {None} /\ q.failed \in BOOLEAN
  BY RequestFacts DEF Progress
<1>2. q.pc = "ready" /\ q.pc # "done" /\ Live(q) /\ UNCHANGED pending
  BY DEF Unsent, Live
<1>3. HoldsOnce(i)
  BY <1>2 DEF HoldsOnce
<1>4. q.view \in Views
  BY <1>1, <1>2 DEF RequestInv, SentAsViewed
<1>5. {"served", "refused"} \subseteq Answers
  BY DEF Answers
<1>6. \/ /\ q.path = "ordered" /\ q.rest # <<>> /\ pin' = pin
         /\ Becomes(i, Ready(q, "ordered", Head(q.rest), Tail(q.rest)))
      \/ /\ pin' = pin
         /\ Becomes(i, Done(q, "refused")) \/ Becomes(i, Done(q, "served"))
      \/ /\ q.path = "sticky" /\ pin' = pin
         /\ \E x \in serveOrdered(q, q.view, Accounts) : Becomes(i, x)
      \/ q.path = "held" /\ host = "pi" /\ AfterWait(i, q)
      \/ q.path = "held" /\ host # "pi" /\ Route(i, q, Accounts)
  BY DEF Unsent, Becomes
<1> HIDE DEF q
<1>7. CASE /\ q.path = "ordered" /\ q.rest # <<>> /\ pin' = pin
           /\ Becomes(i, Ready(q, "ordered", Head(q.rest), Tail(q.rest)))
  <2> DEFINE x == Ready(q, "ordered", Head(q.rest), Tail(q.rest))
  <2>1. x \in Progress /\ RequestInv(x) /\ x.pc = "ready"
    BY <1>1, <1>2, <1>7, NextInOrder
  <2>2. Becomes(i, x)
    BY <1>7
  <2> HIDE DEF x
  <2>3. Steps(i, x)
    BY <1>1, <1>2, <1>7, <2>1, <2>2 DEF Steps, q
  <2> QED BY <1>3, <2>3
<1>8. CASE /\ pin' = pin
           /\ Becomes(i, Done(q, "refused")) \/ Becomes(i, Done(q, "served"))
  <2>1. PICK answer \in Answers : Becomes(i, Done(q, answer))
    BY <1>5, <1>8
  <2>2. req[i].pc # "done"
    BY <1>2 DEF q
  <2> QED BY <1>1, <1>3, <1>8, <2>1, <2>2, DoneSteps
<1>9. CASE /\ q.path = "sticky" /\ pin' = pin
           /\ \E x \in serveOrdered(q, q.view, Accounts) : Becomes(i, x)
  <2>1. PICK x \in serveOrdered(q, q.view, Accounts) : Becomes(i, x)
    BY <1>9
  <2>2. Routable(q)
    BY <1>1, <1>2, <1>9, UnsentIsRoutable
  <2>3. x \in Progress /\ RequestInv(x) /\ (x.pc = "waiting" => host = "pi" /\ ~q.waited)
    BY <1>1, <1>4, <2>2, OrderedFacts
  <2>4. Steps(i, x)
    BY <1>1, <1>2, <1>9, <2>1, <2>3 DEF Steps, q
  <2> QED BY <1>3, <2>4
<1>10. CASE q.path = "held" /\ host = "pi" /\ AfterWait(i, q)
  <2>1. Routable(q) /\ q.waited
    BY <1>1, <1>2, <1>10, UnsentIsRoutable DEF RequestInv
  <2>2. q.on = req[i].on /\ req[i].pc # "done"
    BY <1>2 DEF q
  <2> QED BY <1>1, <1>3, <1>10, <2>1, <2>2, AfterWaitSteps
<1>11. CASE q.path = "held" /\ host # "pi" /\ Route(i, q, Accounts)
  <2>1. Routable(q)
    BY <1>1, <1>2, <1>11, UnsentIsRoutable
  <2>2. req[i].pc # "done" /\ (req[i].waited => q.waited)
    BY <1>2 DEF q
  <2> QED BY <1>1, <1>3, <1>11, <2>1, <2>2, RouteSteps
<1> QED BY <1>6, <1>7, <1>8, <1>9, <1>10, <1>11

(* A refused request, whose answer came from account r                       *)
LEMMA AnsweredFields ==
    ASSUME NEW q \in Progress, NEW r \in Accounts
    PROVE  LET a == [q EXCEPT !.last = r]
           IN  /\ a \in Progress /\ a.pc = q.pc /\ a.path = q.path /\ a.on = q.on /\ a.rest = q.rest
               /\ a.replayable = q.replayable /\ a.suppressHold = q.suppressHold
               /\ a.waited = q.waited /\ a.sent = q.sent /\ a.view = q.view /\ a.failed = q.failed
  BY DEF Progress

LEMMA AnsweredInv ==
    ASSUME NEW q \in Progress, NEW r \in Accounts, RequestInv(q)
    PROVE  RequestInv([q EXCEPT !.last = r])
<1> DEFINE a == [q EXCEPT !.last = r]
<1>1. /\ a.pc = q.pc /\ a.path = q.path /\ a.on = q.on /\ a.rest = q.rest
      /\ a.replayable = q.replayable /\ a.suppressHold = q.suppressHold
      /\ a.waited = q.waited /\ a.sent = q.sent /\ a.view = q.view /\ a.failed = q.failed
  BY AnsweredFields
<1> HIDE DEF a
<1>2. \A p : Fit(q, p) <=> Fit(a, p)
  BY <1>1 DEF Fit
<1>3. SentAsViewed(q) => SentAsViewed(a)
  BY <1>1, <1>2 DEF SentAsViewed, Live
<1>4. (SentOnce(q) => SentOnce(a)) /\ (NotReplayed(q) => NotReplayed(a))
  BY <1>1 DEF SentOnce, NotReplayed, Live
<1>5. RequestInv(a)
  BY <1>1, <1>3, <1>4 DEF RequestInv, Live
<1> QED BY <1>5 DEF a

LEMMA RefusedView ==
    ASSUME View \in Views, NEW r \in Accounts, NEW outcome
    PROVE  Refused(r, outcome) \in Views
  BY DEF Refused, Views, Conditions

(* The account a refused request goes to next has not been asked             *)
LEMMA NextAccountFacts ==
    ASSUME NEW q \in Progress, RequestInv(q), q.pc = "sending", NEW v \in Views, NEW outcome,
           pin \in Accounts \cup {None}, NEW s \in nextAccount(q, v, q.on, outcome)
    PROVE  /\ s.q \in Progress /\ RequestInv(s.q) /\ s.q.pc = "ready"
           /\ s.pin \in Accounts \cup {None}
           /\ s.pin # pin => s.q.path = "moved"
<1>1. Live(q) /\ q.on \in Accounts
  BY DEF RequestInv, SentAsViewed, Live
<1>2. CASE q.path = "ordered" /\ q.rest # <<>>
  <2> DEFINE x == Ready(q, "ordered", Head(q.rest), Tail(q.rest))
  <2>1. nextAccount(q, v, q.on, outcome) = {[q |-> x, pin |-> pin]}
    BY <1>2, Zenon DEF nextAccount
  <2>2. s = [q |-> x, pin |-> pin]
    BY <2>1
  <2> HIDE DEF x
  <2>3. s.q = x /\ s.pin = pin
    BY <2>2
  <2>4. x = Ready(q, "ordered", Head(q.rest), Tail(q.rest))
    BY DEF x
  <2>5. x \in Progress /\ RequestInv(x) /\ x.pc = "ready"
    BY <1>1, <1>2, <2>4, NextInOrder
  <2> QED BY <2>3, <2>5
<1>3. CASE q.path = "sticky" /\ stickyBreak(v, q.on, outcome)
  <2> DEFINE to(x) == [Ready(q, "moved", x, <<>>) EXCEPT !.view = v]
  <2>1. nextAccount(q, v, q.on, outcome) =
          {[q |-> to(x), pin |-> x] : x \in migrate(v, Accounts, pin, q.on)}
    BY <1>3 DEF nextAccount
  <2>2. PICK x \in migrate(v, Accounts, pin, q.on) : s = [q |-> to(x), pin |-> x]
    BY <2>1
  <2>3. x \in Accounts /\ x # q.on
    <3>1. CASE pin \in Accounts \ (Excluded(v, Accounts) \cup {q.on})
      BY <2>2, <3>1 DEF migrate, placeStickyPin
    <3>2. CASE pin \notin Accounts \ (Excluded(v, Accounts) \cup {q.on})
      <4> DEFINE R == Accounts \ {q.on}
      <4>1. x \in selectStickyRow(v, R) /\ R \subseteq Accounts
        BY <2>2, <3>2 DEF migrate, placeStickyPin
      <4> HIDE DEF R
      <4>2. x \in R
        BY <4>1, SelectFacts DEF MayAsk
      <4> QED BY <4>2 DEF R
    <3> QED BY <3>1, <3>2
  <2> DEFINE y == Ready(q, "moved", x, <<>>)
             w == [y EXCEPT !.view = v]
  <2>4. "moved" \in Paths
    BY DEF Paths
  <2>5. /\ y \in Progress /\ y.pc = "ready" /\ y.path = "moved" /\ y.on = x /\ y.rest = <<>>
        /\ y.replayable = q.replayable /\ y.suppressHold = q.suppressHold
        /\ y.waited = q.waited /\ y.sent = q.sent /\ y.view = q.view /\ y.failed = q.failed
    BY <2>3, <2>4, ReadyEmpty
  <2>6. s.q = w /\ s.pin = x
    BY <2>2
  <2> HIDE DEF y
  <2>7. /\ w \in Progress /\ w.pc = "ready" /\ w.path = "moved" /\ w.on = x /\ w.rest = <<>>
        /\ w.replayable = q.replayable /\ w.suppressHold = q.suppressHold
        /\ w.waited = q.waited /\ w.sent = q.sent /\ w.view = v /\ w.failed = q.failed
    BY <2>5 DEF Progress
  <2> HIDE DEF w
  <2>8. q.replayable /\ ~q.failed
    BY <1>3 DEF RequestInv, NotReplayed
  <2>9. SentAsViewed(w)
    BY <2>3, <2>7, NothingSent DEF SentAsViewed
  <2>10. ~q.waited => q.sent = <<q.on>> /\ IsInjective(q.sent)
    BY <1>1, <1>3 DEF RequestInv, SentOnce
  <2>11. ~q.waited => x \notin Range(q.sent)
    BY <2>3, <2>10 DEF Range
  <2>12. SentOnce(w)
    BY <2>7, <2>10, <2>11, NothingSent DEF SentOnce, Live
  <2>13. NotReplayed(w)
    BY <2>7, <2>8 DEF NotReplayed
  <2>14. RequestInv(w)
    BY <1>1, <2>7, <2>8, <2>9, <2>12, <2>13 DEF RequestInv
  <2> QED BY <2>3, <2>6, <2>7, <2>14
<1>4. CASE /\ ~(q.path = "ordered" /\ q.rest # <<>>)
           /\ ~(q.path = "sticky" /\ stickyBreak(v, q.on, outcome))
  <2>1. nextAccount(q, v, q.on, outcome) = {}
    BY <1>4, Zenon DEF nextAccount
  <2> QED BY <2>1
<1> QED BY <1>2, <1>3, <1>4

(* After an answer of account r that refused the request                     *)
LEMMA AfterLimitSteps ==
    ASSUME PoolInv, NEW i \in Requests, req[i].pc = "sending", NEW outcome,
           account'[req[i].on].until \in Nat,
           \/ host = "pi" /\ piAfterLimit(i, req[i], req[i].on, outcome)
           \/ host # "pi" /\ afterLimit(i, req[i], req[i].on, outcome)
    PROVE  (\E x : Steps(i, x)) /\ HoldsOnce(i)
<1> DEFINE q == req[i]
           r == q.on
           a == [q EXCEPT !.last = r]
           v == Refused(r, outcome)
           until == account'[r].until
           next == nextAccount(a, v, r, outcome)
<1>1. /\ q \in Progress /\ RequestInv(q) /\ View \in Views /\ now \in Nat
      /\ pin \in Accounts \cup {None} /\ pending \in [on : Accounts, target : Nat] \cup {NoHold}
  BY RequestFacts
<1>2. r \in Accounts /\ Live(q) /\ until \in Nat
  BY <1>1 DEF RequestInv, SentAsViewed, Live
<1>3. /\ a \in Progress /\ a.pc = "sending" /\ a.path = q.path /\ a.on = r
      /\ a.replayable = q.replayable /\ a.suppressHold = q.suppressHold
      /\ a.waited = q.waited /\ a.sent = q.sent /\ a.failed = q.failed
      /\ RequestInv(a)
  BY <1>1, <1>2, AnsweredFields, AnsweredInv
<1>4. v \in Views
  BY <1>1, <1>2, RefusedView
<1>5. /\ ~q.failed /\ (q.waited => host = "pi") /\ (q.suppressHold => host = "opencode")
      /\ (host = "pi" => q.replayable) /\ (~q.waited => IsInjective(q.sent))
      /\ q.failed \in BOOLEAN
  BY <1>1, <1>2 DEF RequestInv, SentOnce, Progress, Live
<1>6. \/ /\ host # "pi" /\ outcome = "limit" /\ Holds(q, r, until)
         /\ pending' = [on |-> r, target |-> until]
         /\ Becomes(i, Done(a, "held")) /\ pin' = pin
      \/ /\ \E s \in next : Becomes(i, s.q) /\ pin' = s.pin
         /\ pending' = pending
      \/ Becomes(i, Done(a, "served")) /\ pin' = pin /\ pending' = pending
      \/ /\ host = "pi" /\ ~q.waited
         /\ Becomes(i, policyResult(a, r, until))
         /\ pin' = pin /\ pending' = pending
      \/ /\ host = "pi" /\ ~q.waited
         /\ \E x \in TerminalWaits(a, {r}) : Becomes(i, x)
         /\ pin' = pin /\ pending' = pending
  BY Zenon DEF afterLimit, piAfterLimit, Becomes
<1> HIDE DEF q, a, v, until, r
<1>7. req[i].pc # "done" /\ req[i] = q
  BY DEF q
<1>8. {"held", "served"} \subseteq Answers /\ a.failed \in BOOLEAN
  BY <1>3, <1>5 DEF Answers
<1>9. CASE /\ host # "pi" /\ Holds(q, r, until)
           /\ pending' = [on |-> r, target |-> until]
           /\ Becomes(i, Done(a, "held")) /\ pin' = pin
  <2>1. HoldsOnce(i)
    BY <1>2, <1>7, <1>9 DEF HoldsOnce, Holds
  <2>2. \E x : Steps(i, x)
    BY <1>7, <1>8, <1>9, DoneSteps
  <2> QED BY <2>1, <2>2
<1>10. CASE Becomes(i, Done(a, "served")) /\ pin' = pin /\ pending' = pending
  <2>1. \E x : Steps(i, x)
    BY <1>7, <1>8, <1>10, DoneSteps
  <2> QED BY <1>10, <2>1 DEF HoldsOnce
<1>11. CASE (\E s \in next : Becomes(i, s.q) /\ pin' = s.pin) /\ pending' = pending
  <2>1. PICK s \in nextAccount(a, v, a.on, outcome) : Becomes(i, s.q) /\ pin' = s.pin
    BY <1>3, <1>11
  <2>2. /\ s.q \in Progress /\ RequestInv(s.q) /\ s.q.pc = "ready"
        /\ s.pin \in Accounts \cup {None}
        /\ s.pin # pin => s.q.path = "moved"
    BY <1>1, <1>3, <1>4, NextAccountFacts
  <2>3. Steps(i, s.q)
    BY <1>7, <2>1, <2>2 DEF Steps
  <2> QED BY <1>11, <2>3 DEF HoldsOnce
<1>12. CASE /\ host = "pi" /\ ~q.waited
            /\ Becomes(i, policyResult(a, r, until))
            /\ pin' = pin /\ pending' = pending
  <2> DEFINE x == policyResult(a, r, until)
  <2>1. ~a.waited /\ ~a.failed /\ a.replayable /\ ~a.suppressHold /\ IsInjective(a.sent)
    BY <1>3, <1>5, <1>12
  <2>2. x \in Progress /\ RequestInv(x) /\ x.pc = "waiting"
    BY <1>2, <1>3, <1>12, <2>1, WaitFacts
  <2>3. Becomes(i, x)
    BY <1>12
  <2> HIDE DEF x
  <2>4. Steps(i, x)
    BY <1>1, <1>7, <1>12, <2>2, <2>3 DEF Steps
  <2> QED BY <1>12, <2>4 DEF HoldsOnce
<1>13. CASE /\ host = "pi" /\ ~q.waited
            /\ \E x \in TerminalWaits(a, {r}) : Becomes(i, x)
            /\ pin' = pin /\ pending' = pending
  <2>1. PICK x \in TerminalWaits(a, {r}) : Becomes(i, x)
    BY <1>13
  <2>2. /\ ~a.failed /\ a.replayable /\ ~a.suppressHold /\ IsInjective(a.sent)
        /\ {r} \subseteq Accounts
    BY <1>2, <1>3, <1>5, <1>13
  <2>3. x \in Progress /\ RequestInv(x) /\ x.pc = "waiting"
    BY <1>1, <1>3, <2>2, TerminalFacts
  <2>4. Steps(i, x)
    BY <1>1, <1>7, <1>13, <2>1, <2>3 DEF Steps
  <2> QED BY <1>13, <2>4 DEF HoldsOnce
<1> QED BY <1>6, <1>9, <1>10, <1>11, <1>12, <1>13

LEMMA LimitedTypes ==
    ASSUME PoolInv, NEW i \in Requests, Limited(i)
    PROVE  /\ account' \in [Accounts -> [is : Conditions, until : Nat]]
           /\ NoPiMarks' /\ account'[req[i].on].until \in Nat
<1> DEFINE r == req[i].on
<1>1. /\ account \in [Accounts -> [is : Conditions, until : Nat]] /\ now \in Nat
      /\ NoPiMarks /\ host' = host
  BY DEF PoolInv, PoolTypes, Limited
<1>2. r \in Accounts
  BY DEF Limited, PoolInv, RequestInv, SentAsViewed, Live
<1>3. CASE UNCHANGED account
  BY <1>1, <1>2, <1>3 DEF NoPiMarks
<1>4. CASE \E ahead \in Resets :
              account' = [account EXCEPT ![r] = [is |-> "spent", until |-> now + ahead]]
  <2>1. PICK ahead \in Resets :
              account' = [account EXCEPT ![r] = [is |-> "spent", until |-> now + ahead]]
    BY <1>4
  <2> DEFINE until == now + ahead
             to == [is |-> "spent", until |-> until]
  <2>2. until \in Nat
    BY <1>1, PoolConstants
  <2> HIDE DEF until
  <2>3. to \in [is : Conditions, until : Nat] /\ to.is = "spent" /\ to.until = until
    BY <2>2 DEF Conditions
  <2>4. account' = [account EXCEPT ![r] = to]
    BY <2>1 DEF until
  <2> HIDE DEF to, r
  <2>5. /\ account' \in [Accounts -> [is : Conditions, until : Nat]]
        /\ account'[r] = to /\ \A p \in Accounts \ {r} : account'[p] = account[p]
    BY <1>1, <1>2, <2>3, <2>4
  <2>6. NoPiMarks'
    BY <1>1, <2>3, <2>5 DEF NoPiMarks
  <2> QED BY <2>2, <2>3, <2>5, <2>6 DEF r
<1> QED BY <1>3, <1>4 DEF Limited

LEMMA LimitedSteps ==
    ASSUME PoolInv, NEW i \in Requests, Limited(i)
    PROVE  (\E x : Steps(i, x)) /\ HoldsOnce(i)
<1>1. req[i].pc = "sending" /\ account'[req[i].on].until \in Nat
  BY LimitedTypes DEF Limited
<1>2. \E outcome : \/ host = "pi" /\ piAfterLimit(i, req[i], req[i].on, outcome)
                   \/ host # "pi" /\ afterLimit(i, req[i], req[i].on, outcome)
  BY Zenon DEF Limited
<1> QED BY <1>1, <1>2, AfterLimitSteps

LEMMA EndSteps ==
    ASSUME PoolInv, NEW i \in Requests, Answer(i) \/ Fail(i) \/ Escape(i)
    PROVE  (\E x : Steps(i, x)) /\ HoldsOnce(i)
<1> DEFINE q == req[i]
           lost == [q EXCEPT !.failed = TRUE]
<1>1. q \in Progress /\ q.failed \in BOOLEAN /\ lost.failed \in BOOLEAN
  BY RequestFacts DEF Progress
<1>2. /\ req[i].pc # "done" /\ UNCHANGED <<pin, pending>>
      /\ \/ Becomes(i, Done(q, "served")) \/ Becomes(i, Done(q, "error"))
         \/ Becomes(i, Done(lost, "served")) \/ Becomes(i, Done(lost, "error"))
  BY DEF Answer, Fail, Escape, Becomes
<1>3. {"served", "error"} \subseteq Answers
  BY DEF Answers
<1> HIDE DEF q, lost
<1>4. \E p : \E answer \in Answers : p.failed \in BOOLEAN /\ Becomes(i, Done(p, answer))
  BY <1>1, <1>2, <1>3
<1>5. \E x : Steps(i, x)
  BY <1>2, <1>4, DoneSteps
<1> QED BY <1>2, <1>5 DEF HoldsOnce

LEMMA WakeSteps ==
    ASSUME PoolInv, NEW i \in Requests, Wake(i)
    PROVE  (\E x : Steps(i, x)) /\ HoldsOnce(i)
<1> DEFINE was == req[i]
           q == [was EXCEPT !.waited = TRUE]
           w == [q EXCEPT !.view = View]
           r == was.on
           x == Ready(w, "held", r, <<>>)
<1>1. /\ was \in Progress /\ RequestInv(was) /\ was.pc = "waiting" /\ View \in Views
      /\ pin \in Accounts \cup {None} /\ UNCHANGED pending
      /\ (host = "pi" => \A p \in Accounts : View[p] # "marked")
  BY RequestFacts DEF Wake
<1>2. host = "pi" /\ r \in Accounts /\ ~was.waited /\ was.replayable /\ ~was.failed
        /\ (was.suppressHold => host = "opencode")
  BY <1>1 DEF RequestInv
<1>3. /\ q \in Progress /\ q.waited /\ q.replayable /\ ~q.failed /\ q.on = r
      /\ q.suppressHold = was.suppressHold
  BY <1>1, <1>2 DEF Progress
<1>4. \/ AfterWait(i, q)
      \/ /\ openAiHoldFacts(View, q.on, q.target)
         /\ View[q.on] \notin {"spent", "credits", "unknown"}
         /\ Becomes(i, Ready([q EXCEPT !.view = View], "held", q.on, <<>>)) /\ pin' = pin
  BY Zenon DEF Wake, Becomes
<1>5. HoldsOnce(i)
  BY <1>1 DEF HoldsOnce
<1>6. req[i] = was
  OBVIOUS
<1>7. w \in Progress /\ w.waited /\ w.replayable /\ ~w.failed /\ w.view = View
        /\ w.suppressHold = was.suppressHold
  BY <1>1, <1>2 DEF Progress
<1>8. x = Ready(w, "held", r, <<>>)
  OBVIOUS
<1>9. CASE AfterWait(i, q)
  <2> HIDE DEF q, was, r
  <2>1. Routable(q) /\ q.on = req[i].on /\ req[i].pc # "done"
    BY <1>1, <1>2, <1>3, <1>6 DEF Routable, r
  <2> QED BY <1>2, <1>3, <1>5, <1>9, <2>1, AfterWaitSteps
<1>10. CASE /\ openAiHoldFacts(View, q.on, q.target)
            /\ View[q.on] \notin {"spent", "credits", "unknown"}
            /\ Becomes(i, Ready([q EXCEPT !.view = View], "held", q.on, <<>>)) /\ pin' = pin
  <2>1. Becomes(i, x) /\ pin' = pin
    BY <1>3, <1>10
  <2>2. r \in piCandidates(View) /\ View[r] \notin {"spent", "credits", "unknown"}
    BY <1>2, <1>3, <1>10 DEF openAiHoldFacts
  <2>3. View[r] = "free"
    BY <1>1, <1>2, <2>2 DEF piCandidates, Views, Conditions
  <2> HIDE DEF w, q, was, r, x
  <2>4. x \in Progress /\ RequestInv(x) /\ x.pc = "ready"
    BY <1>1, <1>2, <1>7, <1>8, <2>3, HeldFacts
  <2>5. Steps(i, x)
    BY <1>1, <1>6, <2>1, <2>4 DEF Steps
  <2> QED BY <1>5, <2>5
<1> QED BY <1>4, <1>9, <1>10

(***************************************************************************)
(* PoolRequest: the theorems                                                *)
(***************************************************************************)
(* Every step is one request's, or leaves the requests and the pin alone.   *)
LEMMA PoolSteps ==
    ASSUME PoolInv, Next
    PROVE  \/ \E i \in Requests : (\E x : Steps(i, x)) /\ HoldsOnce(i)
           \/ UNCHANGED <<req, pin, pending>>
<1>1. CASE \E i \in Requests : Start(i) \/ PiStart(i) \/ Send(i) \/ Unsent(i)
  <2>1. PICK i \in Requests : Start(i) \/ PiStart(i) \/ Send(i) \/ Unsent(i)
    BY <1>1
  <2> QED BY <2>1, StartSteps, PiStartSteps, SendSteps, UnsentSteps
<1>2. CASE \E i \in Requests : Limited(i) \/ Answer(i) \/ Fail(i) \/ Wake(i) \/ Escape(i)
  <2>1. PICK i \in Requests : Limited(i) \/ Answer(i) \/ Fail(i) \/ Wake(i) \/ Escape(i)
    BY <1>2
  <2> QED BY <2>1, LimitedSteps, EndSteps, WakeSteps
<1>3. CASE (\E r \in Accounts : Change(r)) \/ Tick
  BY <1>3 DEF Change, Tick
<1> QED BY <1>1, <1>2, <1>3 DEF Next

(* The accounts' conditions and the clock                                    *)
LEMMA WorldTypes ==
    ASSUME PoolInv, Next
    PROVE  /\ host' = host /\ now' \in Nat /\ current' \in Accounts \cup {None}
           /\ account' \in [Accounts -> [is : Conditions, until : Nat]] /\ NoPiMarks'
<1>1. /\ account \in [Accounts -> [is : Conditions, until : Nat]] /\ now \in Nat
      /\ NoPiMarks /\ current \in Accounts \cup {None}
  BY DEF PoolInv, PoolTypes
<1>2. ASSUME NEW i \in Requests, Send(i)
      PROVE  current' \in Accounts /\ UNCHANGED <<host, now, account>>
  <2>1. req[i].on \in Accounts
    BY <1>2 DEF Send, PoolInv, RequestInv, SentAsViewed, Live
  <2> QED BY <1>2, <2>1 DEF Send
<1>3. ASSUME NEW i \in Requests, Limited(i)
      PROVE  /\ UNCHANGED <<host, now, current>> /\ NoPiMarks'
             /\ account' \in [Accounts -> [is : Conditions, until : Nat]]
  BY <1>3, LimitedTypes DEF Limited
<1>4. ASSUME NEW i \in Requests,
             Start(i) \/ PiStart(i) \/ Unsent(i) \/ Answer(i) \/ Fail(i) \/ Wake(i) \/ Escape(i)
      PROVE  UNCHANGED <<host, now, current, account>>
  BY <1>4 DEF Start, PiStart, Unsent, Answer, Fail, Wake, Escape
<1>5. ASSUME NEW r \in Accounts, Change(r)
      PROVE  /\ UNCHANGED <<host, now, current>> /\ NoPiMarks'
             /\ account' \in [Accounts -> [is : Conditions, until : Nat]]
  <2>1. PICK c \in (IF host = "pi" THEN Turns \ {"marked"} ELSE Turns) \ {account[r].is} :
           account' = [account EXCEPT ![r] = [is |-> c, until |-> IF c \in Timed THEN now + 1 ELSE 0]]
    BY <1>5 DEF Change
  <2>2. c \in Conditions /\ (host = "pi" => c # "marked") /\ UNCHANGED <<host, now, current>>
    BY <1>5, <2>1, PoolConstants DEF Change
  <2> DEFINE until == IF c \in Timed THEN now + 1 ELSE 0
             to == [is |-> c, until |-> until]
  <2>3. until \in Nat
    BY <1>1
  <2>4. account' = [account EXCEPT ![r] = to]
    BY <2>1
  <2> HIDE DEF until
  <2>5. to \in [is : Conditions, until : Nat] /\ to.is = c
    BY <2>2, <2>3
  <2> HIDE DEF to
  <2>6. /\ account' \in [Accounts -> [is : Conditions, until : Nat]]
        /\ account'[r] = to /\ \A p \in Accounts \ {r} : account'[p] = account[p]
    BY <1>1, <2>4, <2>5
  <2>7. NoPiMarks'
    BY <1>1, <2>2, <2>5, <2>6 DEF NoPiMarks
  <2> QED BY <2>2, <2>6, <2>7
<1>6. CASE Tick
  BY <1>1, <1>6 DEF Tick, NoPiMarks
<1>7. UNCHANGED <<host, account>> => NoPiMarks'
  BY <1>1 DEF NoPiMarks
<1> QED BY <1>1, <1>2, <1>3, <1>4, <1>5, <1>6, <1>7 DEF Next

LEMMA PoolInit == Init => PoolInv
<1> SUFFICES ASSUME Init PROVE PoolInv
  OBVIOUS
<1>1. req \in [Requests -> Progress] /\ \A i \in Requests : RequestInv(req[i])
  BY IdleProgress DEF Init
<1>2. account \in [Accounts -> [is : Conditions, until : Nat]] /\ NoPiMarks
  <2> DEFINE starts == IF host = "pi" THEN Starts \ {"marked"} ELSE Starts
  <2>1. account \in [Accounts -> {[is |-> c, until |-> IF c \in Timed THEN MaxNow ELSE 0] : c \in starts}]
    BY DEF Init
  <2>2. ASSUME NEW r \in Accounts
        PROVE  /\ account[r] \in [is : Conditions, until : Nat]
               /\ host = "pi" => account[r].is # "marked"
    <3>1. PICK c \in starts : account[r] = [is |-> c, until |-> IF c \in Timed THEN MaxNow ELSE 0]
      BY <2>1
    <3>2. c \in Conditions /\ MaxNow \in Nat
      BY PoolConstants
    <3> QED BY <3>1, <3>2
  <2>3. account \in [Accounts -> [is : Conditions, until : Nat]]
    BY <2>1, <2>2
  <2> QED BY <2>2, <2>3 DEF NoPiMarks
<1>3. /\ now \in Nat /\ pin \in Accounts \cup {None} /\ current \in Accounts \cup {None}
      /\ pending = NoHold
  BY DEF Init
<1> QED BY <1>1, <1>2, <1>3 DEF PoolInv, PoolTypes

LEMMA PoolNext == PoolInv /\ [Next]_vars => PoolInv'
<1> SUFFICES ASSUME PoolInv, [Next]_vars PROVE PoolInv'
  OBVIOUS
<1>1. CASE Next
  <2>1. /\ host' = host /\ now' \in Nat /\ current' \in Accounts \cup {None}
        /\ account' \in [Accounts -> [is : Conditions, until : Nat]] /\ NoPiMarks'
    BY <1>1, WorldTypes
  <2>2. /\ req \in [Requests -> Progress] /\ (\A i \in Requests : RequestInv(req[i]))
        /\ pin \in Accounts \cup {None} /\ pending \in [on : Accounts, target : Nat] \cup {NoHold}
    BY DEF PoolInv, PoolTypes
  <2>3. /\ req' \in [Requests -> Progress] /\ (\A i \in Requests : RequestInv(req'[i]))
        /\ pin' \in Accounts \cup {None} /\ pending' \in [on : Accounts, target : Nat] \cup {NoHold}
    <3>1. CASE UNCHANGED <<req, pin, pending>>
      BY <2>2, <3>1
    <3>2. CASE \E i \in Requests : (\E x : Steps(i, x)) /\ HoldsOnce(i)
      <4>1. PICK i \in Requests : (\E x : Steps(i, x)) /\ HoldsOnce(i)
        BY <3>2
      <4>2. PICK x : Steps(i, x)
        BY <4>1
      <4>3. /\ req' = [req EXCEPT ![i] = x] /\ x \in Progress /\ RequestInv(x)
            /\ pin' \in Accounts \cup {None}
        BY <4>2 DEF Steps, Becomes
      <4>4. pending' \in [on : Accounts, target : Nat] \cup {NoHold}
        BY <2>2, <4>1 DEF HoldsOnce
      <4>5. /\ req' \in [Requests -> Progress] /\ req'[i] = x
            /\ \A j \in Requests \ {i} : req'[j] = req[j]
        BY <2>2, <4>3
      <4>6. \A j \in Requests : RequestInv(req'[j])
        BY <2>2, <4>3, <4>5
      <4> QED BY <4>3, <4>4, <4>5, <4>6
    <3> QED BY <1>1, <3>1, <3>2, PoolSteps
  <2>4. ASSUME NEW i \in Requests
        PROVE  RequestInv(req[i])'
    <3>1. RequestInv(req'[i])
      BY <2>3
    <3> QED BY <2>1, <3>1 DEF RequestInv, SentAsViewed, SentOnce, NotReplayed, Live, Fit
  <2> QED BY <2>1, <2>3, <2>4 DEF PoolInv, PoolTypes
<1>2. CASE UNCHANGED vars
  <2>1. PoolTypes' /\ NoPiMarks'
    BY <1>2 DEF vars, PoolInv, PoolTypes, NoPiMarks
  <2>2. ASSUME NEW i \in Requests
        PROVE  RequestInv(req[i])'
    <3>1. RequestInv(req[i]) /\ req'[i] = req[i] /\ host' = host
      BY <1>2, RequestFacts DEF vars
    <3> QED BY <3>1 DEF RequestInv, SentAsViewed, SentOnce, NotReplayed, Live, Fit
  <2> QED BY <2>1, <2>2 DEF PoolInv
<1> QED BY <1>1, <1>2

LEMMA PoolInvariant == Spec => []PoolInv
  BY PoolInit, PoolNext, PTL DEF Spec

(* Every request, hold, pin and account record of a session is of its type  *)
(* (the fields of pool-request.ts's closures, whatever its handlers do).    *)
THEOREM PoolTypeCorrect == Spec => []PoolTypes
<1>1. PoolInv => PoolTypes
  BY DEF PoolInv
<1> QED BY <1>1, PoolInvariant, PTL

(* A request spends what its own view allows and is sent nowhere twice: the *)
(* order planned by planOrdered and planUnlessReplayed, the exclusions of a *)
(* migration and the no-replay gate keep it so, however requests overlap.   *)
THEOREM SpendsInBoundsCorrect == Spec => []SpendsInBounds
<1>1. ASSUME PoolInv
      PROVE  SpendsInBounds
  <2>1. ASSUME NEW i \in Requests
        PROVE  LET q == req[i] IN
               /\ ~q.replayable => Len(q.sent) <= 1
               /\ \A j, k \in 1 .. Len(q.sent) :
                    j < k /\ q.sent[j] = q.sent[k] => host = "pi" /\ q.waited
    <3> DEFINE q == req[i]
    <3>1. q \in Progress /\ RequestInv(q)
      BY <1>1, RequestFacts
    <3> HIDE DEF q
    <3>2. ~q.replayable => Len(q.sent) <= 1
      BY <3>1 DEF RequestInv, NotReplayed
    <3>3. q.waited \/ IsInjective(q.sent)
      BY <3>1, NothingSent DEF RequestInv, SentOnce, Live, Progress
    <3>4. ASSUME NEW j \in 1 .. Len(q.sent), NEW k \in 1 .. Len(q.sent),
                 j < k, q.sent[j] = q.sent[k]
          PROVE  host = "pi" /\ q.waited
      <4>1. q.sent \in Seq(Accounts) /\ (q.waited => host = "pi")
        BY <3>1 DEF Progress, RequestInv
      <4>2. DOMAIN q.sent = 1 .. Len(q.sent)
        BY <4>1
      <4>3. ~IsInjective(q.sent)
        BY <3>4, <4>2 DEF IsInjective
      <4> QED BY <3>3, <4>1, <4>3
    <3> QED BY <3>2, <3>4 DEF q
  <2>2. ASSUME NEW i \in Requests
        PROVE  LET q == req[i]
                   tried == {q.sent[k] : k \in 1 .. Len(q.sent)}
               IN q.pc \in {"ready", "sending"} /\ q.path # "moved" =>
                    /\ q.view[q.on] \notin {"killed", "unknown", "marked", "backoff"}
                    /\ q.replayable /\ ~q.waited /\ q.view[q.on] # "free" =>
                         \A r \in Accounts : q.view[r] = "free" => r \in tried
    <3>1. Live(req[i]) /\ req[i].path # "moved" => Fit(req[i], req[i].on)
      BY <1>1, RequestFacts DEF RequestInv, SentAsViewed
    <3> QED BY <3>1 DEF Live, Fit, Barred
  <2>3. OneTryPerAccount
    BY <2>1 DEF OneTryPerAccount
  <2>4. SpendsAsViewed
    BY <2>2 DEF SpendsAsViewed
  <2> QED BY <2>3, <2>4 DEF SpendsInBounds
<1> QED BY <1>1, PoolInvariant, PTL

(* A step of a request that has one                                          *)
LEMMA StepFacts ==
    ASSUME PoolInv, [Next]_vars
    PROVE  \/ UNCHANGED <<req, pin, pending>>
           \/ \E i \in Requests :
                /\ HoldsOnce(i) /\ req[i].pc # "done"
                /\ \A j \in Requests \ {i} : req'[j] = req[j]
                /\ req'[i].pc = "waiting" => host = "pi" /\ ~req[i].waited
                /\ pin' # pin =>
                     \/ pin \notin Accounts
                     \/ View[pin] \notin {"free", "unknown"}
                     \/ req[i].pc = "sending" /\ req'[i].path = "moved"
                     \/ req'[i].waited /\ req[i].on = pin
<1>1. CASE UNCHANGED vars
  BY <1>1 DEF vars
<1>2. CASE Next
  <2>1. CASE UNCHANGED <<req, pin, pending>>
    BY <2>1
  <2>2. CASE \E i \in Requests : (\E x : Steps(i, x)) /\ HoldsOnce(i)
    <3>1. PICK i \in Requests : (\E x : Steps(i, x)) /\ HoldsOnce(i)
      BY <2>2
    <3>2. PICK x : Steps(i, x)
      BY <3>1
    <3>3. req \in [Requests -> Progress]
      BY DEF PoolInv, PoolTypes
    <3>4. req'[i] = x /\ \A j \in Requests \ {i} : req'[j] = req[j]
      BY <3>2, <3>3 DEF Steps, Becomes
    <3> QED BY <3>1, <3>2, <3>4 DEF Steps
  <2> QED BY <1>2, <2>1, <2>2, PoolSteps
<1> QED BY <1>1, <1>2

(* Nothing of a request is sent after its send failed: such a request is    *)
(* over, on every path (serveOrdered and serveSticky rethrow, they do not   *)
(* go on with the next account).                                            *)
THEOREM FailureIsFinalCorrect == Spec => FailureIsFinal
<1>1. ASSUME PoolInv, [Next]_vars
      PROVE  \A i \in Requests : req[i].failed => req'[i].sent = req[i].sent
  <2>1. \A i \in Requests : req[i].failed => req[i].pc = "done"
    BY <1>1, RequestFacts DEF RequestInv
  <2> QED BY <1>1, <2>1, StepFacts
<1> QED BY <1>1, PoolInvariant, PTL DEF Spec, FailureIsFinal

(* The retry of a held request creates no new hold, and Pi waits once.      *)
THEOREM OneHoldPerRequestCorrect == Spec => OneHoldPerRequest
<1>1. ASSUME PoolInv, [Next]_vars
      PROVE  \A i \in Requests :
               (req[i].suppressHold \/ req[i].waited) /\ req'[i] # req[i] =>
                 /\ pending' \in {pending, NoHold}
                 /\ req'[i].pc # "waiting"
  <2>1. \A i \in Requests : /\ req[i].waited => host = "pi"
                            /\ req[i].suppressHold => host = "opencode"
    BY <1>1, RequestFacts DEF RequestInv
  <2>2. CASE UNCHANGED <<req, pin, pending>>
    BY <2>2
  <2>3. CASE ~UNCHANGED <<req, pin, pending>>
    BY <1>1, <2>1, <2>3, StepFacts DEF HoldsOnce
  <2> QED BY <2>2, <2>3
<1> QED BY <1>1, PoolInvariant, PTL DEF Spec, OneHoldPerRequest

(* A session leaves its pin only on evidence against the account: an answer *)
(* that refused it, a condition that keeps it from serving now, or a wait   *)
(* spent on it (routePinnedRow, placeStickyPin, the pin ledger).            *)
THEOREM PinMovesOnEvidenceCorrect == Spec => PinMovesOnEvidence
<1>1. ASSUME PoolInv, [Next]_vars
      PROVE  pin # None /\ pin' # pin =>
               \/ View[pin] \notin {"free", "unknown"}
               \/ account'[pin].is = "spent"
               \/ \E i \in Requests :
                    \/ req[i].pc = "sending" /\ req'[i].path = "moved"
                    \/ req'[i].waited /\ req[i].on = pin
  <2>1. pin \in Accounts \cup {None}
    BY <1>1 DEF PoolInv, PoolTypes
  <2> QED BY <1>1, <2>1, StepFacts
<1> QED BY <1>1, PoolInvariant, PTL DEF Spec, PinMovesOnEvidence
=============================================================================
