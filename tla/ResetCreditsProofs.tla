-------------------------- MODULE ResetCreditsProofs --------------------------
(***************************************************************************)
(* Proofs about ResetCredits, for any number of attempts, accounts and     *)
(* credits and any window.                                                 *)
(***************************************************************************)
EXTENDS ResetCredits, TLAPS

USE ResetAssumption DEF vars, store, attempt, server, ghost

(* Splits a step into its actions.                                          *)
LEMMA StepCases ==
    ASSUME [Next]_vars
    PROVE  \/ \E a \in Attempts, again \in BOOLEAN : Begin(a, again)
           \/ \E a \in Attempts : Resolve(a) \/ Inspect(a) \/ ResolveCorrupt(a) \/ Check(a)
           \/ \E a \in Attempts : Claim(a) \/ Send(a)
           \/ \E a \in Attempts : ServerSpends(a) \/ ServerAnswers(a)
           \/ \E a \in Attempts, s \in Refusals : ServerRefuses(a, s)
           \/ \E a \in Attempts : Finalize(a)
           \/ \E b \in Accounts : SignIn(b) \/ Exhaust(b)
           \/ Tick
           \/ UNCHANGED vars
  BY Zenon DEF Next

LEMMA NoPairTypes == NoPair \in Pair
  BY DEF NoPair, Pair

LEMMA FlagsStep == ASSUME TypeOK, [Next]_vars PROVE FlagTypes'
<1> USE DEF TypeOK, FlagTypes
<1>1. ASSUME NEW a \in Attempts, NEW again \in BOOLEAN, Begin(a, again) PROVE FlagTypes'
  BY Zenon, <1>1 DEF Begin
<1>2. ASSUME NEW a \in Attempts, Resolve(a) \/ Inspect(a) \/ ResolveCorrupt(a) \/ Check(a)
      PROVE  FlagTypes'
  BY Zenon, <1>2 DEF Resolve, Inspect, ResolveCorrupt, Check, End, Decide
<1>3. ASSUME NEW a \in Attempts, Claim(a) \/ Send(a) PROVE FlagTypes'
  BY Zenon, <1>3 DEF Claim, ClaimNew, Save, ClaimLost, Send, End
<1>4. ASSUME NEW a \in Attempts, ServerSpends(a) \/ ServerAnswers(a) PROVE FlagTypes'
  BY Zenon, <1>4 DEF ServerSpends, ServerAnswers
<1>5. ASSUME NEW a \in Attempts, NEW s \in Refusals, ServerRefuses(a, s) PROVE FlagTypes'
  BY Zenon, <1>5 DEF ServerRefuses
<1>6. ASSUME NEW a \in Attempts, Finalize(a) PROVE FlagTypes'
  BY Zenon, <1>6 DEF Finalize, Clears, RecordsUnknown, RecordsRefusal, RecordsNothing, End
<1>7. ASSUME NEW b \in Accounts, SignIn(b) \/ Exhaust(b) PROVE FlagTypes'
  BY Zenon, <1>7 DEF SignIn, Exhaust
<1>8. CASE Tick
  BY Zenon, <1>8 DEF Tick
<1>9. CASE UNCHANGED vars
  BY Zenon, <1>9
<1> QED BY Zenon, StepCases, <1>1, <1>2, <1>3, <1>4, <1>5, <1>6, <1>7, <1>8, <1>9

Types == StoreTypes /\ AttemptTypes /\ ServerTypes /\ GhostTypes

LEMMA TypesStep == ASSUME TypeOK, [Next]_vars PROVE Types'
<1> USE DEF TypeOK, Types, StoreTypes, AttemptTypes, ServerTypes, GhostTypes
<1>1. ASSUME NEW a \in Attempts, NEW again \in BOOLEAN, Begin(a, again) PROVE Types'
  BY <1>1 DEF Begin
<1>2. ASSUME NEW a \in Attempts, NEW w, End(a, w),
             w \in {"inspect", "corrupt", "sent", "lost", "done"}, pc[a] # "idle"
      PROVE  AttemptTypes'
  BY <1>2 DEF End
<1>3. ASSUME NEW a \in Attempts, NEW d, Decide(a, d), pc[a] # "idle" PROVE AttemptTypes'
  BY <1>3 DEF Decide
<1>4. ASSUME NEW a \in Attempts, Resolve(a) PROVE Types'
  BY <1>4, <1>2 DEF Resolve
<1>5. ASSUME NEW a \in Attempts, Inspect(a) PROVE Types'
  BY <1>5, <1>2, <1>3 DEF Inspect
<1>6. ASSUME NEW a \in Attempts, ResolveCorrupt(a) PROVE Types'
  BY <1>6, <1>2, <1>3 DEF ResolveCorrupt
<1>7. ASSUME NEW a \in Attempts, Check(a) PROVE Types'
  BY <1>7, <1>2 DEF Check
<1>8. ASSUME NEW a \in Attempts, Claim(a) PROVE Types'
  <2>1. CASE ClaimNew(a)
    <3>1. PICK c \in selectCreditToSpend(offered[a]) : Save(a, Mint(a, c))
      BY <2>1 DEF ClaimNew
    <3>2. Mint(a, c) \in Pair
      BY <1>8 DEF Claim, Mint, Pair, selectCreditToSpend
    <3>3. inFlight.rid \in Nat
      BY DEF Pair
    <3>4. StoreTypes'
      BY <1>8, <3>1, <3>2 DEF Claim, Save
    <3>5. AttemptTypes' /\ ServerTypes'
      BY <1>8, <3>1, <3>2 DEF Claim, Save
    <3>6. foreign' \subseteq Nat
      BY <3>1, <3>3 DEF Save
    <3>7. GhostTypes'
      BY <1>8, <3>1, <3>2, <3>6 DEF Claim, Save
    <3> QED BY <3>4, <3>5, <3>7
  <2>2. CASE ClaimLost(a)
    BY <1>8, <2>2 DEF Claim, ClaimLost
  <2> QED BY <1>8, <2>1, <2>2 DEF Claim
<1>9. ASSUME NEW a \in Attempts, Send(a) PROVE Types'
  BY <1>9, <1>2 DEF Send
<1>10. ASSUME NEW a \in Attempts, ServerSpends(a) PROVE Types'
  BY <1>10 DEF ServerSpends, Replies, Terminal, SpendAnswers, Pair
<1>11. ASSUME NEW a \in Attempts, ServerAnswers(a) PROVE Types'
  BY <1>11 DEF ServerAnswers, Replies, Terminal, SpendAnswers
<1>12. ASSUME NEW a \in Attempts, NEW s \in Refusals, ServerRefuses(a, s) PROVE Types'
  BY <1>12 DEF ServerRefuses, Replies
<1>13. ASSUME NEW a \in Attempts, Finalize(a) PROVE Types'
  <2>1. CASE Clears(a)
    BY <1>13, <2>1, <1>2, NoPairTypes DEF Finalize, Clears, Pair
  <2>2. CASE RecordsUnknown(a)
    <3>1. inFlight' \in Pair
      <4>1. /\ Bound(inFlight, identity[a]) \in Accounts \cup {NoAccount}
            /\ inFlight.unknown + 1 \in Nat
        BY DEF Bound, Pair
      <4> QED BY <2>2, <4>1 DEF RecordsUnknown, Pair
    <3> QED BY <1>13, <2>2, <1>2, <3>1 DEF Finalize, RecordsUnknown
  <2>3. CASE RecordsRefusal(a)
    <3>1. inFlight' \in Pair
      BY <1>13, <2>3 DEF RecordsRefusal, Bound, Pair
    <3> QED BY <1>13, <2>3, <1>2, <3>1 DEF Finalize, RecordsRefusal
  <2>4. CASE RecordsNothing(a)
    BY <1>13, <2>4, <1>2 DEF Finalize, RecordsNothing
  <2> QED BY <1>13, <2>1, <2>2, <2>3, <2>4 DEF Finalize
<1>14. ASSUME NEW b \in Accounts, SignIn(b) \/ Exhaust(b) PROVE Types'
  BY <1>14 DEF SignIn, Exhaust
<1>15. CASE Tick
  BY <1>15 DEF Tick
<1>16. CASE UNCHANGED vars
  BY <1>16
<1> QED BY StepCases, <1>1, <1>4, <1>5, <1>6, <1>7, <1>8, <1>9, <1>10, <1>11, <1>12, <1>13,
           <1>14, <1>15, <1>16

LEMMA InitTypes == Init => TypeOK
<1> SUFFICES ASSUME Init PROVE TypeOK
  OBVIOUS
<1>1. FlagTypes
  BY Zenon DEF Init, FlagTypes
<1>2. \A c \in Credits : Legacy(c) \in Pair
  BY DEF Legacy, NoPair, Pair
<1>3. Types
  BY NoPairTypes, <1>2
  DEF Init, selectCreditToSpend, Types, StoreTypes, AttemptTypes, ServerTypes, GhostTypes
<1> QED BY <1>1, <1>3 DEF TypeOK, Types

(* Every variable keeps its type, whatever the attempts, the server and the *)
(* user do.                                                                 *)
THEOREM TypeCorrect == Spec => []TypeOK
<1>1. TypeOK /\ [Next]_vars => TypeOK'
  BY FlagsStep, TypesStep DEF TypeOK, Types
<1> QED BY InitTypes, <1>1, PTL DEF Spec
-----------------------------------------------------------------------------
(* The inductive invariant *)

(* What an attempt has read and where its request is.                       *)
Book ==
    /\ inFlight.rid <= minted
    /\ inFlight # NoPair => inFlight.rid # 0
    /\ \A rid \in spent : rid <= minted /\ rid # 0
    /\ \A p \in pairs : p.rid <= minted /\ p.rid # 0
    /\ \A a \in Attempts :
        /\ claim[a].rid <= minted
        /\ a \in wire => pc[a] \in {"sent", "lost", "done"} /\ reply[a] = "none"
        /\ pc[a] \notin {"sent", "lost", "done"} => reply[a] = "none"
        /\ pc[a] \in {"send", "sent", "lost"} \/ a \in wire => claim[a].rid # 0
        /\ inFlight.rid # 0 /\ claim[a].rid = inFlight.rid
            => claim[a].unknown <= inFlight.unknown

(* A pair is saved, settled, or past its window.                            *)
Window ==
    \A p \in pairs :
        \/ Settled(p.rid)
        \/ now >= p.startedAt + InFlightTtl
        \/ inFlight.rid = p.rid /\ inFlight.startedAt = p.startedAt

(* The send that spent a pair has its answer and has not recorded it.       *)
SpenderOpen(rid) ==
    \E a \in Attempts : pc[a] \in {"sent", "lost"} /\ claim[a].rid = rid /\ reply[a] = "reset"

(* A spent pair has no refusal, and none on its way that would be recorded, *)
(* once its spender has recorded what it knew.                              *)
Refused ==
    inFlight.rid \in spent \ late =>
        \/ SpenderOpen(inFlight.rid)
        \/ /\ inFlight.rejected = "none"
           /\ \A b \in Attempts :
                pc[b] = "sent" /\ claim[b].rid = inFlight.rid /\ reply[b] \in Refusals
                    => claim[b].unknown < inFlight.unknown

Remembered ==
    \A rid \in spent \ (late \cup foreign) :
        inFlight.rid = rid \/ Settled(rid) \/ SpenderOpen(rid)

IInv == TypeOK /\ Book /\ SentUnderItsAccount /\ OnePairPerWindow /\ Window /\ Refused /\ Remembered
(* What each way to record an answer leaves of the saved pair.              *)
LEMMA AfterUnknown ==
    ASSUME TypeOK, NEW a \in Attempts, RecordsUnknown(a)
    PROVE  /\ inFlight'.rid = inFlight.rid /\ inFlight'.startedAt = inFlight.startedAt
           /\ inFlight'.rejected = "none" /\ inFlight'.unknown = inFlight.unknown + 1
           /\ inFlight.unknown \in Nat
  BY DEF RecordsUnknown, TypeOK, StoreTypes, Pair

LEMMA AfterRefusal ==
    ASSUME TypeOK, NEW a \in Attempts, RecordsRefusal(a)
    PROVE  /\ inFlight'.rid = inFlight.rid /\ inFlight'.startedAt = inFlight.startedAt
           /\ inFlight'.unknown = inFlight.unknown
           /\ inFlight.unknown # claim[a].unknown => inFlight'.rejected = inFlight.rejected
  BY DEF RecordsRefusal, TypeOK, StoreTypes, Pair

LEMMA AfterSave ==
    ASSUME TypeOK, NEW a \in Attempts, ClaimNew(a)
    PROVE  /\ inFlight'.rid = minted + 1 /\ inFlight'.startedAt = now
           /\ inFlight'.rejected = "none" /\ inFlight'.unknown = 0
           /\ inFlight'.account = identity[a] /\ inFlight' # NoPair
           /\ claim' = [claim EXCEPT ![a] = inFlight'] /\ pc' = [pc EXCEPT ![a] = "send"]
           /\ pairs' = pairs \cup {inFlight'} /\ minted' = minted + 1
           /\ foreign' = IF inFlight.account \in {NoAccount, identity[a]} THEN foreign
                         ELSE foreign \cup {inFlight.rid}
  BY DEF ClaimNew, Save, Mint, NoPair, TypeOK, StoreTypes

LEMMA NoPairRid == NoPair.rid = 0 /\ NoPair.unknown = 0
  BY DEF NoPair

(* A pair that is claimed is saved.                                         *)
LEMMA ClaimedIsSaved ==
    Decision \in {"claim", "expired_unreconciled"} => inFlight # NoPair
  BY DEF Decision

LEMMA BookStep == ASSUME TypeOK, Book, [Next]_vars PROVE Book'
<1> USE DEF TypeOK, StoreTypes, AttemptTypes, ServerTypes, GhostTypes, Book
<1>0. \A a \in Attempts : claim[a].rid \in Nat /\ claim[a].unknown \in Nat
  BY DEF Pair
<1>1. /\ inFlight.rid \in Nat /\ inFlight.unknown \in Nat
      /\ \A p \in pairs : p.rid \in Nat
  BY DEF Pair
<1>2. ASSUME NEW a \in Attempts, NEW again \in BOOLEAN, Begin(a, again) PROVE Book'
  BY <1>2 DEF Begin
<1>3. ASSUME NEW a \in Attempts, Resolve(a) PROVE Book'
  BY <1>3 DEF Resolve, End
<1>4. ASSUME NEW a \in Attempts, Inspect(a) PROVE Book'
  BY <1>4, <1>1, ClaimedIsSaved DEF Inspect, End, Decide
<1>5. ASSUME NEW a \in Attempts, ResolveCorrupt(a) PROVE Book'
  BY <1>5, <1>1, ClaimedIsSaved DEF ResolveCorrupt, End, Decide
<1>6. ASSUME NEW a \in Attempts, Check(a) PROVE Book'
  BY <1>6 DEF Check, End
<1>7. ASSUME NEW a \in Attempts, Claim(a) PROVE Book'
  <2>1. CASE ClaimNew(a)
    BY <1>7, <2>1, <1>0, <1>1, AfterSave DEF Claim
  <2>2. CASE ClaimLost(a)
    BY <1>7, <2>2, <1>1, ClaimedIsSaved DEF Claim, ClaimLost
  <2> QED BY <1>7, <2>1, <2>2 DEF Claim
<1>8. ASSUME NEW a \in Attempts, Send(a) PROVE Book'
  BY <1>8 DEF Send, End
<1>9. ASSUME NEW a \in Attempts, ServerSpends(a) PROVE Book'
  BY <1>9 DEF ServerSpends, Replies
<1>10. ASSUME NEW a \in Attempts, ServerAnswers(a) PROVE Book'
  BY <1>10 DEF ServerAnswers, Replies
<1>11. ASSUME NEW a \in Attempts, NEW s \in Refusals, ServerRefuses(a, s) PROVE Book'
  BY <1>11 DEF ServerRefuses, Replies
<1>12. ASSUME NEW a \in Attempts, Finalize(a) PROVE Book'
  <2>1. CASE Clears(a)
    BY <1>12, <2>1, NoPairRid DEF Finalize, Clears, End
  <2>2. CASE RecordsUnknown(a)
    <3>1. inFlight.rid # 0 /\ inFlight'.rid # 0
      BY <2>2, AfterUnknown DEF RecordsUnknown, savedPairMatching
    <3>2. /\ pc' = [pc EXCEPT ![a] = "done"] /\ pc[a] = "sent"
          /\ UNCHANGED <<claim, wire, reply, minted, spent, pairs>>
      BY <1>12, <2>2 DEF Finalize, RecordsUnknown, End
    <3>3. \A b \in Attempts : claim[b].rid = inFlight.rid => claim[b].unknown <= inFlight'.unknown
      BY <2>2, <3>1, <1>0, <1>1, AfterUnknown
    <3> HIDE DEF TypeOK, StoreTypes, GhostTypes
    <3> QED BY <2>2, <3>1, <3>2, <3>3, AfterUnknown
  <2>3. CASE RecordsRefusal(a)
    <3>1. inFlight.rid # 0 /\ inFlight'.rid # 0
      BY <2>3, AfterRefusal DEF RecordsRefusal, savedPairMatching
    <3> QED BY <1>12, <2>3, <3>1, <1>0, <1>1, AfterRefusal DEF Finalize, RecordsRefusal, End
  <2>4. CASE RecordsNothing(a)
    BY <1>12, <2>4 DEF Finalize, RecordsNothing, End
  <2> QED BY <1>12, <2>1, <2>2, <2>3, <2>4 DEF Finalize
<1>13. ASSUME NEW b \in Accounts, SignIn(b) \/ Exhaust(b) PROVE Book'
  BY <1>13 DEF SignIn, Exhaust
<1>14. CASE Tick
  BY <1>14 DEF Tick
<1>15. CASE UNCHANGED vars
  BY <1>15
<1> QED BY StepCases, <1>2, <1>3, <1>4, <1>5, <1>6, <1>7, <1>8, <1>9, <1>10, <1>11, <1>12,
           <1>13, <1>14, <1>15

LEMMA AccountStep ==
    ASSUME TypeOK, Book, SentUnderItsAccount, [Next]_vars PROVE SentUnderItsAccount'
<1> USE DEF TypeOK, AttemptTypes, ServerTypes, Book, SentUnderItsAccount, Sent
<1>1. ASSUME NEW a \in Attempts, NEW again \in BOOLEAN, Begin(a, again)
      PROVE  SentUnderItsAccount'
  BY <1>1 DEF Begin
<1>2. ASSUME NEW a \in Attempts, Resolve(a) PROVE SentUnderItsAccount'
  BY <1>2 DEF Resolve, End
<1>3. ASSUME NEW a \in Attempts, Inspect(a) PROVE SentUnderItsAccount'
  BY <1>3 DEF Inspect, End, Decide
<1>4. ASSUME NEW a \in Attempts, ResolveCorrupt(a) PROVE SentUnderItsAccount'
  BY <1>4 DEF ResolveCorrupt, End, Decide
<1>5. ASSUME NEW a \in Attempts, Check(a) PROVE SentUnderItsAccount'
  BY <1>5 DEF Check, End
<1>6. ASSUME NEW a \in Attempts, Claim(a) PROVE SentUnderItsAccount'
  BY <1>6 DEF Claim, ClaimNew, Save, ClaimLost
<1>7. ASSUME NEW a \in Attempts, Send(a) PROVE SentUnderItsAccount'
  BY <1>7 DEF Send, End, assertPairBelongsTo
<1>8. ASSUME NEW a \in Attempts, ServerSpends(a) \/ ServerAnswers(a) PROVE SentUnderItsAccount'
  BY <1>8 DEF ServerSpends, ServerAnswers, Replies
<1>9. ASSUME NEW a \in Attempts, NEW s \in Refusals, ServerRefuses(a, s)
      PROVE  SentUnderItsAccount'
  BY <1>9 DEF ServerRefuses, Replies
<1>10. ASSUME NEW a \in Attempts, Finalize(a) PROVE SentUnderItsAccount'
  BY <1>10 DEF Finalize, Clears, RecordsUnknown, RecordsRefusal, RecordsNothing, End
<1>11. ASSUME NEW b \in Accounts, SignIn(b) \/ Exhaust(b) PROVE SentUnderItsAccount'
  BY <1>11 DEF SignIn, Exhaust
<1>12. CASE Tick
  BY <1>12 DEF Tick
<1>13. CASE UNCHANGED vars
  BY <1>13
<1> QED BY StepCases, <1>1, <1>2, <1>3, <1>4, <1>5, <1>6, <1>7, <1>8, <1>9, <1>10, <1>11,
           <1>12, <1>13
(* Most steps leave the saved pair, the pairs minted and the answers alone. *)
Windows == Window /\ OnePairPerWindow

LEMMA WindowFrame ==
    ASSUME Windows, UNCHANGED <<now, inFlight, pairs, settled>>
    PROVE  Windows'
  BY DEF Windows, Window, OnePairPerWindow, Settled

LEMMA WindowStep == ASSUME TypeOK, Book, Windows, [Next]_vars PROVE Windows'
<1>1. ASSUME NEW a \in Attempts, NEW again \in BOOLEAN, Begin(a, again) PROVE Windows'
  BY <1>1, WindowFrame DEF Begin
<1>2. ASSUME NEW a \in Attempts, Resolve(a) \/ Inspect(a) \/ Check(a) PROVE Windows'
  BY <1>2, WindowFrame DEF Resolve, Inspect, Check
<1>3. ASSUME NEW a \in Attempts, ResolveCorrupt(a) PROVE Windows'
  BY <1>3, WindowFrame DEF ResolveCorrupt
<1>4. ASSUME NEW a \in Attempts, Claim(a) PROVE Windows'
  <2>1. CASE ClaimNew(a)
    <3> DEFINE q == inFlight'
    <3>1. /\ \A p \in pairs : p.rid \in Nat /\ p.startedAt \in Nat /\ p.rid # 0 /\ p.rid <= minted
          /\ inFlight.startedAt \in Nat /\ now \in Nat /\ minted \in Nat
      BY DEF TypeOK, StoreTypes, GhostTypes, Pair, Book
    <3>2. inFlight.rid = 0 \/ now >= inFlight.startedAt + InFlightTtl
      <4>1. inFlight = NoPair \/ Decision = "expired_unreconciled"
        BY <2>1 DEF ClaimNew, Decision
      <4>2. Decision = "expired_unreconciled" => ~isYoungerThanInFlightTtl(inFlight)
        BY DEF Decision
      <4> QED BY <4>1, <4>2, <3>1, NoPairRid DEF isYoungerThanInFlightTtl
    <3>3. \A p \in pairs : Settled(p.rid) \/ now >= p.startedAt + InFlightTtl
      BY <3>1, <3>2 DEF Windows, Window
    <3>4. q.rid = minted + 1 /\ q.startedAt = now /\ pairs' = pairs \cup {q}
      BY <2>1, AfterSave
    <3>5. now' = now /\ settled' = settled
      BY <1>4 DEF Claim
    <3>6. Window'
      BY <3>3, <3>4, <3>5 DEF Window, Settled
    <3>7. OnePairPerWindow'
      BY <3>1, <3>3, <3>4, <3>5 DEF OnePairPerWindow, Windows, Settled
    <3> QED BY <3>6, <3>7 DEF Windows
  <2>2. CASE ClaimLost(a)
    BY <1>4, <2>2, WindowFrame DEF Claim, ClaimLost
  <2> QED BY <1>4, <2>1, <2>2 DEF Claim
<1>5. ASSUME NEW a \in Attempts, Send(a) PROVE Windows'
  BY <1>5, WindowFrame DEF Send
<1>6. ASSUME NEW a \in Attempts, ServerSpends(a) \/ ServerAnswers(a) PROVE Windows'
  BY <1>6, WindowFrame DEF ServerSpends, ServerAnswers
<1>7. ASSUME NEW a \in Attempts, NEW s \in Refusals, ServerRefuses(a, s) PROVE Windows'
  BY <1>7, WindowFrame DEF ServerRefuses
<1>8. ASSUME NEW a \in Attempts, Finalize(a) PROVE Windows'
  <2>1. CASE Clears(a)
    <3>1. /\ settled' = settled \cup {[rid |-> claim[a].rid, answer |-> reply[a]]}
          /\ claim[a].rid = inFlight.rid /\ now' = now /\ pairs' = pairs
      BY <1>8, <2>1 DEF Finalize, Clears, savedPairMatching
    <3>2. \A rid : Settled(rid) \/ rid = inFlight.rid => Settled(rid)'
      <4> DEFINE e == [rid |-> claim[a].rid, answer |-> reply[a]]
      <4>1. e \in settled' /\ settled \subseteq settled' /\ e.rid = inFlight.rid
        BY <3>1
      <4> HIDE DEF e
      <4> QED BY <4>1 DEF Settled
    <3> QED BY <3>1, <3>2 DEF Windows, Window, OnePairPerWindow
  <2>2. CASE RecordsUnknown(a) \/ RecordsRefusal(a)
    <3>1. inFlight'.rid = inFlight.rid /\ inFlight'.startedAt = inFlight.startedAt
      BY <2>2, AfterUnknown, AfterRefusal
    <3>2. UNCHANGED <<now, pairs, settled>>
      BY <1>8, <2>2 DEF Finalize, RecordsUnknown, RecordsRefusal
    <3> QED BY <3>1, <3>2 DEF Windows, Window, OnePairPerWindow, Settled
  <2>3. CASE RecordsNothing(a)
    BY <1>8, <2>3, WindowFrame DEF Finalize, RecordsNothing
  <2> QED BY <1>8, <2>1, <2>2, <2>3 DEF Finalize
<1>9. ASSUME NEW b \in Accounts, SignIn(b) \/ Exhaust(b) PROVE Windows'
  BY <1>9, WindowFrame DEF SignIn, Exhaust
<1>10. CASE Tick
  <2>1. \A p \in pairs : p.startedAt \in Nat
    BY DEF TypeOK, GhostTypes, Pair
  <2> QED BY <1>10, <2>1
          DEF Tick, Windows, Window, OnePairPerWindow, Settled, TypeOK, StoreTypes
<1>11. CASE UNCHANGED vars
  BY <1>11, WindowFrame
<1> QED BY StepCases, <1>1, <1>2, <1>3, <1>4, <1>5, <1>6, <1>7, <1>8, <1>9, <1>10, <1>11

-----------------------------------------------------------------------------
(* Refusals and spends *)

Spends == Refused /\ Remembered

(* A step of an attempt before its send, or of the user, changes nothing    *)
(* that a spend depends on.                                                 *)
LEMMA SpendFrame ==
    ASSUME TypeOK, Spends,
           UNCHANGED <<inFlight, reply, spent, settled, late, foreign>>,
           \A b \in Attempts :
               \/ pc'[b] = pc[b] /\ claim'[b] = claim[b]
               \/ pc[b] \notin {"sent", "lost"} /\ pc'[b] \notin {"sent", "lost"}
    PROVE  Spends'
  BY DEF Spends, Refused, Remembered, SpenderOpen, Settled

LEMMA SpendStep == ASSUME TypeOK, Book, Spends, [Next]_vars PROVE Spends'
<1> USE DEF TypeOK, AttemptTypes
<1>1. ASSUME NEW a \in Attempts, NEW again \in BOOLEAN, Begin(a, again) PROVE Spends'
  BY <1>1, SpendFrame DEF Begin
<1>2. ASSUME NEW a \in Attempts, Resolve(a) PROVE Spends'
  BY <1>2, SpendFrame DEF Resolve, End
<1>3. ASSUME NEW a \in Attempts, Inspect(a) PROVE Spends'
  BY <1>3, SpendFrame DEF Inspect, End, Decide
<1>4. ASSUME NEW a \in Attempts, ResolveCorrupt(a) PROVE Spends'
  BY <1>4, SpendFrame DEF ResolveCorrupt, End, Decide
<1>5. ASSUME NEW a \in Attempts, Check(a) PROVE Spends'
  BY <1>5, SpendFrame DEF Check, End
<1>9. ASSUME NEW b \in Accounts, SignIn(b) \/ Exhaust(b) PROVE Spends'
  BY <1>9, SpendFrame DEF SignIn, Exhaust
<1>10. CASE Tick
  BY <1>10, SpendFrame DEF Tick
<1>11. CASE UNCHANGED vars
  BY <1>11, SpendFrame
<1> HIDE DEF TypeOK, AttemptTypes
<1>6. ASSUME NEW a \in Attempts, Claim(a) PROVE Spends'
  <2>1. CASE ClaimNew(a)
    <3>1. UNCHANGED <<reply, spent, settled, late>>
      BY <1>6 DEF Claim
    <3>2. inFlight'.rid \notin spent
      BY <2>1, AfterSave DEF Book, TypeOK, StoreTypes, ServerTypes
    <3>3. Refused'
      BY <3>1, <3>2 DEF Refused
    <3>4. \A rid : SpenderOpen(rid) => SpenderOpen(rid)'
      <4>1. pc[a] = "claim" /\ \A b \in Attempts : b # a => pc'[b] = pc[b] /\ claim'[b] = claim[b]
        BY <1>6, <2>1, AfterSave DEF Claim, TypeOK, AttemptTypes
      <4> QED BY <3>1, <4>1 DEF SpenderOpen
    <3>5. inFlight.rid \in spent \ late => inFlight.rid \in foreign' \/ SpenderOpen(inFlight.rid)
      <4>1. inFlight = NoPair \/ mayReplaceExpiredPair(inFlight, identity[a])
        BY <2>1 DEF ClaimNew, Decision
      <4>2. inFlight = NoPair => inFlight.rid \notin spent
        BY NoPairRid DEF Book
      <4> QED BY <2>1, <4>1, <4>2, AfterSave DEF mayReplaceExpiredPair, Spends, Refused
    <3>6. foreign \subseteq foreign'
      BY <2>1, AfterSave
    <3>7. Remembered'
      BY <3>1, <3>4, <3>5, <3>6 DEF Spends, Remembered, Settled
    <3> QED BY <3>3, <3>7 DEF Spends
  <2>2. CASE ClaimLost(a)
    BY <1>6, <2>2, SpendFrame DEF Claim, ClaimLost, TypeOK, AttemptTypes
  <2> QED BY <1>6, <2>1, <2>2 DEF Claim
<1>7. ASSUME NEW a \in Attempts, Send(a) PROVE Spends'
  <2>1. /\ pc[a] = "send" /\ reply[a] = "none"
        /\ \A b \in Attempts : b # a => pc'[b] = pc[b]
        /\ UNCHANGED <<inFlight, claim, reply, spent, settled, late, foreign>>
    BY <1>7 DEF Send, End, Book, TypeOK, AttemptTypes
  <2>2. "none" \notin Refusals
    OBVIOUS
  <2> QED BY <2>1, <2>2 DEF Spends, Refused, Remembered, SpenderOpen, Settled
<1>8. ASSUME NEW a \in Attempts, ServerSpends(a) PROVE Spends'
  <2>1. /\ reply[a] = "none" /\ reply'[a] = "reset"
        /\ \A b \in Attempts : b # a => reply'[b] = reply[b]
        /\ UNCHANGED <<inFlight, pc, claim, settled, foreign>>
        /\ spent' = spent \cup {claim[a].rid} /\ claim[a].rid \notin spent
        /\ pc[a] \in {"sent", "lost", "done"}
    BY <1>8 DEF ServerSpends, Replies, Book, TypeOK, ServerTypes
  <2>2. late' = IF pc[a] = "done" THEN late \cup {claim[a].rid} ELSE late
    BY <1>8 DEF ServerSpends
  <2>3. \A rid : SpenderOpen(rid) => SpenderOpen(rid)'
    BY <2>1 DEF SpenderOpen
  <2>4. claim[a].rid \in late' \/ SpenderOpen(claim[a].rid)'
    BY <2>1, <2>2 DEF SpenderOpen
  <2>5. late \subseteq late' /\ "reset" \notin Refusals
    BY <2>2
  <2>6. Refused'
    BY <2>1, <2>3, <2>4, <2>5 DEF Spends, Refused
  <2>7. Remembered'
    BY <2>1, <2>3, <2>4, <2>5 DEF Spends, Remembered, Settled
  <2> QED BY <2>6, <2>7 DEF Spends
<1>12. ASSUME NEW a \in Attempts, ServerAnswers(a) PROVE Spends'
  <2>1. /\ reply[a] = "none" /\ reply'[a] \notin Refusals
        /\ \A b \in Attempts : b # a => reply'[b] = reply[b]
        /\ UNCHANGED <<inFlight, pc, claim, settled, foreign, late, spent>>
    BY <1>12 DEF ServerAnswers, Replies, Book, TypeOK, ServerTypes
  <2>2. \A rid : SpenderOpen(rid) => SpenderOpen(rid)'
    BY <2>1 DEF SpenderOpen
  <2> QED BY <2>1, <2>2 DEF Spends, Refused, Remembered, Settled
<1>13. ASSUME NEW a \in Attempts, NEW s \in Refusals, ServerRefuses(a, s) PROVE Spends'
  <2>1. /\ reply[a] = "none" /\ claim[a].rid \notin spent
        /\ \A b \in Attempts : b # a => reply'[b] = reply[b]
        /\ UNCHANGED <<inFlight, pc, claim, settled, foreign, late, spent>>
    BY <1>13 DEF ServerRefuses, Replies, Book, TypeOK, ServerTypes
  <2>2. \A rid : SpenderOpen(rid) => SpenderOpen(rid)'
    BY <2>1 DEF SpenderOpen
  <2> QED BY <2>1, <2>2 DEF Spends, Refused, Remembered, Settled
<1>14. ASSUME NEW a \in Attempts, Finalize(a) PROVE Spends'
  <2>0. /\ pc[a] = "sent" /\ UNCHANGED <<claim, reply, spent, late, foreign>>
        /\ \A b \in Attempts : b # a => pc'[b] = pc[b]
    BY <1>14 DEF Finalize, Clears, RecordsUnknown, RecordsRefusal, RecordsNothing, End, TypeOK,
                 AttemptTypes
  <2>1. \A rid : rid # claim[a].rid => (SpenderOpen(rid) => SpenderOpen(rid)')
    BY <2>0 DEF SpenderOpen
  <2>2. CASE Clears(a)
    <3>1. /\ settled' = settled \cup {[rid |-> claim[a].rid, answer |-> reply[a]]}
          /\ claim[a].rid = inFlight.rid /\ inFlight' = NoPair
      BY <2>2 DEF Clears, savedPairMatching
    <3>2. \A rid : Settled(rid) \/ rid = inFlight.rid => Settled(rid)'
      <4> DEFINE e == [rid |-> claim[a].rid, answer |-> reply[a]]
      <4>1. e \in settled' /\ settled \subseteq settled' /\ e.rid = inFlight.rid
        BY <3>1
      <4> HIDE DEF e
      <4> QED BY <4>1 DEF Settled
    <3>3. inFlight'.rid \notin spent'
      BY <2>0, <3>1, NoPairRid DEF Book
    <3> QED BY <2>0, <2>1, <3>1, <3>2, <3>3 DEF Spends, Refused, Remembered
  <2>3. CASE RecordsUnknown(a)
    <3>1. claim[a].rid = inFlight.rid /\ inFlight.rid # 0 /\ settled' = settled
      BY <2>0, <2>3 DEF RecordsUnknown, savedPairMatching, Book
    <3>2. \A b \in Attempts : claim[b].rid = inFlight.rid => claim[b].unknown < inFlight'.unknown
      <4>1. \A b \in Attempts : claim[b].unknown \in Nat
        BY DEF TypeOK, AttemptTypes, Pair
      <4> QED BY <2>3, <3>1, <4>1, AfterUnknown DEF Book
    <3>3. Refused'
      BY <2>0, <2>3, <3>2, AfterUnknown DEF Refused
    <3>4. Remembered'
      BY <2>0, <2>1, <2>3, <3>1, AfterUnknown DEF Spends, Remembered, Settled
    <3> QED BY <3>3, <3>4 DEF Spends
  <2>4. CASE RecordsRefusal(a)
    <3>1. /\ claim[a].rid = inFlight.rid /\ settled' = settled /\ reply[a] \in Refusals
      BY <2>4 DEF RecordsRefusal, savedPairMatching
    <3>2. \A rid : SpenderOpen(rid) => SpenderOpen(rid)'
      BY <2>0, <3>1 DEF SpenderOpen
    <3>3. claim[a].unknown \in Nat /\ inFlight.unknown \in Nat
      BY DEF TypeOK, AttemptTypes, StoreTypes, Pair
    <3>4. Refused'
      BY <2>0, <2>4, <3>1, <3>2, <3>3, AfterRefusal DEF Spends, Refused
    <3>5. Remembered'
      BY <2>0, <2>4, <3>1, <3>2, AfterRefusal DEF Spends, Remembered, Settled
    <3> QED BY <3>4, <3>5 DEF Spends
  <2>5. CASE RecordsNothing(a)
    <3>1. /\ inFlight' = inFlight /\ settled' = settled
          /\ reply[a] \in Refusals \/ pc'[a] = "lost"
      BY <2>5 DEF RecordsNothing, RepeatsRefusal, End, TypeOK, AttemptTypes
    <3>2. \A rid : SpenderOpen(rid) => SpenderOpen(rid)'
      BY <2>0, <3>1 DEF SpenderOpen
    <3>3. pc'[a] # "sent"
      BY <2>5 DEF RecordsNothing, End, TypeOK, AttemptTypes
    <3> QED BY <2>0, <3>1, <3>2, <3>3 DEF Spends, Refused, Remembered, Settled
  <2> QED BY <1>14, <2>2, <2>3, <2>4, <2>5 DEF Finalize
<1> QED BY StepCases, <1>1, <1>2, <1>3, <1>4, <1>5, <1>6, <1>7, <1>8, <1>9, <1>10, <1>11, <1>12,
           <1>13, <1>14

-----------------------------------------------------------------------------
LEMMA InitInv == Init => IInv
<1> SUFFICES ASSUME Init PROVE IInv
  OBVIOUS
<1>1. \A c \in Credits : /\ Legacy(c).rid = 1 /\ Legacy(c).startedAt = 0
                        /\ Legacy(c).unknown = 0
  BY DEF Legacy, NoPair
<1>2. Book
  BY <1>1, NoPairRid DEF Init, Book, selectCreditToSpend
<1>3. Windows
  BY <1>1 DEF Init, Windows, Window, OnePairPerWindow, selectCreditToSpend
<1>4. SentUnderItsAccount /\ Spends
  BY DEF Init, SentUnderItsAccount, Sent, Spends, Refused, Remembered
<1> QED BY <1>2, <1>3, <1>4, InitTypes DEF IInv, Windows, Spends

(* The inductive invariant.                                                 *)
THEOREM Invariance == Spec => []IInv
<1>1. IInv /\ [Next]_vars => IInv'
  <2> SUFFICES ASSUME IInv, [Next]_vars PROVE IInv'
    OBVIOUS
  <2>1. TypeOK'
    BY FlagsStep, TypesStep DEF TypeOK, Types, IInv
  <2> QED BY <2>1, BookStep, AccountStep, WindowStep, SpendStep DEF IInv, Windows, Spends
<1> QED BY InitInv, <1>1, PTL DEF Spec

(* No second request id is minted while an earlier pair may be retried: the *)
(* claim is decided under the lock, from what is saved then.                *)
THEOREM NoSecondPair == Spec => []OnePairPerWindow
<1>1. IInv => OnePairPerWindow
  BY DEF IInv
<1> QED BY <1>1, Invariance, PTL

(* A pair is sent under the account it was minted for.                      *)
THEOREM SentUnderItsOwn == Spec => []SentUnderItsAccount
<1>1. IInv => SentUnderItsAccount
  BY DEF IInv
<1> QED BY <1>1, Invariance, PTL

(* A pair with a saved refusal was not spent, but for the windows the       *)
(* property names.                                                          *)
THEOREM RefusalIsHonest == Spec => []RefusedIsUnspent
<1>1. IInv => RefusedIsUnspent
  BY DEF IInv, RefusedIsUnspent, Refused, SpenderOpen, Unrecorded
<1> QED BY <1>1, Invariance, PTL

(* A spent credit stays saved until its spend is recorded, but for the      *)
(* windows the property names.                                              *)
THEOREM NoSpendForgotten == Spec => []SpendIsRemembered
<1>1. IInv => SpendIsRemembered
  BY DEF IInv, SpendIsRemembered, Remembered, SpenderOpen, Unrecorded
<1> QED BY <1>1, Invariance, PTL

(* A late answer leaves the pair of another attempt alone.                  *)
THEOREM AnswersKeepToTheirPair == Spec => AnswerChangesItsPair
<1> DEFINE A == \A a \in Attempts :
        pc[a] = "sent" /\ pc'[a] \in {"done", "lost"} /\ inFlight' # inFlight
            => claim[a].rid = inFlight.rid
<1>1. TypeOK /\ [Next]_vars => [A]_vars
  <2> SUFFICES ASSUME TypeOK, [Next]_vars, NEW a \in Attempts,
                      pc[a] = "sent", pc'[a] \in {"done", "lost"}, inFlight' # inFlight
               PROVE  claim[a].rid = inFlight.rid
    OBVIOUS
  <2> USE DEF TypeOK, AttemptTypes
  <2>1. ASSUME NEW b \in Attempts, Claim(b) PROVE FALSE
    BY <2>1 DEF Claim, ClaimNew, Save, ClaimLost
  <2>2. ASSUME NEW b \in Attempts, Finalize(b) PROVE claim[a].rid = inFlight.rid
    BY <2>2 DEF Finalize, Clears, RecordsUnknown, RecordsRefusal, RecordsNothing, End,
                savedPairMatching
  <2>3. ASSUME NEW b \in Attempts, Resolve(b) \/ Inspect(b) \/ ResolveCorrupt(b) \/ Check(b)
        PROVE  FALSE
    BY <2>3 DEF Resolve, Inspect, ResolveCorrupt, Check
  <2>4. ASSUME NEW b \in Attempts, Send(b) \/ ServerSpends(b) \/ ServerAnswers(b) PROVE FALSE
    BY <2>4 DEF Send, ServerSpends, ServerAnswers
  <2>5. ASSUME NEW b \in Attempts, NEW s \in Refusals, ServerRefuses(b, s) PROVE FALSE
    BY <2>5 DEF ServerRefuses
  <2>6. ASSUME NEW b \in Attempts, NEW again \in BOOLEAN, Begin(b, again) PROVE FALSE
    BY <2>6 DEF Begin
  <2>7. ASSUME NEW b \in Accounts, SignIn(b) \/ Exhaust(b) PROVE FALSE
    BY <2>7 DEF SignIn, Exhaust
  <2>8. ~Tick /\ ~UNCHANGED vars
    BY DEF Tick
  <2> QED BY StepCases, <2>1, <2>2, <2>3, <2>4, <2>5, <2>6, <2>7, <2>8
<1> QED BY <1>1, TypeCorrect, PTL DEF Spec, AnswerChangesItsPair
=============================================================================
