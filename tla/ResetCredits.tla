------------------------------ MODULE ResetCredits -----------------------------
(***************************************************************************)
(* The redemption of a rate-limit reset credit (reset-credits.ts and the   *)
(* menu's spendResetCredit).  A pair of request id and credit is saved     *)
(* before it is sent, and every later attempt sends the saved pair until   *)
(* the server settles it: the server spends nothing on a request id it has *)
(* seen.  Attempts run side by side in several windows and processes; one  *)
(* that dies is an attempt that takes no further step.                     *)
(***************************************************************************)
EXTENDS Naturals

CONSTANTS
    Attempts,
    Accounts,       \* the ChatGPT accounts the row may be signed in as
    NoAccount,
    Refusals,       \* the statuses that refuse a request for good
    Credits,        \* credits by their expiry, a set of positive numbers
    InFlightTtl, Cooldown,
    MaxTime,        \* bound: the clock
    MaxMinted       \* bound: pairs minted

ASSUME ResetAssumption ==
    /\ NoAccount \notin Accounts
    /\ Refusals \subseteq STRING
    /\ \A answer \in {"none", "reset", "already_redeemed", "nothing_to_reset", "no_credit"} :
        answer \notin Refusals
    /\ Credits \subseteq Nat \ {0}
    /\ InFlightTtl \in Nat /\ Cooldown \in Nat /\ MaxTime \in Nat /\ MaxMinted \in Nat

VARIABLES
    now,
    login,          \* the account the row is signed in as
    inFlight,       \* the saved pair, or NoPair
    corrupt,        \* there is an inFlight field, but it is not a pair
    cooldownUntil,
    minted,         \* pairs minted
    pc,
    retry,          \* the attempt is an explicit retry
    identity,       \* the account the attempt is bound to
    offered,        \* the credits it was shown
    claim,          \* the pair it read or minted
    wire,           \* sends the server has not handled
    reply,          \* its answers
    credits,        \* the credits each account has
    exhausted,      \* accounts whose quota is used up
    spent,          \* request ids that spent a credit
    settled,        \* ghost: request ids with a recorded terminal answer
    pairs,          \* ghost: every pair as it was first saved
    late,           \* ghost: spent after the sender had recorded an unknown answer
    foreign         \* ghost: replaced by an attempt of another account

store   == <<inFlight, corrupt, cooldownUntil>>
attempt == <<pc, retry, identity, offered, claim>>
server  == <<wire, reply, credits, exhausted, spent>>
ghost   == <<settled, pairs, late, foreign>>
vars    == <<now, login, store, minted, attempt, server, ghost>>

NoPair == [rid |-> 0, credit |-> 0, startedAt |-> 0, account |-> NoAccount,
           rejected |-> "none", unknown |-> 0]

SpendAnswers == {"reset", "already_redeemed"}
Terminal == SpendAnswers \cup {"nothing_to_reset", "no_credit"}

-----------------------------------------------------------------------------
(* The saved state *)

isYoungerThanInFlightTtl(pair) == now - pair.startedAt < InFlightTtl

(* Mutant: every expired pair may be replaced.                              *)
mayReplaceAnyPair(pair, account) == TRUE

(* An expired pair may be replaced when it belongs to another account, or   *)
(* its latest send was refused.                                             *)
mayReplaceExpiredPair(pair, account) ==
    pair.account \notin {NoAccount, account} \/ pair.rejected # "none"

(* inspectResetState *)
Decision ==
    IF corrupt THEN "corrupt"
    ELSE IF cooldownUntil > now THEN "cooldown"
    ELSE IF inFlight = NoPair THEN "fresh"
    ELSE IF isYoungerThanInFlightTtl(inFlight) THEN "claim"
    ELSE "expired_unreconciled"

savedPairMatching(pair) == inFlight.rid = pair.rid /\ inFlight.credit = pair.credit /\ ~corrupt

-----------------------------------------------------------------------------
(* An attempt *)

End(a, where) ==
    /\ pc' = [pc EXCEPT ![a] = where]
    /\ UNCHANGED <<retry, identity, offered, claim>>

(* spendResetCredit binds the attempt to the account the row is signed in   *)
(* as; a first spend is previewed, and ends there when it is not eligible.  *)
Begin(a, again) ==
    /\ pc[a] = "idle"
    /\ again \/ inFlight # NoPair \/ corrupt \/ credits[login] # {}
    /\ pc' = [pc EXCEPT ![a] = "resolve"]
    /\ retry' = [retry EXCEPT ![a] = again]
    /\ identity' = [identity EXCEPT ![a] = login]
    /\ UNCHANGED <<now, login, store, minted, offered, claim, server, ghost>>

(* The account of the pool's row, main's or another; none when the row is   *)
(* gone, is disabled or has no usable token.                                *)
poolResetTarget == {login, NoAccount}

(* The account is resolved again, and must be the same.                     *)
Resolve(a) ==
    /\ pc[a] = "resolve"
    /\ \E account \in poolResetTarget :
        End(a, IF account = identity[a] THEN "inspect" ELSE "done")
    /\ UNCHANGED <<now, login, store, minted, server, ghost>>

(* What an attempt does at each decision: send the saved pair, stop, or     *)
(* check whether a new one may be minted.                                   *)
Decide(a, decision) ==
    LET replays == \/ decision = "claim"
                   \/ decision = "expired_unreconciled" /\ retry[a]
        renews  == /\ ~retry[a]
                   /\ \/ decision = "fresh"
                      \/ /\ decision = "expired_unreconciled"
                         /\ mayReplaceExpiredPair(inFlight, identity[a])
    IN  /\ pc' = [pc EXCEPT ![a] = IF replays THEN "send"
                                   ELSE IF renews THEN "check" ELSE "done"]
        /\ claim' = IF replays THEN [claim EXCEPT ![a] = inFlight] ELSE claim
        /\ UNCHANGED <<retry, identity, offered>>

(* inspectResetAttempt reads without the lock.                              *)
Inspect(a) ==
    /\ pc[a] = "inspect"
    /\ IF Decision = "corrupt" THEN End(a, "corrupt") ELSE Decide(a, Decision)
    /\ UNCHANGED <<now, login, store, minted, server, ghost>>

(* An incomplete pair is dropped, under the lock if it still is one, and    *)
(* nothing is sent.                                                         *)
ResolveCorrupt(a) ==
    /\ pc[a] = "corrupt"
    /\ IF Decision = "corrupt"
       THEN End(a, "done") /\ corrupt' = FALSE /\ UNCHANGED <<inFlight, cooldownUntil>>
       ELSE Decide(a, Decision) /\ UNCHANGED store
    /\ UNCHANGED <<now, login, minted, server, ghost>>

(* fetchUsage and listResetCredits.  A live rate-limit mark counts as       *)
(* exhaustion whatever the usage says, so the check may pass at any time;   *)
(* it may fail at any time too, when either request does.                   *)
Check(a) ==
    /\ pc[a] = "check"
    /\ \/ /\ credits[identity[a]] # {}
          /\ pc' = [pc EXCEPT ![a] = "claim"]
          /\ offered' = [offered EXCEPT ![a] = credits[identity[a]]]
          /\ UNCHANGED <<retry, identity, claim>>
       \/ End(a, "done")
    /\ UNCHANGED <<now, login, store, minted, server, ghost>>

-----------------------------------------------------------------------------
(* claimResetAttempt, under the lock *)

selectCreditToSpend(list) == {c \in list : \A d \in list : c <= d}

Mint(a, c) ==
    [rid |-> minted + 1, credit |-> c, startedAt |-> now,
     account |-> identity[a], rejected |-> "none", unknown |-> 0]

Save(a, pair) ==
    /\ minted < MaxMinted
    /\ minted' = minted + 1
    /\ inFlight' = pair
    /\ claim' = [claim EXCEPT ![a] = pair]
    /\ pc' = [pc EXCEPT ![a] = "send"]
    /\ pairs' = pairs \cup {pair}
    /\ foreign' = IF inFlight.account \in {NoAccount, identity[a]} THEN foreign
                  ELSE foreign \cup {inFlight.rid}
    /\ UNCHANGED <<corrupt, cooldownUntil>>

(* Mutant: what was read before the lock still decides.                     *)
ClaimNewStale(a) ==
    /\ ~corrupt /\ cooldownUntil <= now
    /\ \E c \in selectCreditToSpend(offered[a]) : Save(a, Mint(a, c))

ClaimNew(a) ==
    /\ \/ Decision = "fresh"
       \/ /\ Decision = "expired_unreconciled"
          /\ mayReplaceExpiredPair(inFlight, identity[a])
    /\ \E c \in selectCreditToSpend(offered[a]) : Save(a, Mint(a, c))

(* Another attempt was faster: its pair is sent, or this one ends.          *)
ClaimLost(a) ==
    /\ \/ /\ Decision = "claim"
          /\ claim' = [claim EXCEPT ![a] = inFlight]
          /\ pc' = [pc EXCEPT ![a] = "send"]
          /\ UNCHANGED corrupt
       \/ /\ \/ Decision \in {"corrupt", "cooldown"}
             \/ /\ Decision = "expired_unreconciled"
                /\ ~mayReplaceExpiredPair(inFlight, identity[a])
          /\ pc' = [pc EXCEPT ![a] = "done"]
          /\ corrupt' = FALSE
          /\ UNCHANGED claim
    /\ UNCHANGED <<inFlight, cooldownUntil, minted, pairs, foreign>>

Claim(a) ==
    /\ pc[a] = "claim"
    /\ ClaimNew(a) \/ ClaimLost(a)
    /\ UNCHANGED <<now, login, retry, identity, offered, server, settled, late>>

-----------------------------------------------------------------------------
(* Sending, and the server *)

assertPairBelongsTo(a) == claim[a].account \in {NoAccount, identity[a]}

(* consumeResetCredit *)
Send(a) ==
    /\ pc[a] = "send"
    /\ IF assertPairBelongsTo(a)
       THEN wire' = wire \cup {a} /\ End(a, "sent")
       ELSE UNCHANGED wire /\ End(a, "done")
    /\ UNCHANGED <<now, login, store, minted, reply, credits, exhausted, spent, ghost>>

Replies(a, answer) ==
    /\ wire' = wire \ {a}
    /\ reply' = [reply EXCEPT ![a] = answer]

(* External: the server spends the credit, perhaps after the sender gave up *)
(* on the answer; or it has nothing to spend or to reset.                   *)
ServerSpends(a) ==
    /\ a \in wire
    /\ claim[a].rid \notin spent
    /\ claim[a].credit \in credits[identity[a]] /\ identity[a] \in exhausted
    /\ Replies(a, "reset")
    /\ spent' = spent \cup {claim[a].rid}
    /\ credits' = [credits EXCEPT ![identity[a]] = @ \ {claim[a].credit}]
    /\ exhausted' = exhausted \ {identity[a]}
    /\ late' = IF pc[a] = "done" THEN late \cup {claim[a].rid} ELSE late
    /\ UNCHANGED <<now, login, store, minted, attempt, settled, pairs, foreign>>

ServerAnswers(a) ==
    /\ a \in wire
    /\ \/ claim[a].rid \in spent /\ Replies(a, "already_redeemed")
       \/ /\ claim[a].rid \notin spent
          /\ \/ claim[a].credit \notin credits[identity[a]] /\ Replies(a, "no_credit")
             \/ identity[a] \notin exhausted /\ Replies(a, "nothing_to_reset")
    /\ UNCHANGED <<now, login, store, minted, attempt, credits, exhausted, spent, ghost>>

(* External: a request is refused for good; never one that it answered      *)
(* before.                                                                  *)
ServerRefuses(a, status) ==
    /\ a \in wire
    /\ claim[a].rid \notin spent
    /\ Replies(a, status)
    /\ UNCHANGED <<now, login, store, minted, attempt, credits, exhausted, spent, ghost>>

-----------------------------------------------------------------------------
(* finalizeResetAttempt: the answer arrived, or none that settles anything  *)
(* (a timeout, a lost or malformed answer, a status that means "not now").  *)

(* A terminal answer clears the pair it belongs to.                         *)
Clears(a) ==
    /\ pc[a] = "sent" /\ reply[a] \in Terminal
    /\ savedPairMatching(claim[a])
    /\ inFlight' = NoPair
    /\ cooldownUntil' = IF reply[a] \in SpendAnswers THEN now + Cooldown ELSE 0
    /\ settled' = settled \cup {[rid |-> claim[a].rid, answer |-> reply[a]]}
    /\ End(a, "done")
    /\ UNCHANGED corrupt

Bound(pair, account) == IF pair.account = NoAccount THEN account ELSE pair.account

(* An answer that settles nothing is counted, and withdraws a refusal.      *)
RecordsUnknown(a) ==
    /\ pc[a] = "sent"
    /\ savedPairMatching(claim[a])
    /\ inFlight' = [inFlight EXCEPT !.account = Bound(inFlight, identity[a]),
                                    !.rejected = "none", !.unknown = @ + 1]
    /\ End(a, "done")
    /\ UNCHANGED <<corrupt, cooldownUntil, settled>>

(* The same refusal as the pair had when it was read is not written again.  *)
RepeatsRefusal(a) ==
    /\ reply[a] \in Refusals /\ reply[a] = claim[a].rejected
    /\ claim[a].account # NoAccount

(* A refusal is recorded unless another send of the pair met an unknown     *)
(* answer since this one read it.                                           *)
RecordsRefusal(a) ==
    /\ pc[a] = "sent" /\ reply[a] \in Refusals /\ ~RepeatsRefusal(a)
    /\ savedPairMatching(claim[a])
    /\ inFlight' = [inFlight EXCEPT !.account = Bound(inFlight, identity[a]),
                                    !.rejected = IF inFlight.unknown = claim[a].unknown
                                                 THEN reply[a] ELSE @]
    /\ End(a, "done")
    /\ UNCHANGED <<corrupt, cooldownUntil, settled>>

(* Nothing is written: a repeated refusal; an answer to a pair that is no   *)
(* longer saved; a write that fails.                                        *)
RecordsNothing(a) ==
    /\ pc[a] = "sent"
    /\ \/ RepeatsRefusal(a) /\ End(a, "done")
       \/ End(a, "lost")
    /\ UNCHANGED <<store, settled>>

Finalize(a) ==
    /\ Clears(a) \/ RecordsUnknown(a) \/ RecordsRefusal(a) \/ RecordsNothing(a)
    /\ UNCHANGED <<now, login, minted, server, pairs, late, foreign>>

-----------------------------------------------------------------------------
(* External: the user signs in as another account, uses up the quota.       *)
SignIn(account) ==
    /\ account # login
    /\ login' = account
    /\ UNCHANGED <<now, store, minted, attempt, server, ghost>>

Exhaust(account) ==
    /\ account \notin exhausted
    /\ exhausted' = exhausted \cup {account}
    /\ UNCHANGED <<now, login, store, minted, attempt, wire, reply, credits, spent, ghost>>

Tick ==
    /\ now < MaxTime
    /\ now' = now + 1
    /\ UNCHANGED <<login, store, minted, attempt, server, ghost>>

(* The saved state may hold a pair from before accounts were recorded, or   *)
(* an incomplete one.                                                       *)
Legacy(c) == [NoPair EXCEPT !.rid = 1, !.credit = c]

Init ==
    /\ now = 0 /\ login \in Accounts
    /\ cooldownUntil = 0
    /\ \/ inFlight = NoPair /\ corrupt \in BOOLEAN /\ minted = 0 /\ pairs = {}
       \/ \E c \in selectCreditToSpend(Credits) :
            inFlight = Legacy(c) /\ corrupt = FALSE /\ minted = 1 /\ pairs = {Legacy(c)}
    /\ pc = [a \in Attempts |-> "idle"]
    /\ retry = [a \in Attempts |-> FALSE]
    /\ identity = [a \in Attempts |-> NoAccount]
    /\ offered = [a \in Attempts |-> {}]
    /\ claim = [a \in Attempts |-> NoPair]
    /\ wire = {} /\ reply = [a \in Attempts |-> "none"]
    /\ credits = [b \in Accounts |-> Credits]
    /\ exhausted = Accounts
    /\ spent = {} /\ settled = {} /\ late = {} /\ foreign = {}

Next ==
    \/ \E a \in Attempts :
        \/ (\E again \in BOOLEAN : Begin(a, again))
        \/ Resolve(a) \/ Inspect(a) \/ ResolveCorrupt(a) \/ Check(a) \/ Claim(a) \/ Send(a)
        \/ ServerSpends(a) \/ ServerAnswers(a) \/ (\E s \in Refusals : ServerRefuses(a, s))
        \/ Finalize(a)
    \/ \E b \in Accounts : SignIn(b) \/ Exhaust(b)
    \/ Tick

Spec == Init /\ [][Next]_vars

-----------------------------------------------------------------------------
(* Properties *)

Pair == [rid : Nat, credit : Credits \cup {0}, startedAt : Nat,
         account : Accounts \cup {NoAccount}, rejected : Refusals \cup {"none"}, unknown : Nat]

FlagTypes == corrupt \in BOOLEAN /\ retry \in [Attempts -> BOOLEAN]

StoreTypes ==
    /\ now \in Nat /\ login \in Accounts /\ minted \in Nat
    /\ inFlight \in Pair /\ cooldownUntil \in Nat

AttemptTypes ==
    /\ pc \in [Attempts -> {"idle", "resolve", "inspect", "corrupt", "check", "claim", "send",
                            "sent", "lost", "done"}]
    /\ identity \in [Attempts -> Accounts \cup {NoAccount}]
    /\ offered \in [Attempts -> SUBSET Credits]
    /\ claim \in [Attempts -> Pair]
    /\ \A a \in Attempts :
        /\ pc[a] # "idle" => identity[a] \in Accounts
        /\ pc[a] = "claim" => offered[a] # {}

ServerTypes ==
    /\ wire \subseteq Attempts
    /\ reply \in [Attempts -> Terminal \cup Refusals \cup {"none"}]
    /\ credits \in [Accounts -> SUBSET Credits]
    /\ exhausted \subseteq Accounts
    /\ spent \subseteq Nat

GhostTypes ==
    /\ late \subseteq Nat /\ foreign \subseteq Nat
    /\ settled \subseteq [rid : Nat, answer : Terminal]
    /\ pairs \subseteq Pair

(* Every variable keeps its type; an attempt past its start is bound to an  *)
(* account, and one that claims was shown a credit.                         *)
TypeOK == FlagTypes /\ StoreTypes /\ AttemptTypes /\ ServerTypes /\ GhostTypes

Sent(a) == pc[a] \in {"sent", "lost"} \/ a \in wire
Settled(rid) == \E s \in settled : s.rid = rid
Unrecorded(rid) == \E a \in Attempts : pc[a] \in {"sent", "lost"} /\ claim[a].rid = rid

(* No second request id while an earlier one may still be retried: a pair   *)
(* is minted only after the one before it was settled or had expired.       *)
OnePairPerWindow ==
    \A p, q \in pairs : p.rid < q.rid =>
        q.startedAt >= p.startedAt + InFlightTtl \/ Settled(p.rid)

(* A pair whose refusal is saved, so that it may be replaced, was not       *)
(* spent, unless another send of it is not accounted for or the server      *)
(* acted after the sender had given up.                                     *)
RefusedIsUnspent ==
    inFlight.rejected # "none" /\ inFlight.rid \in spent \ late => Unrecorded(inFlight.rid)

(* A credit that was spent is never forgotten: its pair stays saved until   *)
(* the spend is recorded, with the same exceptions, and but for one that a  *)
(* spend of another account replaced.                                       *)
SpendIsRemembered ==
    \A rid \in spent \ (late \cup foreign) :
        inFlight.rid = rid \/ Settled(rid) \/ Unrecorded(rid)

(* A pair is sent under the account it was minted for.                      *)
SentUnderItsAccount ==
    \A a \in Attempts : Sent(a) => claim[a].account \in {NoAccount, identity[a]}

(* An answer changes only the record of its own pair.                       *)
AnswerChangesItsPair ==
    [][\A a \in Attempts :
        pc[a] = "sent" /\ pc'[a] \in {"done", "lost"} /\ inFlight' # inFlight
            => claim[a].rid = inFlight.rid]_vars
=============================================================================
