----------------------------- MODULE PoolRouting -----------------------------
(* The routing decisions one request is sent by, as functions of what is     *)
(* known of each account: packages/core/src/pool-routing.ts over the         *)
(* admission and routing of @cortexkit/common-auth (external).               *)
(*                                                                           *)
(* An account's state is one of Conditions: free quota; spent (a used-up     *)
(* window with a future reset); credits (spent, but prepaid credits can      *)
(* pay); budget (the workspace's spending cap is reached); unknown (no       *)
(* reading yet); marked (rate-limited mid-stream); backoff (its token        *)
(* refresh failed recently); killed (below its killswitch floor). A view v   *)
(* maps each account of the roster to its condition. Weights, bytes and      *)
(* reset times of a choice are left out: the choice is then any account the  *)
(* code could choose.                                                        *)
EXTENDS Naturals, Sequences, Functions, Filter

CONSTANTS
    Roster,     \* the accounts in roster order
    Main        \* the account that plays main

ASSUME RosterAssumption == Roster \in Seq(STRING) /\ IsInjective(Roster)

Accounts == Range(Roster)
None == "none"
Conditions == {"free", "spent", "credits", "budget", "unknown", "marked",
               "backoff", "killed"}

(* The library's admission over the accounts R: marked and backed-off        *)
(* accounts are excluded, spent and unread ones refused, and a reached       *)
(* spending cap is tried only when no other account is left.                 *)
Survivors(v, R) == {r \in R : v[r] \in {"free", "killed"}}
LastPath(v, R) ==
    IF Survivors(v, R) = {} THEN {r \in R : v[r] = "budget"} ELSE {}
Serving(v, R) == (Survivors(v, R) \cup LastPath(v, R)) \ {r \in R : v[r] = "killed"}
Excluded(v, R) == {r \in R : v[r] \in {"marked", "backoff"}}

(* Refused as confirmed exhausted.                                           *)
Confirmed(v, R) ==
    {r \in R : v[r] \in {"spent", "credits", "budget"}} \ LastPath(v, R)

Free(v, R) == {r \in R : v[r] = "free"}
Credits(v, R) == {r \in R : v[r] = "credits"}

(* Roster order, with main first or last.                                    *)
MainLast == Only(Roster, Accounts \ {Main}) \o Only(Roster, {Main})
MainFirst == Only(Roster, {Main}) \o Only(Roster, Accounts \ {Main})
orderedPlacement(mode) ==
    CASE mode = "ordered" -> Roster
      [] mode = "fallback-first" -> MainLast
      [] OTHER -> MainFirst

InOrder(mode, S) == Only(orderedPlacement(mode), S)

planUnlessReplayed(v, R) ==
    LET order == InOrder("main-first", Serving(v, R))
        free == InOrder("main-first", Free(v, R))
        credits == InOrder("main-first", Credits(v, R))
        lastPath == InOrder("main-first", Confirmed(v, R))
        preferred == free \o credits \o order \o lastPath
        target == IF Main \in R THEN <<Main>>
                  ELSE SubSeq(preferred, 1, IF preferred = <<>> THEN 0 ELSE 1)
    IN Only(target, Range(preferred))

(* A mutant: the accounts the killswitch stops stay in the order.            *)
planOrderedKilled(v, R, mode, replayable) ==
    IF replayable THEN InOrder(mode, Survivors(v, R) \cup Credits(v, R) \cup Confirmed(v, R))
    ELSE planUnlessReplayed(v, R)

(* The accounts to try, in order; <<>> when the request is refused locally.  *)
planOrdered(v, R, mode, replayable) ==
    LET order == InOrder(mode, Serving(v, R))
        free == InOrder(mode, Free(v, R))
        credits == InOrder(mode, Credits(v, R))
        lastPath == InOrder(mode, Confirmed(v, R))
        rest == IF order # <<>> THEN order ELSE lastPath
    IN CASE ~replayable -> planUnlessReplayed(v, R)
         [] replayable /\ free # <<>> -> free
         [] OTHER -> credits \o Only(rest, Accounts \ Range(credits))

(* Where a session without a usable pin may be placed.                       *)
selectStickyRow(v, R) ==
    LET credits == Only(Roster, Credits(v, R))
    IN CASE Free(v, R) # {} -> Free(v, R)
         [] Free(v, R) = {} /\ credits # <<>> -> {Head(credits)}
         [] OTHER -> Serving(v, R)

(* A mutant: a pin whose quota is unread is moved for good.                  *)
routePinnedRowEager(v, R, p) ==
    IF v[p] = "unknown" /\ Serving(v, R) # {} THEN "move"
    ELSE IF v[p] \in {"free", "credits"} THEN "serve"
    ELSE IF Serving(v, R) # {} THEN "move" ELSE "none"

(* What a session pinned to p does with this request.                        *)
routePinnedRow(v, R, p) ==
    LET serving == Serving(v, R)
        confirmed == p \in Confirmed(v, R) \/ v[p] = "killed"
        onCredits == v[p] = "credits"
        othersOnCredits == Credits(v, R) \ {p} # {}
        toLastPath == Free(v, R) = {}
    IN CASE p \in serving -> IF toLastPath /\ othersOnCredits THEN "move" ELSE "serve"
         [] p \notin serving /\ serving # {} ->
              IF ~confirmed THEN "detour"
              ELSE IF toLastPath /\ onCredits THEN "serve" ELSE "move"
         [] OTHER ->
              IF onCredits THEN "serve"
              ELSE IF othersOnCredits THEN (IF confirmed THEN "move" ELSE "detour")
              ELSE IF confirmed /\ v[p] # "killed" THEN "last-path" ELSE "none"

(* Whether the answer of account p ends the session's stay on it.            *)
stickyBreak(v, p, outcome) ==
    outcome = "auth" \/ v[p] \in {"killed", "spent", "credits", "budget"}

(* The pin ledger: the session's pin while it may stay, else a placement.    *)
(* The possible accounts are returned; recording the pin is the caller's.    *)
placeStickyPin(v, R, pin, exclude) ==
    IF pin \in R \ (Excluded(v, R) \cup exclude) THEN {pin}
    ELSE selectStickyRow(v, R \ exclude)
=============================================================================
