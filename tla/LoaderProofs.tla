----------------------------- MODULE LoaderProofs -----------------------------
(***************************************************************************)
(* Proofs about the loader's requests.  LegacyRequest, for every order of  *)
(* the rows, every configuration and any number of events around the       *)
(* request: it asks each account at most once, none it knows to be ruled   *)
(* out, hands back a whole answer, and is refused only for cause.          *)
(* VaultMode, for any number of writes of the enrollment files and of      *)
(* versions of the vault's list: each use is one the authority read for it *)
(* allows.                                                                 *)
(***************************************************************************)
EXTENDS LegacyRequest, VaultMode, FilterProofs, TLAPS

(***************************************************************************)
(* LegacyRequest                                                           *)
(***************************************************************************)
Logins == [who : Nat, tok : Nat]
Offers == [acct : Fallbacks, cred : Logins]
SendRecords ==
    [acct : Rows, cred : Logins, low : BOOLEAN, held : BOOLEAN, sticky : BOOLEAN]

(* A credential wherever the account has one, and every account has one.    *)
CredentialTypes ==
    /\ slot \in Logins \cup {Absent} /\ cred \in [Rows -> Logins \cup {Absent}]
    /\ stored \in Nat /\ \A x \in Rows : Cred(x) # Absent
    /\ slot # Absent /\ cred["main"] # Absent =>
          cred["main"].who = slot.who /\ slot.who = stored

(* What is recorded of an account is of a time after every persisted        *)
(* reading.                                                                 *)
ReadingTypes ==
    /\ DOMAIN cache = Rows /\ DOMAIN last = Rows /\ DOMAIN saved = Rows
    /\ clock \in Nat
    /\ \A x \in Rows : /\ last[x] # Absent => last[x].at \in Nat /\ last[x].at > 0
                       /\ saved[x] # Absent => saved[x].at = 0

RequestFields ==
    {"pc", "replayable", "overtaken", "rows", "mainAccountId", "main", "id", "inPool", "shared",
     "out", "killed", "marked", "todo", "usable", "next", "sel", "cands", "tried", "sticky",
     "status", "read", "sends", "open", "last", "low", "roster"}

BeforeChoice == {"auth", "refresh", "decide"}
Places ==
    BeforeChoice \cup Waits
        \cup {"select", "first", "tryFirst", "block", "after", "react", "migrate", "finish",
              "answered", "thrown"}

SelectionTypes(sel) ==
    /\ DOMAIN sel = {"done", "current", "retained"} /\ sel.done \in BOOLEAN
    /\ sel.current \in Seq(Offers) /\ sel.retained \in Seq(Offers)
    /\ ~sel.done => sel = NoSelection

(* A request, and what it can be sent with: a fallback is never main.       *)
RequestTypes(r) ==
    /\ DOMAIN r = RequestFields
    /\ r.pc \in Places
    /\ {r.replayable, r.inPool, r.out, r.killed, r.marked, r.tried, r.sticky} \subseteq BOOLEAN
    /\ r.rows \in [Rows -> Logins \cup {Absent}] /\ r.id \in Nat
    /\ r.main \in Logins \cup {Absent}
    /\ r.pc = "refresh" => r.main # Absent
    /\ r.todo \in Seq(Rows) /\ IsInjective(r.todo)
    /\ \A x \in Range(r.todo) : r.rows[x] # Absent
    /\ r.usable \in Seq(Offers) /\ r.cands \in Seq(Offers) /\ SelectionTypes(r.sel)
    /\ r.sends \in Seq(SendRecords)
    /\ r.pc \in Waits \cup {"migrate"} => r.sends # <<>>
    /\ \A c \in r.roster : c.acct \in Rows /\ c.cred \in Logins
                           /\ (c.acct = "main" => r.main # Absent)
    /\ r.pc \in {"sticky?", "migrate"} => \E c \in r.roster : c.acct = r.sends[Len(r.sends)].acct

(* Row main as the request read it is either its own main account, or       *)
(* shielded.                                                                *)
MainShielded(r) ==
    /\ r.inPool => "main" \notin Range(r.todo)
    /\ ~r.inPool /\ (r.pc = "auth" => slot # Absent) /\ r.rows["main"] # Absent =>
          r.rows["main"].who = r.mainAccountId

LegacyTypesHold ==
    /\ config \in Configs /\ CredentialTypes /\ ReadingTypes
    /\ rq # NotBegun => RequestTypes(rq) /\ MainShielded(rq)

(***************************************************************************)
(* One try per account                                                     *)
(***************************************************************************)
Accts(s) == {c.acct : c \in Range(s)}

Distinct(s) == IsInjective(s) /\ \A c, d \in Range(s) : c.acct = d.acct => c = d

Unsent == BeforeChoice \cup {"first"}

(* Whom the request may still ask is none it has asked.                     *)
TriesOnce(r) ==
    /\ Distinct(r.usable) /\ Accts(r.usable) \cap Range(r.todo) = {}
    /\ Distinct(r.sel.current) /\ Distinct(r.sel.retained) /\ Distinct(r.cands)
    /\ Distinct(r.sends)
    /\ r.pc \in BeforeChoice =>
          r.todo = <<>> /\ r.usable = <<>> /\ ~r.sel.done /\ r.roster = {}
    /\ r.pc \in Unsent \/ (r.pc = "select" /\ r.next \in {"roster", "first"}) => r.sends = <<>>
    /\ r.pc \in {"tryFirst", "react"} => Accts(r.cands) \cap Accts(r.sends) = {}
    /\ r.pc \in {"first?", "react?"} => Accts(r.cands) \cap Accts(r.sends) = {}
    /\ r.pc \in {"tryFirst", "first?", "block"} \/ (r.pc = "select" /\ r.next = "block") =>
          "main" \notin Accts(r.sends) /\ (r.sends # <<>> => r.tried)
    /\ ~r.tried /\ (r.pc \in {"main?", "after"} \/ (r.pc = "select" /\ r.next = "after")) =>
          Accts(r.sends) \subseteq {"main"}
    /\ r.pc \in {"first", "tryFirst", "first?"} => r.tried
    /\ r.pc = "select" => r.next \in {"roster", "first", "block", "after"}
    /\ r.pc = "select" /\ r.next = "first" => r.tried
    /\ r.tried => r.sel.done \/ (r.pc = "select" /\ r.next = "first")
    /\ r.pc \in {"sticky?", "migrate"} => Len(r.sends) = 1

(***************************************************************************)
(* Nobody ruled out is asked                                               *)
(***************************************************************************)
Readings1(x) == last[x] # Absent => cache[x] = last[x]

Ordered == config.mode # "sticky-balanced"

(* What was judged without a mark or above its floor stays so.              *)
NoneRuledOut(r) ==
    /\ r.pc \notin BeforeChoice \cup {"thrown"} => ("main" \in held => r.marked)
    /\ Accts(r.cands) \cap held = {} /\ Accts(r.sel.current) \cap held = {}
    /\ Range(r.sel.retained) \subseteq Range(r.sel.current)
    /\ Ordered => Accts(r.cands) \cap r.low = {} /\ Accts(r.sel.current) \cap r.low = {}
    /\ "main" \in r.low => r.killed
    /\ ~r.sel.done => r.low \subseteq {"main"} /\ r.cands = <<>>
    /\ r.sticky => r.pc \notin BeforeChoice /\ ~Ordered
    /\ r.pc \in {"first", "tryFirst", "block", "after", "react", "main?", "first?", "react?"} => ~r.sticky
    /\ r.pc = "select" => ~r.sel.done
    /\ r.pc = "select" /\ r.next # "roster" => ~r.sticky
    /\ r.pc \in {"sticky?", "migrate"} \/ (r.pc = "select" /\ r.next = "roster") => r.sticky
    /\ \A s \in Range(r.sends) :
          ~s.held /\ (s.low => s.sticky \/ (~Ordered /\ s.acct # "main"))

(* The process has the last reading of an account, unless the selection     *)
(* under way dropped it for another token's.                                *)
ReadingsKept ==
    /\ rq = NotBegun \/ rq.pc \in BeforeChoice \/ (Ordered /\ rq.pc # "select" /\ ~rq.sel.done) =>
          \A x \in Rows : Readings1(x)
    /\ rq # NotBegun /\ Ordered /\ rq.pc = "select" =>
          /\ \A x \in Range(rq.todo) : Readings1(x)
          /\ \A u \in Range(rq.usable) :
                last[u.acct] # Absent /\ last[u.acct].tok = u.cred.tok => Readings1(u.acct)

(***************************************************************************)
(* The answer, and refusals                                                *)
(***************************************************************************)
(* The answer last taken is the only one not yet released.                  *)
Kept(r) ==
    /\ r.last \in Nat
    /\ r.open = (IF r.last = 0 THEN {} ELSE {r.last})
    /\ \/ r.pc \in Unsent \cup {"tryFirst", "first?", "block", "main?", "sticky?"}
       \/ r.pc = "select" /\ r.next # "after"
       => r.last = 0

(* Nothing was sent, though main could have been.                           *)
Bricked(r) == r.sends = <<>> /\ ~r.killed /\ ~r.marked /\ r.main # Absent

WillServe(r) ==
    Bricked(r) =>
        /\ r.pc \notin {"finish", "answered", "react?"}
        /\ r.pc = "tryFirst" /\ r.cands = <<>> => r.sel.retained = <<>>
        /\ r.pc = "block" /\ r.tried => r.sel.retained = <<>>
        /\ r.pc = "after" => /\ r.sel.done /\ ~r.tried /\ r.replayable /\ r.status = "limited"
                             /\ r.sel.retained # <<>>
        /\ r.pc = "select" => r.next # "after"
        /\ r.pc = "react" => r.cands # <<>>

LegacyInv ==
    /\ LegacyTypesHold /\ held \subseteq mark
    /\ rq # NotBegun => TriesOnce(rq) /\ NoneRuledOut(rq) /\ Kept(rq) /\ WillServe(rq)
    /\ ReadingsKept

-----------------------------------------------------------------------------
(* Credentials *)

LEMMA NoLoginIsAbsent == Absent \notin Logins
BY DEF Absent, Logins

LEMMA RotationType ==
    ASSUME NEW c \in Logins
    PROVE  Next1(c) \in Logins /\ Next1(c).who = c.who
BY DEF Next1, Logins

LEMMA CredentialsInit == LegacyInit => CredentialTypes
<1> SUFFICES ASSUME LegacyInit PROVE CredentialTypes
  OBVIOUS
<1>1. First \in Logins /\ First.who = 1 /\ First # Absent
  BY NoLoginIsAbsent DEF First, Logins
<1>2. PICK main \in {Absent, First} :
          cred = [x \in Rows |-> IF x = "main" THEN main ELSE First]
  BY DEF LegacyInit
<1>3. slot = First /\ stored = 1 /\ "main" \in Rows
  BY DEF LegacyInit, Rows
<1> QED BY <1>1, <1>2, <1>3 DEF CredentialTypes, Cred, MainCred

(* A refreshed row stays the row of its login.                              *)
LEMMA RowRefreshType ==
    ASSUME CredentialTypes, NEW x \in Rows, NEW c, refreshAccountNow(x, c)
    PROVE  /\ CredentialTypes'
           /\ RowRefreshed(x, c) \in Logins
           /\ RowRefreshed(x, c).who = cred[x].who
           /\ cred' = [cred EXCEPT ![x] = RowRefreshed(x, c)]
           /\ slot' = slot
<1>1. cred[x] \in Logins /\ cred[x] # Absent
  BY DEF refreshAccountNow, CredentialTypes
<1>2. RowRefreshed(x, c) \in Logins /\ RowRefreshed(x, c).who = cred[x].who
  BY <1>1, RotationType DEF RowRefreshed
<1>3. /\ cred' = [cred EXCEPT ![x] = RowRefreshed(x, c)]
      /\ slot' = slot /\ stored' = stored
  BY DEF refreshAccountNow
<1>4. cred' \in [Rows -> Logins \cup {Absent}]
  BY <1>2, <1>3 DEF CredentialTypes
<1>5. \A y \in Rows : (cred'[y] = Absent <=> cred[y] = Absent) /\ (cred[y] # Absent => cred'[y].who = cred[y].who)
  BY <1>1, <1>2, <1>3, NoLoginIsAbsent DEF CredentialTypes
<1>6. "main" \in Rows
  BY DEF Rows
<1>7. CredentialTypes'
  BY <1>3, <1>4, <1>5, <1>6 DEF CredentialTypes, Cred, MainCred
<1> QED BY <1>2, <1>3, <1>7

LEMMA SlotRefreshType ==
    ASSUME CredentialTypes, NEW c, refreshMainWithLease(c)
    PROVE  /\ CredentialTypes'
           /\ SlotRefreshed(c) \in Logins /\ slot # Absent /\ slot' # Absent
           /\ cred' = cred
<1>1. slot \in Logins /\ slot # Absent
  BY DEF refreshMainWithLease, CredentialTypes
<1>2. SlotRefreshed(c) \in Logins /\ SlotRefreshed(c).who = slot.who
  BY <1>1, RotationType DEF SlotRefreshed
<1>3. slot' = SlotRefreshed(c) /\ cred' = cred /\ stored' = stored
  BY DEF refreshMainWithLease
<1>4. slot' # Absent
  BY <1>2, <1>3, NoLoginIsAbsent
<1> QED BY <1>1, <1>2, <1>3, <1>4 DEF CredentialTypes, Cred, MainCred

LEMMA CredentialsStay ==
    ASSUME CredentialTypes, slot' = slot, cred' = cred, stored' = stored
    PROVE  CredentialTypes'
BY DEF CredentialTypes, Cred, MainCred

(* The credentials replaced around a request: a row that is main's is of    *)
(* the login in the slot, and stays main's own once the slot gave it up.    *)
LEMMA CredentialsReplaced ==
    ASSUME CredentialTypes, Credentials
    PROVE  CredentialTypes' /\ (slot = Absent => slot' = Absent)
<1> USE NoLoginIsAbsent
<1>1. "main" \in Rows
  BY DEF Rows
<1>2. ASSUME NEW x \in Rows, TokenExpires(x), UNCHANGED <<slot, cred, prev, stored, saved>>
      PROVE  CredentialTypes' /\ (slot = Absent => slot' = Absent)
  BY <1>2, CredentialsStay
<1>3. ASSUME NEW x \in Rows, Relogin(x), UNCHANGED <<expired, stored>>
      PROVE  CredentialTypes' /\ (slot = Absent => slot' = Absent)
  <2> DEFINE new == [who |-> 2, tok |-> Cred(x).tok + 1]
  <2>1. Cred(x) \in Logins
    BY DEF CredentialTypes, Cred, MainCred
  <2>2. new \in Logins /\ new # Absent
    BY <2>1 DEF Logins
  <2>3. \/ x = "main" /\ slot # Absent /\ slot' = new /\ cred' = cred
        \/ ~(x = "main" /\ slot # Absent) /\ cred' = [cred EXCEPT ![x] = new] /\ slot' = slot
    BY <1>3 DEF Relogin
  <2>4. stored' = stored /\ (x = "main" => slot = Absent \/ cred["main"] = Absent)
    BY <1>3 DEF Relogin
  <2> HIDE DEF new
  <2>5. CASE x = "main" /\ slot # Absent
    BY <1>1, <2>2, <2>3, <2>4, <2>5 DEF CredentialTypes, Cred, MainCred
  <2>6. CASE ~(x = "main" /\ slot # Absent)
    <3>1. /\ cred' \in [Rows -> Logins \cup {Absent}] /\ cred'[x] = new
          /\ \A y \in Rows \ {x} : cred'[y] = cred[y]
      BY <2>2, <2>3, <2>6 DEF CredentialTypes
    <3> QED BY <1>1, <2>2, <2>3, <2>4, <2>6, <3>1 DEF CredentialTypes, Cred, MainCred
  <2> QED BY <2>5, <2>6
<1>4. ASSUME LoaderRuns, UNCHANGED <<slot, cred, prev, expired, saved>>
      PROVE  CredentialTypes' /\ (slot = Absent => slot' = Absent)
  BY <1>4 DEF LoaderRuns, CredentialTypes, Cred, MainCred, Logins
<1>5. ASSUME WriteMainRow
      PROVE  CredentialTypes' /\ (slot = Absent => slot' = Absent)
  <2>1. slot # Absent /\ slot \in Logins /\ slot' = slot /\ stored' = slot.who
    BY <1>5 DEF WriteMainRow, CredentialTypes
  <2>2. /\ cred' \in [Rows -> Logins \cup {Absent}] /\ cred'["main"] = slot
        /\ \A y \in Rows \ {"main"} : cred'[y] = cred[y]
    BY <1>1, <1>5, <2>1 DEF WriteMainRow, CredentialTypes
  <2> QED BY <1>1, <2>1, <2>2 DEF CredentialTypes, Cred, MainCred, Logins
<1>6. ASSUME WritePlaceholder
      PROVE  CredentialTypes' /\ (slot = Absent => slot' = Absent)
  <2>1. slot # Absent /\ slot \in Logins /\ slot' = Absent /\ stored' = stored
    BY <1>6 DEF WritePlaceholder, CredentialTypes
  <2>2. /\ cred' \in [Rows -> Logins \cup {Absent}] /\ cred'["main"] = slot
        /\ \A y \in Rows \ {"main"} : cred'[y] = cred[y]
    BY <1>1, <1>6, <2>1 DEF WritePlaceholder, CredentialTypes
  <2> QED BY <1>1, <2>1, <2>2 DEF CredentialTypes, Cred, MainCred
<1> QED BY <1>2, <1>3, <1>4, <1>5, <1>6 DEF Credentials

-----------------------------------------------------------------------------
(* Readings *)

(* A reading taken is the last one and the cached one.                      *)
Moves(x) ==
    \/ cache'[x] = cache[x] /\ last'[x] = last[x]
    \/ cache'[x] = last'[x]

AllMove == ReadingTypes' /\ \A x \in Rows : Moves(x)

LEMMA ReadingsInit == LegacyInit => ReadingTypes /\ \A x \in Rows : cache[x] = last[x]
<1> SUFFICES ASSUME LegacyInit PROVE ReadingTypes /\ \A x \in Rows : cache[x] = last[x]
  OBVIOUS
<1>1. PICK s \in {Absent} \cup [level : SavedLevels, at : {0}] :
          saved = [x \in Rows |-> IF x = "main" THEN Absent ELSE s]
  BY DEF LegacyInit
<1>2. /\ cache = [x \in Rows |-> Absent] /\ last = [x \in Rows |-> Absent] /\ clock = 0
  BY DEF LegacyInit
<1> QED BY <1>1, <1>2 DEF ReadingTypes

LEMMA ReadingsStay == ASSUME ReadingTypes, quota' = quota, saved' = saved PROVE AllMove
BY DEF AllMove, Moves, ReadingTypes, quota

(* Any step that records one reading.                                       *)
LEMMA Records ==
    ASSUME ReadingTypes, NEW x, NEW level, NEW c, clock' = clock + 1, saved' = saved,
           Stored(x, Reading(level, c)), last' = [last EXCEPT ![x] = Reading(level, c)]
    PROVE  AllMove
<1> DEFINE e == Reading(level, c)
<1>1. e.at = clock + 1 /\ clock + 1 \in Nat /\ clock + 1 > 0
  BY DEF Reading, ReadingTypes
<1>2. cache' = [cache EXCEPT ![x] = e] /\ last' = [last EXCEPT ![x] = e]
  BY DEF Stored
<1> HIDE DEF e
<1>3. DOMAIN cache' = Rows /\ DOMAIN last' = Rows /\ DOMAIN saved' = Rows
  BY <1>2 DEF ReadingTypes
<1>4. \A y \in Rows : IF y = x THEN cache'[y] = e /\ last'[y] = e
                      ELSE cache'[y] = cache[y] /\ last'[y] = last[y]
  <2>1. DOMAIN cache = Rows /\ DOMAIN last = Rows
    BY DEF ReadingTypes
  <2>2. \A y \in Rows : IF y = x THEN cache'[y] = e ELSE cache'[y] = cache[y]
    BY <1>2, <2>1
  <2>3. \A y \in Rows : IF y = x THEN last'[y] = e ELSE last'[y] = last[y]
    BY <1>2, <2>1
  <2> QED BY <2>2, <2>3
<1>5. \A y \in Rows : last'[y] # Absent => last'[y].at \in Nat /\ last'[y].at > 0
  BY <1>1, <1>4 DEF ReadingTypes
<1>6. \A y \in Rows : Moves(y)
  BY <1>4 DEF Moves
<1>7. ReadingTypes'
  BY <1>1, <1>3, <1>5 DEF ReadingTypes
<1> QED BY <1>6, <1>7 DEF AllMove

LEMMA PushRecords ==
    ASSUME ReadingTypes, NEW x, NEW level, NEW c, pushQuota(x, c, level), saved' = saved
    PROVE  AllMove
<1>1. clock' = clock + 1
  BY DEF pushQuota
<1>2. CASE StaleMainFrame(x, c)
  <2>1. UNCHANGED <<cache, mark, last>>
    BY <1>2 DEF pushQuota
  <2> QED BY <1>1, <2>1 DEF AllMove, Moves, ReadingTypes
<1>3. CASE ~StaleMainFrame(x, c)
  <2>1. Stored(x, Reading(level, c)) /\ last' = [last EXCEPT ![x] = Reading(level, c)]
    BY <1>3 DEF pushQuota
  <2> QED BY <1>1, <2>1, Records
<1> QED BY <1>2, <1>3

(* An account that is examined keeps its last reading, unless another token *)
(* brought it.                                                              *)
LEMMA SeedReads ==
    ASSUME ReadingTypes, NEW x \in Rows, NEW c, seedFallbackQuota(x, c),
           last' = last, clock' = clock, saved' = saved
    PROVE  /\ ReadingTypes'
           /\ \A y \in Rows : y # x => cache'[y] = cache[y]
           /\ Readings1(x) /\ last[x] # Absent /\ last[x].tok = c.tok => cache'[x] = last[x]
<1>1. PICK e : cache' = [cache EXCEPT ![x] = e]
  BY DEF seedFallbackQuota, Stored
<1>2. ReadingTypes' /\ \A y \in Rows : y # x => cache'[y] = cache[y]
  BY <1>1 DEF ReadingTypes
<1>3. ASSUME Readings1(x), last[x] # Absent, last[x].tok = c.tok
      PROVE  cache'[x] = last[x]
  <2>1. getFallback(x, c.tok) = last[x]
    BY <1>3 DEF Readings1, getFallback
  <2>2. ~Seeds(x, c)
    <3>1. saved[x] # Absent => ~(last[x].at < saved[x].at)
      BY <1>3 DEF ReadingTypes
    <3> QED BY <1>3, <2>1, <3>1 DEF Seeds
  <2>3. cache' = [cache EXCEPT ![x] = last[x]]
    BY <2>1, <2>2 DEF seedFallbackQuota
  <2> QED BY <2>3 DEF ReadingTypes
<1> QED BY <1>2, <1>3

-----------------------------------------------------------------------------
(* What happens beside the request *)

SameRequest == rq' = rq \/ (rq # NotBegun /\ rq' = [rq EXCEPT !.overtaken = TRUE])

Beside ==
    /\ SameRequest /\ config' = config /\ CredentialTypes' /\ AllMove
    /\ slot = Absent => slot' = Absent

LEMMA ReadingsAround ==
    ASSUME CredentialTypes, ReadingTypes, Readings, saved' = saved
    PROVE  CredentialTypes' /\ AllMove /\ slot' = slot
<1>1. ASSUME login' = login PROVE CredentialTypes' /\ slot' = slot
  BY <1>1, CredentialsStay DEF login
<1>2. ASSUME UNCHANGED <<cache, last, clock>> PROVE AllMove
  BY <1>2 DEF AllMove, Moves, ReadingTypes
<1>3. ASSUME NEW x \in Rows, NEW l \in Levels, NEW c \in {Cred(x), prev[x]}, Frame(x, c, l)
      PROVE  CredentialTypes' /\ AllMove /\ slot' = slot
  BY <1>1, <1>3, PushRecords DEF Frame
<1>4. ASSUME NEW x \in Rows, NEW l \in Levels, OtherProcess(x, l),
             UNCHANGED <<login, cache, mark, last, stale>>
      PROVE  CredentialTypes' /\ AllMove /\ slot' = slot
  <2>1. clock' = clock + 1
    BY <1>4 DEF OtherProcess
  <2> QED BY <1>1, <1>4, <2>1 DEF AllMove, Moves, ReadingTypes
<1>5. ASSUME NEW x \in Rows, \/ markRateLimited(x) /\ UNCHANGED <<login, cache, last, clock, file, stale>>
                             \/ MarkExpires(x) /\ UNCHANGED <<login, cache, last, clock, file, stale>>
                             \/ buildSidebarMachineState(x) /\ UNCHANGED <<login, quota, stale>>
      PROVE  CredentialTypes' /\ AllMove /\ slot' = slot
  BY <1>1, <1>2, <1>5 DEF quota
<1>6. ASSUME UNCHANGED <<login, quota, file>>
      PROVE  CredentialTypes' /\ AllMove /\ slot' = slot
  BY <1>1, <1>2, <1>6 DEF quota
<1> QED BY <1>3, <1>4, <1>5, <1>6 DEF Readings

LEMMA AroundIsBeside ==
    ASSUME CredentialTypes, ReadingTypes, Around
    PROVE  Beside
<1>0. config' = config
  BY DEF Around
<1>1. CASE OtherRequest /\ UNCHANGED <<login, quota, file, stale, saved, poll>>
  BY <1>0, <1>1, CredentialsStay, ReadingsStay DEF OtherRequest, Beside, SameRequest, login
<1>2. CASE UNCHANGED <<current, rq>> /\ Credentials /\ UNCHANGED <<quota, file, stale, poll>>
  <2>1. CredentialTypes' /\ (slot = Absent => slot' = Absent)
    BY <1>2, CredentialsReplaced
  <2>2. saved' = saved \/ \E x \in Rows : saved' = [saved EXCEPT ![x] = Absent]
    BY <1>2 DEF Credentials, Relogin
  <2>3. ReadingTypes' /\ UNCHANGED <<cache, last>>
    BY <1>2, <2>2 DEF ReadingTypes, quota
  <2> QED BY <1>0, <1>2, <2>1, <2>3 DEF Beside, SameRequest, AllMove, Moves
<1>3. CASE UNCHANGED <<current, rq>> /\ Readings /\ UNCHANGED <<saved, poll>>
  BY <1>0, <1>3, ReadingsAround DEF Beside, SameRequest
<1>4. CASE UNCHANGED <<current, rq>> /\ UNCHANGED <<login, quota, file, stale, saved>>
  BY <1>0, <1>4, CredentialsStay, ReadingsStay DEF Beside, SameRequest, login
<1> QED BY <1>1, <1>2, <1>3, <1>4 DEF Around

(* The row a poll names is refreshed under the row's own lock.              *)
LEMMA AnyRowRefreshType ==
    ASSUME CredentialTypes, NEW x, NEW c, refreshAccountNow(x, c)
    PROVE  CredentialTypes' /\ slot' = slot
<1>1. CASE x \in Rows
  BY <1>1, RowRefreshType
<1>2. CASE x \notin Rows
  <2>1. cred' = [cred EXCEPT ![x] = RowRefreshed(x, c)] /\ slot' = slot /\ stored' = stored
    BY DEF refreshAccountNow
  <2>2. cred \in [Rows -> Logins \cup {Absent}]
    BY DEF CredentialTypes
  <2>3. cred' = cred
    BY <1>2, <2>1, <2>2
  <2> QED BY <2>1, <2>3, CredentialsStay
<1> QED BY <1>1, <1>2

LEMMA PollIsBeside ==
    ASSUME CredentialTypes, ReadingTypes, PollStep
    PROVE  Beside
<1>0. rq' = rq /\ config' = config /\ saved' = saved
  BY DEF PollStep
<1>1. ASSUME UNCHANGED login PROVE CredentialTypes' /\ slot' = slot
  BY <1>1, CredentialsStay DEF login
<1>2. ASSUME UNCHANGED quota PROVE AllMove
  BY <1>0, <1>2, ReadingsStay
<1>3. ASSUME UNCHANGED <<login, quota>> PROVE Beside
  BY <1>0, <1>1, <1>2, <1>3 DEF Beside, SameRequest
<1>4. CASE PollSkipped \/ PollAsks \/ PollFails
  BY <1>3, <1>4 DEF PollSkipped, PollAsks, PollFails
<1>5. CASE PollRefreshes
  <2>1. UNCHANGED quota
    BY <1>5 DEF PollRefreshes
  <2>2. \/ refreshMainWithLease(slot)
        \/ refreshAccountNow(poll.acct, poll.row)
    BY <1>5 DEF PollRefreshes
  <2>3. ASSUME refreshMainWithLease(slot) PROVE Beside
    BY <1>0, <1>2, <2>1, <2>3, SlotRefreshType DEF Beside, SameRequest
  <2>4. ASSUME refreshAccountNow(poll.acct, poll.row) PROVE Beside
    BY <1>0, <1>2, <2>1, <2>4, AnyRowRefreshType DEF Beside, SameRequest
  <2> QED BY <2>2, <2>3, <2>4
<1>6. ASSUME NEW l \in Levels, PollAnswered(l) PROVE Beside
  <2>1. AllMove
    BY <1>0, <1>6, Records DEF PollAnswered
  <2>2. login' = login
    BY <1>6 DEF PollAnswered
  <2> QED BY <1>0, <1>1, <2>1, <2>2 DEF Beside, SameRequest
<1>7. CASE PollRejected
  BY <1>0, <1>2, <1>7, AnyRowRefreshType DEF PollRejected, Beside, SameRequest
<1> QED BY <1>4, <1>5, <1>6, <1>7 DEF PollStep, PollGoesOn

LEMMA RangeIn == ASSUME NEW T, NEW s \in Seq(T) PROVE Range(s) \subseteq T
BY DEF Range

LEMMA OfferFields ==
    \A u \in Offers : u.acct \in Fallbacks /\ u.acct \in Rows /\ u.acct # "main" /\ u.cred \in Logins
BY FallbacksAssumption DEF Offers, Rows

(* All a request goes by is as before.                                      *)
SameFields(s, r) ==
    /\ DOMAIN s = DOMAIN r /\ s.pc = r.pc /\ s.replayable = r.replayable /\ s.rows = r.rows
    /\ s.mainAccountId = r.mainAccountId /\ s.main = r.main /\ s.id = r.id
    /\ s.inPool = r.inPool /\ s.out = r.out /\ s.killed = r.killed /\ s.marked = r.marked
    /\ s.todo = r.todo /\ s.usable = r.usable /\ s.next = r.next /\ s.sel = r.sel
    /\ s.cands = r.cands /\ s.tried = r.tried /\ s.sticky = r.sticky /\ s.status = r.status
    /\ s.sends = r.sends /\ s.open = r.open /\ s.last = r.last /\ s.low = r.low
    /\ s.roster = r.roster

LEMMA SameRequestFields ==
    ASSUME rq # NotBegun, RequestTypes(rq), SameRequest
    PROVE  rq' # NotBegun /\ SameFields(rq', rq)
<1>1. DOMAIN rq = RequestFields
  BY DEF RequestTypes
<1>2. SameFields(rq', rq)
  <2>1. CASE rq' = rq
    BY <2>1 DEF SameFields
  <2>2. CASE rq' = [rq EXCEPT !.overtaken = TRUE]
    BY <1>1, <2>2 DEF SameFields, RequestFields
  <2> QED BY <2>1, <2>2 DEF SameRequest
<1>3. DOMAIN rq' = RequestFields
  BY <1>1, <1>2 DEF SameFields
<1>4. "rows" \in RequestFields /\ "rows" \notin DOMAIN NotBegun
  BY DEF RequestFields, NotBegun
<1> QED BY <1>2, <1>3, <1>4

LEMMA HeldShrinks ==
    ASSUME held \subseteq mark, Held
    PROVE  held' \subseteq mark' /\ (rq # NotBegun => held' \subseteq held)
BY DEF Held

LEMMA BesideKeeps ==
    ASSUME LegacyInv, Beside, Held
    PROVE  LegacyInv'
<1>1. held' \subseteq mark' /\ (rq # NotBegun => held' \subseteq held)
  BY HeldShrinks DEF LegacyInv
<1>2. CredentialTypes' /\ ReadingTypes' /\ config' = config /\ config \in Configs
  BY DEF Beside, AllMove, LegacyInv, LegacyTypesHold
<1>3. \A x \in Rows : Readings1(x) => Readings1(x)'
  BY DEF Beside, AllMove, Moves, Readings1
<1>4. CASE rq = NotBegun
  <2>1. rq' = NotBegun
    BY <1>4 DEF Beside, SameRequest
  <2>2. ReadingsKept'
    BY <1>3, <1>4, <2>1 DEF LegacyInv, ReadingsKept
  <2> QED BY <1>1, <1>2, <2>1, <2>2 DEF LegacyInv, LegacyTypesHold
<1>5. CASE rq # NotBegun
  <2>1. /\ RequestTypes(rq) /\ MainShielded(rq) /\ TriesOnce(rq) /\ NoneRuledOut(rq)
        /\ Kept(rq) /\ WillServe(rq)
    BY <1>5 DEF LegacyInv, LegacyTypesHold
  <2>2. rq' # NotBegun /\ SameFields(rq', rq)
    BY <1>5, <2>1, SameRequestFields DEF Beside
  <2>3. RequestTypes(rq')
    BY <2>1, <2>2 DEF SameFields, RequestTypes
  <2>4. MainShielded(rq)'
    BY <2>1, <2>2 DEF SameFields, MainShielded, Beside
  <2>5. TriesOnce(rq')
    BY <2>1, <2>2 DEF SameFields, TriesOnce
  <2>6. NoneRuledOut(rq)'
    BY <1>1, <1>2, <1>5, <2>1, <2>2 DEF SameFields, NoneRuledOut, Ordered
  <2>7. Kept(rq') /\ WillServe(rq')
    BY <2>1, <2>2 DEF SameFields, Kept, WillServe, Bricked
  <2>8. ReadingsKept'
    <3>1. \A u \in Range(rq.usable) :
             /\ u.acct \in Rows
             /\ last'[u.acct] # Absent /\ last'[u.acct].tok = u.cred.tok =>
                   \/ cache'[u.acct] = last'[u.acct]
                   \/ last[u.acct] = last'[u.acct] /\ cache'[u.acct] = cache[u.acct]
      <4>1. \A u \in Range(rq.usable) : u.acct \in Rows
        BY <2>1, RangeIn, OfferFields DEF RequestTypes
      <4> QED BY <4>1 DEF Beside, AllMove, Moves
    <3>2. \A x \in Range(rq.todo) : x \in Rows
      BY <2>1 DEF RequestTypes, Range
    <3>3. /\ rq.pc \in BeforeChoice \/ (Ordered /\ rq.pc # "select" /\ ~rq.sel.done) =>
                \A x \in Rows : Readings1(x)
          /\ Ordered /\ rq.pc = "select" =>
                /\ \A x \in Range(rq.todo) : Readings1(x)
                /\ \A u \in Range(rq.usable) :
                      last[u.acct] # Absent /\ last[u.acct].tok = u.cred.tok => Readings1(u.acct)
      BY <1>5 DEF LegacyInv, ReadingsKept
    <3> QED BY <1>2, <1>3, <2>2, <3>1, <3>2, <3>3 DEF ReadingsKept, Readings1, SameFields, Ordered
  <2> QED BY <1>1, <1>2, <2>2, <2>3, <2>4, <2>5, <2>6, <2>7, <2>8 DEF LegacyInv, LegacyTypesHold
<1> QED BY <1>4, <1>5

-----------------------------------------------------------------------------
(* Sequences of accounts *)

LEMMA NoAccts == Accts(<<>>) = {} /\ Distinct(<<>>)
BY DEF Accts, Distinct, Range, IsInjective

LEMMA AppendedAccts ==
    ASSUME NEW T, NEW s \in Seq(T), NEW e \in T
    PROVE  /\ Append(s, e) \in Seq(T) /\ Append(s, e) # <<>>
           /\ Len(Append(s, e)) = Len(s) + 1 /\ Append(s, e)[Len(s) + 1] = e
           /\ Range(Append(s, e)) = Range(s) \cup {e}
           /\ Accts(Append(s, e)) = Accts(s) \cup {e.acct}
           /\ Distinct(s) /\ e.acct \notin Accts(s) => Distinct(Append(s, e))
<1> DEFINE a == Append(s, e)
<1>1. a \in Seq(T) /\ Len(a) = Len(s) + 1 /\ a[Len(s) + 1] = e /\ a # <<>>
  OBVIOUS
<1>2. /\ Range(a) = Range(s) \cup {e}
      /\ IsInjective(s) /\ e \notin Range(s) => IsInjective(a)
  BY Appended
<1> HIDE DEF a
<1>3. Accts(a) = Accts(s) \cup {e.acct}
  BY <1>2 DEF Accts
<1>4. ASSUME Distinct(s), e.acct \notin Accts(s) PROVE Distinct(a)
  <2>1. e \notin Range(s) /\ \A c \in Range(s) : c.acct # e.acct
    BY <1>4 DEF Accts
  <2> QED BY <1>2, <1>4, <2>1 DEF Distinct
<1> QED BY <1>1, <1>2, <1>3, <1>4 DEF a

LEMMA FirstAndRest ==
    ASSUME NEW T, NEW s \in Seq(T), s # <<>>
    PROVE  /\ Head(s) \in T /\ Head(s) \in Range(s) /\ Head(s).acct \in Accts(s)
           /\ Tail(s) \in Seq(T) /\ Range(Tail(s)) \subseteq Range(s)
           /\ Accts(Tail(s)) \subseteq Accts(s)
           /\ IsInjective(s) => IsInjective(Tail(s)) /\ Head(s) \notin Range(Tail(s))
           /\ Distinct(s) => Distinct(Tail(s)) /\ Head(s).acct \notin Accts(Tail(s))
<1> DEFINE h == Head(s)
           t == Tail(s)
<1>1. /\ h \in T /\ h \in Range(s) /\ t \in Seq(T) /\ Range(t) \subseteq Range(s)
      /\ IsInjective(s) => IsInjective(t) /\ h \notin Range(t)
  BY HeadAndTail
<1> HIDE DEF h, t
<1>2. h.acct \in Accts(s) /\ Accts(t) \subseteq Accts(s)
  BY <1>1 DEF Accts
<1>3. Distinct(s) => Distinct(t) /\ h.acct \notin Accts(t)
  BY <1>1 DEF Distinct, Accts
<1> QED BY <1>1, <1>2, <1>3 DEF h, t

LEMMA OnlyAccts ==
    ASSUME NEW T, NEW s \in Seq(T), NEW S
    PROVE  /\ Only(s, S) \in Seq(T) /\ Range(Only(s, S)) = Range(s) \cap S
           /\ Accts(Only(s, S)) \subseteq Accts(s)
           /\ Distinct(s) => Distinct(Only(s, S))
<1>1. /\ Only(s, S) \in Seq(T) /\ Range(Only(s, S)) = Range(s) \cap S
      /\ IsInjective(s) => IsInjective(Only(s, S))
  BY OnlyKeeps
<1> QED BY <1>1 DEF Accts, Distinct

-----------------------------------------------------------------------------
(* The request's own steps *)

RequestInv ==
    /\ rq # NotBegun
    /\ RequestTypes(rq) /\ MainShielded(rq) /\ TriesOnce(rq) /\ NoneRuledOut(rq)
    /\ Kept(rq) /\ WillServe(rq) /\ ReadingsKept

(* Nothing but the request moves, and what is no longer marked.             *)
Quiet ==
    /\ config' = config /\ CredentialTypes /\ ReadingTypes /\ UNCHANGED <<login, quota, saved>>
    /\ held' \subseteq held /\ held \subseteq mark

(* The request changes in nothing but the fields F.                         *)
Changes(F) ==
    /\ DOMAIN rq' = RequestFields
    /\ \A f \in RequestFields \ F : rq'[f] = rq[f]

LEMMA FieldsNow == RequestInv => DOMAIN rq = RequestFields
BY DEF RequestInv, RequestTypes

LEMMA Begun == ASSUME DOMAIN rq' = RequestFields PROVE rq' # NotBegun
<1>1. "rows" \in RequestFields /\ "rows" \notin DOMAIN NotBegun
  BY DEF RequestFields, NotBegun
<1> QED BY <1>1

USE DEF Changes, RequestFields, Places, Waits, Unsent, BeforeChoice

LEMMA RefreshFailsKeeps ==
    ASSUME RequestInv, Quiet, RefreshFails
    PROVE  RequestInv'
<1>1. rq.pc = "refresh" /\ rq'.pc \in {"decide", "thrown"} /\ Changes({"pc"})
  BY FieldsNow DEF RefreshFails
<1>2. RequestTypes(rq')
  <2>1. CASE rq'.pc = "decide"
    BY <1>1, <2>1 DEF RequestInv, RequestTypes
  <2>2. CASE rq'.pc = "thrown"
    BY <1>1, <2>2 DEF RequestInv, RequestTypes
  <2> QED BY <1>1, <2>1, <2>2
<1>3. MainShielded(rq)' /\ TriesOnce(rq') /\ Kept(rq') /\ WillServe(rq')
  BY <1>1 DEF RequestInv, MainShielded, TriesOnce, Kept, WillServe, Bricked, Quiet, login
<1>4. NoneRuledOut(rq)'
  BY <1>1 DEF RequestInv, NoneRuledOut, Quiet, Ordered
<1>5. ReadingsKept'
  BY <1>1 DEF RequestInv, ReadingsKept, Readings1, Quiet, Ordered, quota
<1> QED BY <1>1, <1>2, <1>3, <1>4, <1>5, Begun DEF RequestInv

LEMMA BlockMainKeeps ==
    ASSUME RequestInv, Quiet, BlockMain
    PROVE  RequestInv'
<1>1. /\ rq.pc = "block" /\ rq'.pc = "after" /\ Changes({"pc", "status"})
      /\ rq'.status = IF Blocked THEN "limited" ELSE "denied"
  BY FieldsNow DEF BlockMain, Judged
<1>2. RequestTypes(rq')
  BY <1>1 DEF RequestInv, RequestTypes
<1>3. MainShielded(rq)' /\ Kept(rq')
  BY <1>1 DEF RequestInv, MainShielded, Kept, Quiet, login
<1>4. TriesOnce(rq')
  BY <1>1, NoAccts DEF RequestInv, TriesOnce
<1>5. NoneRuledOut(rq)'
  BY <1>1 DEF RequestInv, NoneRuledOut, Quiet, Ordered
<1>6. WillServe(rq')
  BY <1>1 DEF RequestInv, WillServe, Bricked, BlockMain, Blocked, quotaBlocksMain, Judged,
              Unavailable
<1>7. ReadingsKept'
  BY <1>1, Begun DEF RequestInv, ReadingsKept, Readings1, Quiet, Ordered, quota
<1> QED BY <1>1, <1>2, <1>3, <1>4, <1>5, <1>6, <1>7, Begun DEF RequestInv

(* Where a request that changes in none but these fields is one.            *)
LEMMA TypesStay ==
    ASSUME RequestTypes(rq),
           Changes({"pc", "status", "next", "read", "open", "last", "todo", "usable", "cands", "sends"}),
           rq'.pc \in Places \ {"refresh", "sticky?", "migrate"},
           rq'.pc \in Waits => rq'.sends # <<>>,
           rq'.todo \in Seq(Rows), IsInjective(rq'.todo),
           \A x \in Range(rq'.todo) : rq.rows[x] # Absent,
           rq'.usable \in Seq(Offers), rq'.cands \in Seq(Offers), rq'.sends \in Seq(SendRecords)
    PROVE  RequestTypes(rq')
<1>1. /\ DOMAIN rq' = RequestFields
      /\ rq'.replayable = rq.replayable /\ rq'.inPool = rq.inPool /\ rq'.out = rq.out
      /\ rq'.killed = rq.killed /\ rq'.marked = rq.marked /\ rq'.tried = rq.tried
      /\ rq'.sticky = rq.sticky /\ rq'.rows = rq.rows /\ rq'.id = rq.id /\ rq'.main = rq.main
      /\ rq'.sel = rq.sel /\ rq'.roster = rq.roster
  OBVIOUS
<1> HIDE DEF Changes
<1>2. rq'.pc \in Places /\ rq'.pc \notin {"refresh", "sticky?", "migrate"}
  OBVIOUS
<1> HIDE DEF Places
<1>3. rq'.pc \in Waits \cup {"migrate"} => rq'.sends # <<>>
  BY <1>2
<1> QED BY <1>1, <1>2, <1>3 DEF RequestTypes

(* The rows a selection goes through                                        *)
LEMMA AllRowsType ==
    ASSUME RequestTypes(rq)
    PROVE  /\ AllRows \in Seq(Rows) /\ IsInjective(AllRows)
           /\ \A x \in Range(AllRows) : rq.rows[x] # Absent
           /\ rq.inPool => "main" \notin Range(AllRows)
<1>1. Order \in Seq(Rows) /\ IsInjective(Order)
  BY OrderAssumption DEF IsInjective
<1>2. /\ FallbackRows \in Seq(Rows) /\ IsInjective(FallbackRows)
      /\ rq.inPool => "main" \notin Range(FallbackRows)
  <2>1. /\ Only(Order, Fallbacks) \in Seq(Rows) /\ IsInjective(Only(Order, Fallbacks))
        /\ Range(Only(Order, Fallbacks)) \subseteq Fallbacks
    BY <1>1, OnlyKeeps
  <2> QED BY <1>1, <2>1, FallbacksAssumption DEF FallbackRows
<1>3. /\ AllRows \in Seq(Rows) /\ IsInjective(AllRows)
      /\ Range(AllRows) = Range(FallbackRows) \cap {x \in Rows : rq.rows[x] # Absent}
  BY <1>2, OnlyKeeps DEF AllRows
<1> QED BY <1>2, <1>3

LEMMA PlaceStays ==
    ASSUME RequestTypes(rq), Changes({"pc"}),
           rq'.pc \in Places \ ({"refresh", "sticky?", "migrate"} \cup Waits)
    PROVE  RequestTypes(rq')
<1>1. /\ rq'.todo = rq.todo /\ rq'.usable = rq.usable /\ rq'.cands = rq.cands
      /\ rq'.sends = rq.sends
      /\ Changes({"pc", "status", "next", "read", "open", "last", "todo", "usable", "cands", "sends"})
  OBVIOUS
<1>2. /\ rq.todo \in Seq(Rows) /\ IsInjective(rq.todo)
      /\ \A x \in Range(rq.todo) : rq.rows[x] # Absent
      /\ rq.usable \in Seq(Offers) /\ rq.cands \in Seq(Offers) /\ rq.sends \in Seq(SendRecords)
  BY DEF RequestTypes
<1> QED BY <1>1, <1>2, TypesStay

LEMMA SelectBegins ==
    ASSUME RequestInv, Quiet, NEW next, rq' = Select(next), ~rq.sel.done,
           \/ rq.pc = "block" /\ next = "block"
           \/ rq.pc = "after" /\ next = "after"
    PROVE  RequestInv'
<1>1. /\ Changes({"pc", "next", "todo", "usable"}) /\ rq'.pc = "select" /\ rq'.next = next
      /\ rq'.todo = AllRows /\ rq'.usable = <<>>
  BY FieldsNow DEF Select
<1>2. /\ AllRows \in Seq(Rows) /\ IsInjective(AllRows)
      /\ \A x \in Range(AllRows) : rq.rows[x] # Absent
      /\ rq.inPool => "main" \notin Range(AllRows)
  BY AllRowsType DEF RequestInv
<1>3. <<>> \in Seq(Offers) /\ Range(<<>>) = {}
  BY DEF Range
<1>4. RequestTypes(rq')
  <2>1. rq'.usable \in Seq(Offers) /\ rq'.todo \in Seq(Rows)
    BY <1>1, <1>2, <1>3
  <2>2. /\ rq'.pc = "select" /\ IsInjective(rq'.todo)
        /\ \A x \in Range(rq'.todo) : rq.rows[x] # Absent
    BY <1>1, <1>2
  <2>3. /\ rq'.cands = rq.cands /\ rq'.sends = rq.sends
        /\ Changes({"pc", "status", "next", "read", "open", "last", "todo", "usable", "cands", "sends"})
    BY <1>1
  <2>4. rq'.cands \in Seq(Offers) /\ rq'.sends \in Seq(SendRecords)
    BY <2>3 DEF RequestInv, RequestTypes
  <2> QED BY <2>1, <2>2, <2>3, <2>4, TypesStay DEF RequestInv
<1>5. MainShielded(rq)' /\ Kept(rq')
  BY <1>1, <1>2 DEF RequestInv, MainShielded, Kept, Quiet, login
<1>6. TriesOnce(rq')
  BY <1>1, NoAccts DEF RequestInv, TriesOnce
<1>7. NoneRuledOut(rq)'
  BY <1>1 DEF RequestInv, NoneRuledOut, Quiet, Ordered
<1>8. WillServe(rq')
  BY <1>1 DEF RequestInv, WillServe, Bricked
<1>9. ReadingsKept'
  <2>1. Range(AllRows) \subseteq Rows
    BY <1>2, RangeIn
  <2> QED BY <1>1, <1>3, <2>1, Begun DEF RequestInv, ReadingsKept, Readings1, Quiet, Ordered, quota
<1> QED BY <1>1, <1>4, <1>5, <1>6, <1>7, <1>8, <1>9, Begun DEF RequestInv

LEMMA SelectKeeps ==
    ASSUME RequestInv, Quiet, SelectForBlock \/ SelectForReactive
    PROVE  RequestInv'
BY SelectBegins DEF SelectForBlock, SelectForReactive

(* The candidates tried are of the selection, whichever part is taken.      *)
LEMMA AdmittedAreSelected ==
    ASSUME RequestInv, NEW remains
    PROVE  LET cands == applyAdmissionQuotaSafety(remains)
           IN  /\ cands \in Seq(Offers) /\ Distinct(cands)
               /\ Accts(cands) \cap held = {} /\ (Ordered => Accts(cands) \cap rq.low = {})
               /\ cands = <<>> => rq.sel.retained = <<>>
               /\ "main" \notin Accts(cands)
               /\ cands # <<>> => rq.sel.done
<1> DEFINE cands == applyAdmissionQuotaSafety(remains)
<1>1. cands \in {rq.sel.current, rq.sel.retained}
  BY DEF applyAdmissionQuotaSafety
<1>2. cands \in Seq(Offers) /\ Distinct(cands) /\ Range(cands) \subseteq Range(rq.sel.current)
  BY <1>1 DEF RequestInv, RequestTypes, SelectionTypes, TriesOnce, NoneRuledOut
<1>3. Accts(cands) \subseteq Accts(rq.sel.current)
  BY <1>2 DEF Accts
<1>4. cands = <<>> => rq.sel.retained = <<>>
  BY DEF applyAdmissionQuotaSafety
<1>5. "main" \notin Accts(cands)
  BY <1>2, RangeIn, OfferFields DEF Accts
<1>6. cands # <<>> => rq.sel.done
  BY <1>1 DEF RequestInv, RequestTypes, SelectionTypes, NoSelection
<1> HIDE DEF cands
<1>7. Accts(cands) \cap held = {} /\ (Ordered => Accts(cands) \cap rq.low = {})
  BY <1>3 DEF RequestInv, NoneRuledOut
<1> QED BY <1>2, <1>4, <1>5, <1>6, <1>7 DEF cands

LEMMA StartFirstKeeps ==
    ASSUME RequestInv, Quiet, StartFirst
    PROVE  RequestInv'
<1> DEFINE cands == applyAdmissionQuotaSafety(~rq.killed /\ ~rq.marked /\ ~rq.out)
<1>1. /\ Changes({"pc", "cands"}) /\ rq.pc = "first" /\ rq'.pc = "tryFirst"
      /\ rq'.cands = cands /\ rq.sel.done
  BY FieldsNow DEF StartFirst
<1>2. /\ cands \in Seq(Offers) /\ Distinct(cands)
      /\ Accts(cands) \cap held = {} /\ (Ordered => Accts(cands) \cap rq.low = {})
      /\ cands = <<>> => rq.sel.retained = <<>>
  BY AdmittedAreSelected
<1> HIDE DEF cands
<1>3. RequestTypes(rq')
  BY <1>1, <1>2 DEF RequestInv, RequestTypes
<1>4. MainShielded(rq)' /\ Kept(rq')
  BY <1>1 DEF RequestInv, MainShielded, Kept, Quiet, login
<1>5. TriesOnce(rq')
  BY <1>1, <1>2, NoAccts DEF RequestInv, TriesOnce
<1>6. NoneRuledOut(rq)'
  BY <1>1, <1>2 DEF RequestInv, NoneRuledOut, Quiet, Ordered
<1>7. WillServe(rq')
  BY <1>1, <1>2 DEF RequestInv, WillServe, Bricked
<1>8. ReadingsKept'
  BY <1>1, Begun DEF RequestInv, ReadingsKept, Readings1, Quiet, Ordered, quota
<1> QED BY <1>1, <1>3, <1>4, <1>5, <1>6, <1>7, <1>8, Begun DEF RequestInv

LEMMA ReactKeeps ==
    ASSUME RequestInv, Quiet, React
    PROVE  RequestInv'
<1> DEFINE cands == applyAdmissionQuotaSafety(FALSE)
<1>1. /\ cands \in Seq(Offers) /\ Distinct(cands)
      /\ Accts(cands) \cap held = {} /\ (Ordered => Accts(cands) \cap rq.low = {})
      /\ cands = <<>> => rq.sel.retained = <<>>
      /\ "main" \notin Accts(cands)
      /\ cands # <<>> => rq.sel.done
  BY AdmittedAreSelected
<1>2. /\ rq.pc = "after" /\ (Reacts => rq.sel.done)
      /\ \/ /\ Reacts /\ rq.replayable
            /\ rq'.pc = "react" /\ rq'.cands = cands /\ Changes({"pc", "cands"})
         \/ /\ ~(Reacts /\ rq.replayable)
            /\ rq'.pc = "finish" /\ Changes({"pc"})
  BY FieldsNow DEF React
<1> HIDE DEF cands
<1>3. CASE Reacts /\ rq.replayable
  <2>1. rq'.pc = "react" /\ rq'.cands = cands /\ Changes({"pc", "cands"}) /\ ~rq.tried /\ rq.sel.done
    BY <1>2, <1>3 DEF Reacts
  <2>2. RequestTypes(rq')
    BY <1>1, <1>2, <2>1 DEF RequestInv, RequestTypes
  <2>3. MainShielded(rq)' /\ Kept(rq')
    BY <1>2, <2>1 DEF RequestInv, MainShielded, Kept, Quiet, login
  <2>4. TriesOnce(rq')
    BY <1>1, <1>2, <2>1, NoAccts DEF RequestInv, TriesOnce
  <2>5. NoneRuledOut(rq)'
    BY <1>1, <1>2, <2>1 DEF RequestInv, NoneRuledOut, Quiet, Ordered
  <2>6. WillServe(rq')
    BY <1>1, <1>2, <2>1 DEF RequestInv, WillServe, Bricked
  <2>7. ReadingsKept'
    BY <1>2, <2>1, Begun DEF RequestInv, ReadingsKept, Readings1, Quiet, Ordered, quota
  <2> QED BY <2>1, <2>2, <2>3, <2>4, <2>5, <2>6, <2>7, Begun DEF RequestInv
<1>4. CASE ~(Reacts /\ rq.replayable)
  <2>1. rq'.pc = "finish" /\ Changes({"pc"})
    BY <1>2, <1>4
  <2>2. RequestTypes(rq')
    BY <1>2, <2>1 DEF RequestInv, RequestTypes
  <2>3. MainShielded(rq)' /\ Kept(rq')
    BY <1>2, <2>1 DEF RequestInv, MainShielded, Kept, Quiet, login
  <2>4. TriesOnce(rq')
    BY <1>2, <2>1, NoAccts DEF RequestInv, TriesOnce
  <2>5. NoneRuledOut(rq)'
    BY <1>2, <2>1 DEF RequestInv, NoneRuledOut, Quiet, Ordered
  <2>6. WillServe(rq')
    BY <1>2, <1>4, <2>1 DEF RequestInv, WillServe, Bricked, Reacts, shouldFallbackStatus
  <2>7. ReadingsKept'
    BY <1>2, <2>1, Begun DEF RequestInv, ReadingsKept, Readings1, Quiet, Ordered, quota
  <2> QED BY <2>1, <2>2, <2>3, <2>4, <2>5, <2>6, <2>7, Begun DEF RequestInv
<1> QED BY <1>3, <1>4

(* A send is recorded of an account, as what is known of it says.           *)
Sending(x, c) == [acct |-> x, cred |-> c, low |-> x \in rq.low, held |-> x \in held,
                  sticky |-> rq.sticky]

LEMMA SendingType ==
    ASSUME RequestTypes(rq), NEW x \in Rows, NEW c \in Logins
    PROVE  /\ Sending(x, c) \in SendRecords /\ Sending(x, c).acct = x
           /\ Sending(x, c).held = (x \in held) /\ Sending(x, c).low = (x \in rq.low)
           /\ Sending(x, c).sticky = rq.sticky
BY DEF RequestTypes, Sending, SendRecords

SendsTo(x, c) == rq'.sends = Append(rq.sends, Sending(x, c))

(* The fields of a request that has sent.                                   *)
LEMMA SentKeeps ==
    ASSUME RequestTypes(rq), TriesOnce(rq), NoneRuledOut(rq),
           NEW x \in Rows, NEW c \in Logins, x \notin Accts(rq.sends), x \notin held,
           x \in rq.low => rq.sticky \/ (~Ordered /\ x # "main"),
           SendsTo(x, c)
    PROVE  /\ rq'.sends \in Seq(SendRecords) /\ rq'.sends # <<>> /\ Distinct(rq'.sends)
           /\ Len(rq'.sends) = Len(rq.sends) + 1 /\ rq'.sends[Len(rq'.sends)].acct = x
           /\ Accts(rq'.sends) = Accts(rq.sends) \cup {x}
           /\ \A s \in Range(rq'.sends) :
                 ~s.held /\ (s.low => s.sticky \/ (~Ordered /\ s.acct # "main"))
<1> DEFINE e == Sending(x, c)
           sends == rq'.sends
<1>1. /\ e \in SendRecords /\ e.acct = x
      /\ ~e.held /\ (e.low => e.sticky \/ (~Ordered /\ e.acct # "main"))
  BY SendingType
<1>2. rq.sends \in Seq(SendRecords) /\ Distinct(rq.sends)
  BY DEF RequestTypes, TriesOnce
<1> HIDE DEF e
<1>3. sends = Append(rq.sends, e)
  BY DEF e, SendsTo
<1> HIDE DEF sends
<1>4. /\ sends \in Seq(SendRecords) /\ sends # <<>> /\ Distinct(sends)
      /\ Len(sends) = Len(rq.sends) + 1 /\ sends[Len(rq.sends) + 1] = e
      /\ Accts(sends) = Accts(rq.sends) \cup {x} /\ Range(sends) = Range(rq.sends) \cup {e}
  BY <1>1, <1>2, <1>3, AppendedAccts
<1>5. \A s \in Range(sends) : ~s.held /\ (s.low => s.sticky \/ (~Ordered /\ s.acct # "main"))
  BY <1>1, <1>4 DEF NoneRuledOut
<1> QED BY <1>1, <1>4, <1>5 DEF sends

LEMMA SendMainKeeps ==
    ASSUME RequestInv, Quiet, SendMain
    PROVE  RequestInv'
<1>1. /\ Changes({"pc", "sends"}) /\ rq.pc = "block" /\ rq'.pc = "main?"
      /\ SendsTo("main", rq.main)
  BY FieldsNow DEF SendMain, Judged, Sent, Sending, SendsTo
<1>2. ~rq.killed /\ ~rq.marked /\ rq.main \in Logins /\ "main" \in Rows
  BY DEF SendMain, Blocked, Unavailable, RequestInv, RequestTypes, Rows
<1>3. "main" \notin Accts(rq.sends) /\ "main" \notin held /\ "main" \notin rq.low
  BY <1>1, <1>2 DEF RequestInv, TriesOnce, NoneRuledOut
<1>4. /\ rq'.sends \in Seq(SendRecords) /\ rq'.sends # <<>> /\ Distinct(rq'.sends)
      /\ Accts(rq'.sends) = Accts(rq.sends) \cup {"main"}
      /\ \A s \in Range(rq'.sends) :
            ~s.held /\ (s.low => s.sticky \/ (~Ordered /\ s.acct # "main"))
  <2>1. /\ RequestTypes(rq) /\ TriesOnce(rq) /\ NoneRuledOut(rq)
        /\ "main" \in rq.low => rq.sticky \/ (~Ordered /\ "main" # "main")
    BY <1>3 DEF RequestInv
  <2>2. SendsTo("main", rq.main)
    BY <1>1
  <2> HIDE DEF Changes, RequestFields, Places, Waits, Unsent, BeforeChoice
  <2> QED BY <1>2, <1>3, <2>1, <2>2, SentKeeps
<1>5. RequestTypes(rq')
  BY <1>1, <1>4 DEF RequestInv, RequestTypes
<1>6. MainShielded(rq)' /\ Kept(rq') /\ WillServe(rq')
  BY <1>1, <1>4 DEF RequestInv, MainShielded, Kept, WillServe, Bricked, Quiet, login
<1>7. TriesOnce(rq')
  BY <1>1, <1>4, NoAccts DEF RequestInv, TriesOnce
<1>8. NoneRuledOut(rq)'
  BY <1>1, <1>4 DEF RequestInv, NoneRuledOut, Quiet, Ordered
<1>9. ReadingsKept'
  BY <1>1, Begun DEF RequestInv, ReadingsKept, Readings1, Quiet, Ordered, quota
<1> QED BY <1>1, <1>5, <1>6, <1>7, <1>8, <1>9, Begun DEF RequestInv

(* The candidates are tried one after the other.                            *)
LEMMA TryKeeps ==
    ASSUME RequestInv, Quiet, tryFallbackFirst \/ tryFallbackAccounts
    PROVE  RequestInv'
<1>1. /\ rq.pc \in {"tryFirst", "react"}
      /\ rq.cands = <<>> => /\ Changes({"pc"})
                            /\ rq'.pc = IF rq.pc = "react" THEN "finish" ELSE "block"
      /\ rq.cands # <<>> =>
            /\ Changes({"pc", "cands", "sends"})
            /\ rq'.pc = IF rq.pc = "react" THEN "react?" ELSE "first?"
            /\ rq'.cands = Tail(rq.cands)
            /\ SendsTo(Head(rq.cands).acct, Head(rq.cands).cred)
  BY FieldsNow DEF tryFallbackFirst, tryFallbackAccounts, Sent, Sending, SendsTo
<1>2. CASE rq.cands = <<>>
  <2>1. \/ rq.pc = "react" /\ rq'.pc = "finish" /\ Changes({"pc"})
        \/ rq.pc = "tryFirst" /\ rq'.pc = "block" /\ Changes({"pc"})
    BY <1>1, <1>2
  <2>2. RequestTypes(rq')
    BY <2>1, PlaceStays DEF RequestInv
  <2>3. MainShielded(rq)' /\ Kept(rq')
    BY <2>1 DEF RequestInv, MainShielded, Kept, Quiet, login
  <2>4. TriesOnce(rq')
    BY <2>1, NoAccts DEF RequestInv, TriesOnce
  <2>5. NoneRuledOut(rq)'
    BY <2>1 DEF RequestInv, NoneRuledOut, Quiet, Ordered
  <2>6. WillServe(rq')
    BY <1>2, <2>1 DEF RequestInv, WillServe, Bricked
  <2>7. ReadingsKept'
    BY <2>1, Begun DEF RequestInv, ReadingsKept, Readings1, Quiet, Ordered, quota
  <2> QED BY <2>1, <2>2, <2>3, <2>4, <2>5, <2>6, <2>7, Begun DEF RequestInv
<1>3. CASE rq.cands # <<>>
  <2> DEFINE h == Head(rq.cands)
             t == Tail(rq.cands)
  <2>1. /\ h \in Offers /\ h.acct \in Accts(rq.cands) /\ t \in Seq(Offers)
        /\ Accts(t) \subseteq Accts(rq.cands) /\ Distinct(t) /\ h.acct \notin Accts(t)
    <3>1. rq.cands \in Seq(Offers) /\ Distinct(rq.cands)
      BY DEF RequestInv, RequestTypes, TriesOnce
    <3> QED BY <1>3, <3>1, FirstAndRest
  <2> HIDE DEF h, t
  <2>2. /\ Changes({"pc", "cands", "sends"})
        /\ \/ rq.pc = "react" /\ rq'.pc = "react?"
           \/ rq.pc = "tryFirst" /\ rq'.pc = "first?"
        /\ rq'.cands = t /\ SendsTo(h.acct, h.cred)
    BY <1>1, <1>3 DEF h, t
  <2>3. /\ h.acct \in Rows /\ h.acct # "main" /\ h.cred \in Logins
        /\ h.acct \notin Accts(rq.sends) /\ h.acct \notin held
        /\ h.acct \in rq.low => ~Ordered
    BY <1>1, <2>1, OfferFields DEF RequestInv, TriesOnce, NoneRuledOut
  <2>4. /\ rq'.sends \in Seq(SendRecords) /\ rq'.sends # <<>> /\ Distinct(rq'.sends)
        /\ Accts(rq'.sends) = Accts(rq.sends) \cup {h.acct}
        /\ \A s \in Range(rq'.sends) :
              ~s.held /\ (s.low => s.sticky \/ (~Ordered /\ s.acct # "main"))
    <3>1. /\ RequestTypes(rq) /\ TriesOnce(rq) /\ NoneRuledOut(rq)
          /\ h.acct \in rq.low => rq.sticky \/ (~Ordered /\ h.acct # "main")
      BY <2>3 DEF RequestInv
    <3>2. SendsTo(h.acct, h.cred)
      BY <2>2
    <3> QED BY <2>3, <3>1, <3>2, SentKeeps
  <2>5. RequestTypes(rq')
    <3>1. /\ rq'.pc \in {"react?", "first?"} /\ rq'.cands \in Seq(Offers)
          /\ rq'.todo = rq.todo /\ rq'.usable = rq.usable
          /\ Changes({"pc", "status", "next", "read", "open", "last", "todo", "usable", "cands", "sends"})
      BY <2>1, <2>2
    <3>2. /\ rq.todo \in Seq(Rows) /\ IsInjective(rq.todo)
          /\ \A x \in Range(rq.todo) : rq.rows[x] # Absent
          /\ rq.usable \in Seq(Offers) /\ RequestTypes(rq)
      BY DEF RequestInv, RequestTypes
    <3> QED BY <2>4, <3>1, <3>2, TypesStay
  <2>6. MainShielded(rq)' /\ Kept(rq') /\ WillServe(rq')
    BY <2>2, <2>4 DEF RequestInv, MainShielded, Kept, WillServe, Bricked, Quiet, login
  <2>7. TriesOnce(rq')
    BY <2>1, <2>2, <2>3, <2>4 DEF RequestInv, TriesOnce
  <2>8. NoneRuledOut(rq)'
    <3>1. ~rq.sel.done => rq.cands = <<>>
      BY DEF RequestInv, NoneRuledOut
    <3> QED BY <1>3, <2>1, <2>2, <2>4, <3>1 DEF RequestInv, NoneRuledOut, Quiet, Ordered
  <2>9. ReadingsKept'
    BY <2>2, Begun DEF RequestInv, ReadingsKept, Readings1, Quiet, Ordered, quota
  <2> QED BY <2>2, <2>5, <2>6, <2>7, <2>8, <2>9, Begun DEF RequestInv
<1> QED BY <1>2, <1>3

LEMMA ThrowKeeps ==
    ASSUME RequestInv, Quiet, SendThrows
    PROVE  RequestInv'
<1>1. /\ rq.pc \in Waits /\ Changes({"pc"})
      /\ rq'.pc = "thrown" \/ (rq.pc = "react?" /\ rq'.pc = "finish")
  BY FieldsNow DEF SendThrows
<1>2. RequestTypes(rq')
  BY <1>1, PlaceStays DEF RequestInv
<1>3. MainShielded(rq)' /\ Kept(rq') /\ TriesOnce(rq')
  BY <1>1 DEF RequestInv, MainShielded, Kept, TriesOnce, Quiet, login
<1>4. NoneRuledOut(rq)'
  BY <1>1 DEF RequestInv, NoneRuledOut, Quiet, Ordered
<1>5. WillServe(rq')
  BY <1>1 DEF RequestInv, RequestTypes, WillServe, Bricked
<1>6. ReadingsKept'
  BY <1>1, Begun DEF RequestInv, ReadingsKept, Readings1, Quiet, Ordered, quota
<1> QED BY <1>1, <1>2, <1>3, <1>4, <1>5, <1>6, Begun DEF RequestInv

(* Readings that arrive leave the last one of each account in place.        *)
LEMMA ReadingsMove ==
    ASSUME RequestInv, AllMove, config' = config, Changes({"pc", "status", "read", "open", "last"}),
           rq.pc \notin BeforeChoice \cup {"select"}, rq'.pc \notin BeforeChoice \cup {"select"}
    PROVE  ReadingsKept'
<1>1. \A x \in Rows : Readings1(x) => Readings1(x)'
  BY DEF AllMove, Moves, Readings1
<1>2. Ordered /\ ~rq.sel.done => \A x \in Rows : Readings1(x)
  BY DEF RequestInv, ReadingsKept
<1>3. rq' # NotBegun /\ rq'.sel = rq.sel
  BY Begun
<1> QED BY <1>1, <1>2, <1>3 DEF ReadingsKept, Ordered

LEMMA AnswersKeep ==
    ASSUME RequestInv, config' = config, UNCHANGED login, held' \subseteq held, AllMove, Answers
    PROVE  RequestInv'
<1>1. n \in Nat /\ n # 0 /\ rq.pc \in Waits /\ rq.sends # <<>>
  BY DEF Answers, n, RequestInv, RequestTypes
<1>2. /\ Changes({"pc", "status", "read", "open", "last"})
      /\ \/ rq.pc = "first?" /\ rq'.pc = "tryFirst" /\ rq'.open = rq.open /\ rq'.last = rq.last
         \/ /\ \/ rq.pc = "first?" /\ rq'.pc = "finish"
               \/ rq.pc = "main?" /\ rq'.pc = "after"
               \/ rq.pc = "react?" /\ rq'.pc \in {"react", "finish"}
               \/ rq.pc = "sticky?" /\ rq'.pc \in {"migrate", "answered"}
               \/ rq.pc = "migrated?" /\ rq'.pc = "answered"
            /\ rq'.open = {n} /\ rq'.last = n
  <2>1. PICK status \in {"ok", "limited", "denied"}, level \in Levels \cup {"none"} :
           \/ FirstAnswers(status, level) \/ MainAnswers(status, level)
           \/ FallbackAnswers(status, level)
           \/ StickyAnswers(status, level) \/ ReplacementAnswers(status, level)
    BY DEF Answers
  <2>2. rq.open = IF rq.last = 0 THEN {} ELSE {rq.last}
    BY DEF RequestInv, Kept
  <2>3. CASE FirstAnswers(status, level)
    <3>1. rq.open = {}
      BY <2>3 DEF FirstAnswers, RequestInv, Kept
    <3>2. /\ rq.pc = "first?"
          /\ \/ rq' = [rq EXCEPT !.pc = "tryFirst"]
             \/ rq' = [rq EXCEPT !.pc = "finish", !.read = AsRead(level), !.open = @ \cup {n},
                                 !.last = n]
      BY <2>3 DEF FirstAnswers
    <3>3. CASE rq' = [rq EXCEPT !.pc = "tryFirst"]
      BY <3>2, <3>3, FieldsNow
    <3>4. CASE rq' = [rq EXCEPT !.pc = "finish", !.read = AsRead(level), !.open = @ \cup {n},
                                !.last = n]
      BY <3>1, <3>2, <3>4, FieldsNow
    <3> QED BY <3>2, <3>3, <3>4
  <2>4. CASE MainAnswers(status, level)
    <3>1. rq.open = {}
      BY <2>4 DEF MainAnswers, RequestInv, Kept
    <3> QED BY <2>4, <3>1, FieldsNow DEF MainAnswers
  <2>5. CASE FallbackAnswers(status, level)
    BY <2>2, <2>5, FieldsNow DEF FallbackAnswers, releasesPrevious
  <2>6. CASE StickyAnswers(status, level)
    <3>1. rq.open = {}
      BY <2>6 DEF StickyAnswers, RequestInv, Kept
    <3> QED BY <2>6, <3>1, FieldsNow DEF StickyAnswers
  <2>7. CASE ReplacementAnswers(status, level)
    BY <2>2, <2>7, FieldsNow DEF ReplacementAnswers, releasesPrevious
  <2> QED BY <2>1, <2>3, <2>4, <2>5, <2>6, <2>7
<1> HIDE DEF n
<1>3. RequestTypes(rq')
  <2>1. CASE rq'.pc = "migrate"
    <3>1. /\ DOMAIN rq' = RequestFields /\ rq.pc = "sticky?"
          /\ rq'.replayable = rq.replayable /\ rq'.inPool = rq.inPool /\ rq'.out = rq.out
          /\ rq'.killed = rq.killed /\ rq'.marked = rq.marked /\ rq'.tried = rq.tried
          /\ rq'.sticky = rq.sticky /\ rq'.rows = rq.rows /\ rq'.id = rq.id
          /\ rq'.main = rq.main /\ rq'.sel = rq.sel /\ rq'.roster = rq.roster
          /\ rq'.todo = rq.todo /\ rq'.usable = rq.usable /\ rq'.cands = rq.cands
          /\ rq'.sends = rq.sends
      BY <1>2, <2>1
    <3>2. "migrate" \in Places /\ "sticky?" \in Waits
      OBVIOUS
    <3> HIDE DEF Changes, Places, Waits
    <3>3. RequestTypes(rq)
      BY DEF RequestInv
    <3> QED BY <1>1, <2>1, <3>1, <3>2, <3>3 DEF RequestTypes
  <2>2. CASE rq'.pc # "migrate"
    <3>1. /\ rq'.pc \in Places \ ({"refresh", "sticky?", "migrate"} \cup Waits)
          /\ rq'.todo = rq.todo /\ rq'.usable = rq.usable /\ rq'.cands = rq.cands
          /\ rq'.sends = rq.sends
          /\ Changes({"pc", "status", "next", "read", "open", "last", "todo", "usable", "cands", "sends"})
      BY <1>2, <2>2
    <3>2. /\ rq.todo \in Seq(Rows) /\ IsInjective(rq.todo)
          /\ \A x \in Range(rq.todo) : rq.rows[x] # Absent
          /\ rq.usable \in Seq(Offers) /\ rq.cands \in Seq(Offers)
          /\ rq.sends \in Seq(SendRecords) /\ RequestTypes(rq)
      BY DEF RequestInv, RequestTypes
    <3> QED BY <3>1, <3>2, TypesStay
  <2> QED BY <2>1, <2>2
<1>4. MainShielded(rq)'
  BY <1>1, <1>2 DEF RequestInv, MainShielded, login
<1>5. Kept(rq')
  BY <1>1, <1>2 DEF RequestInv, Kept
<1>6. TriesOnce(rq')
  BY <1>1, <1>2 DEF RequestInv, TriesOnce
<1>7. NoneRuledOut(rq)'
  BY <1>1, <1>2 DEF RequestInv, NoneRuledOut, Ordered
<1>8. WillServe(rq')
  BY <1>1, <1>2 DEF WillServe, Bricked
<1>9. ReadingsKept'
  BY <1>2, ReadingsMove
<1> QED BY <1>2, <1>3, <1>4, <1>5, <1>6, <1>7, <1>8, <1>9, Begun DEF RequestInv

LEMMA FinishKeeps ==
    ASSUME RequestInv, config' = config, UNCHANGED login, held' \subseteq held, AllMove, Finish
    PROVE  RequestInv'
<1>1. rq.pc = "finish" /\ rq'.pc = "answered" /\ Changes({"pc"})
  BY FieldsNow DEF Finish
<1>2. RequestTypes(rq')
  BY <1>1, PlaceStays DEF RequestInv
<1>3. MainShielded(rq)' /\ Kept(rq') /\ TriesOnce(rq') /\ WillServe(rq')
  BY <1>1 DEF RequestInv, MainShielded, Kept, TriesOnce, WillServe, Bricked, login
<1>4. NoneRuledOut(rq)'
  BY <1>1 DEF RequestInv, NoneRuledOut, Ordered
<1>5. ReadingsKept'
  BY <1>1, ReadingsMove
<1> QED BY <1>1, <1>2, <1>3, <1>4, <1>5, Begun DEF RequestInv

(* The request gets its main account.                                       *)
LEMMA MainKeeps ==
    ASSUME RequestInv, config' = config, held' \subseteq held, UNCHANGED quota,
           Changes({"pc", "main", "id", "inPool"}), rq.pc \in {"auth", "refresh"},
           rq'.pc \in {"refresh", "decide"}, rq'.pc = "refresh" => rq'.main # Absent,
           rq'.main \in Logins \cup {Absent}, rq'.id \in Nat,
           \/ rq'.inPool = TRUE
           \/ rq'.inPool = rq.inPool /\ (rq.pc = "auth" => slot # Absent)
    PROVE  RequestInv'
<1>1. rq.todo = <<>> /\ rq.sends = <<>>
  BY DEF RequestInv, TriesOnce
<1>2. rq'.inPool \in BOOLEAN
  BY DEF RequestInv, RequestTypes
<1>3. RequestTypes(rq')
  <2>1. /\ DOMAIN rq' = RequestFields /\ rq'.todo = rq.todo
        /\ rq'.replayable = rq.replayable /\ rq'.out = rq.out
        /\ rq'.killed = rq.killed /\ rq'.marked = rq.marked /\ rq'.tried = rq.tried
        /\ rq'.sticky = rq.sticky /\ rq'.rows = rq.rows
        /\ rq'.sel = rq.sel /\ rq'.roster = rq.roster
        /\ rq'.usable = rq.usable /\ rq'.cands = rq.cands /\ rq'.sends = rq.sends
    OBVIOUS
  <2>2. /\ rq'.pc \in Places /\ rq'.pc \notin Waits \cup {"migrate"}
        /\ rq'.pc \notin {"sticky?", "migrate"}
    OBVIOUS
  <2>3. RequestTypes(rq) /\ rq.roster = {}
    BY DEF RequestInv, TriesOnce
  <2> HIDE DEF Changes, Places, Waits
  <2> QED BY <1>2, <2>1, <2>2, <2>3 DEF RequestTypes
<1>4. MainShielded(rq)'
  BY <1>1 DEF RequestInv, MainShielded, Range
<1>5. TriesOnce(rq') /\ Kept(rq') /\ WillServe(rq')
  BY <1>1 DEF RequestInv, TriesOnce, Kept, WillServe
<1>6. NoneRuledOut(rq)'
  BY <1>1 DEF RequestInv, NoneRuledOut, Ordered
<1>7. ReadingsKept'
  BY Begun DEF RequestInv, ReadingsKept, Readings1, Ordered, quota
<1> QED BY <1>3, <1>4, <1>5, <1>6, <1>7, Begun DEF RequestInv

LEMMA PooledMainKeeps ==
    ASSUME RequestInv, config' = config, held' \subseteq held, UNCHANGED quota, CredentialTypes,
           rq.pc \in {"auth", "refresh"}, NEW c \in Logins \cup {Absent}, resolvePooledMain(c)
    PROVE  RequestInv' /\ CredentialTypes'
<1>0. "main" \in Rows
  BY DEF Rows
<1>1. PICK d \in Logins \cup {Absent} : rq' = UsePooledMain(d) /\ CredentialTypes'
  <2>1. CASE rq' = UsePooledMain(c) /\ UNCHANGED login
    BY <2>1, CredentialsStay DEF login
  <2>2. CASE c # Absent /\ refreshAccountNow("main", c) /\ rq' = UsePooledMain(RowRefreshed("main", c))
    BY <1>0, <2>2, RowRefreshType
  <2>3. CASE rq' \in {UsePooledMain(Absent), UsePooledMain(c)} /\ UNCHANGED login
    BY <2>3, CredentialsStay DEF login
  <2> QED BY <2>1, <2>2, <2>3 DEF resolvePooledMain
<1>2. /\ Changes({"pc", "main", "id", "inPool"}) /\ rq'.pc = "decide" /\ rq'.inPool = TRUE
      /\ rq'.main = d /\ rq'.id = IF d = Absent THEN 0 ELSE d.who
  BY <1>1, FieldsNow DEF UsePooledMain
<1>3. rq'.id \in Nat
  BY <1>2 DEF Logins
<1> QED BY <1>1, <1>2, <1>3, MainKeeps

LEMMA AuthKeeps ==
    ASSUME RequestInv, config' = config, held' \subseteq held, held \subseteq mark,
           UNCHANGED <<quota, saved>>, CredentialTypes, ReadingTypes,
           GetAuth \/ GetAuthInPool \/ RefreshMain \/ MainMoved \/ RefreshFails
    PROVE  RequestInv' /\ CredentialTypes'
<1>0. "main" \in Rows /\ RequestTypes(rq)
  BY DEF Rows, RequestInv
<1>1. CASE GetAuth
  <2>1. /\ Changes({"pc", "main", "id", "inPool"}) /\ rq.pc = "auth" /\ rq'.pc \in {"refresh", "decide"}
        /\ rq'.main = slot /\ rq'.id = slot.who /\ rq'.inPool = rq.inPool /\ slot # Absent
    BY <1>1, FieldsNow DEF GetAuth
  <2>2. slot \in Logins /\ slot.who \in Nat
    BY <2>1 DEF CredentialTypes, Logins
  <2>3. CredentialTypes'
    BY <1>1, CredentialsStay DEF GetAuth, login
  <2> QED BY <2>1, <2>2, <2>3, MainKeeps
<1>2. CASE GetAuthInPool
  <2>1. rq.rows["main"] \in Logins \cup {Absent}
    BY <1>0 DEF RequestTypes
  <2> QED BY <1>2, <2>1, PooledMainKeeps DEF GetAuthInPool
<1>3. CASE RefreshMain
  <2>1. refreshMainWithLease(rq.main)
    BY <1>3 DEF RefreshMain
  <2>2. SlotRefreshed(rq.main) \in Logins /\ CredentialTypes'
    BY <2>1, SlotRefreshType
  <2>3. SlotRefreshed(rq.main) # Absent
    BY <2>2, NoLoginIsAbsent
  <2>4. /\ Changes({"pc", "main", "id", "inPool"}) /\ rq.pc = "refresh" /\ rq'.pc = "decide"
        /\ rq'.main = SlotRefreshed(rq.main) /\ rq'.id = rq.id /\ rq'.inPool = rq.inPool
    BY <1>3, FieldsNow DEF RefreshMain
  <2>5. rq'.id \in Nat
    BY <1>0, <2>4 DEF RequestTypes
  <2> QED BY <2>2, <2>3, <2>4, <2>5, MainKeeps
<1>4. CASE MainMoved
  <2>1. cred["main"] \in Logins \cup {Absent}
    BY <1>0 DEF CredentialTypes
  <2> QED BY <1>4, <2>1, PooledMainKeeps DEF MainMoved
<1>5. CASE RefreshFails
  <2>1. UNCHANGED login
    BY <1>5 DEF RefreshFails
  <2>2. Quiet
    BY <2>1 DEF Quiet
  <2>3. CredentialTypes'
    BY <2>1, CredentialsStay DEF login
  <2> QED BY <1>5, <2>2, <2>3, RefreshFailsKeeps
<1> QED BY <1>1, <1>2, <1>3, <1>4, <1>5

(* A request begins with nothing sent, and knows of no reading that is not  *)
(* the last.                                                                *)
LEMMA BeginKeeps ==
    ASSUME Begin, CredentialTypes, ReadingTypes, UNCHANGED <<login, quota, saved>>, config' = config,
           ReadingsKept
    PROVE  RequestInv'
<1>1. rq = NotBegun
  BY DEF Begin
<1>2. /\ DOMAIN rq' = RequestFields /\ rq'.pc = "auth"
      /\ rq'.replayable \in BOOLEAN /\ rq'.inPool = FALSE /\ rq'.out = FALSE
      /\ rq'.killed = FALSE /\ rq'.marked = FALSE /\ rq'.tried = FALSE /\ rq'.sticky = FALSE
      /\ rq'.rows = cred /\ rq'.mainAccountId = stored /\ rq'.id = 0 /\ rq'.main = Absent
      /\ rq'.todo = <<>> /\ rq'.usable = <<>> /\ rq'.cands = <<>> /\ rq'.sel = NoSelection
      /\ rq'.sends = <<>> /\ rq'.open = {} /\ rq'.last = 0 /\ rq'.low = {} /\ rq'.roster = {}
  BY DEF Begin
<1>3. /\ \A T : <<>> \in Seq(T)
      /\ Range(<<>>) = {} /\ IsInjective(<<>>)
  BY DEF Range, IsInjective
<1>4. SelectionTypes(NoSelection)
  BY <1>3 DEF SelectionTypes, NoSelection
<1>5. RequestTypes(rq')
  <2>1. /\ rq'.rows \in [Rows -> Logins \cup {Absent}]
        /\ rq'.main \in Logins \cup {Absent} /\ rq'.id \in Nat
    BY <1>2 DEF CredentialTypes
  <2>4. /\ DOMAIN rq' = RequestFields /\ rq'.roster = {}
        /\ {rq'.replayable, rq'.inPool, rq'.out, rq'.killed, rq'.marked, rq'.tried, rq'.sticky}
              \subseteq BOOLEAN
    BY <1>2
  <2>5. rq'.pc = "auth" /\ rq'.pc \in Places /\ rq'.pc \notin Waits \cup {"migrate"}
    BY <1>2
  <2>2. /\ rq'.todo \in Seq(Rows) /\ IsInjective(rq'.todo) /\ Range(rq'.todo) = {}
        /\ rq'.usable \in Seq(Offers) /\ rq'.cands \in Seq(Offers)
        /\ rq'.sends \in Seq(SendRecords)
    BY <1>2, <1>3
  <2>3. SelectionTypes(rq'.sel)
    BY <1>2, <1>4
  <2> HIDE DEF Changes, Places, Waits, RequestFields
  <2> QED BY <2>1, <2>2, <2>3, <2>4, <2>5 DEF RequestTypes
<1>6. MainShielded(rq)'
  BY <1>2, <1>3 DEF MainShielded, CredentialTypes, login
<1>7. Accts(<<>>) = {} /\ Distinct(<<>>)
  BY NoAccts
<1>8. TriesOnce(rq')
  BY <1>2, <1>3, <1>7 DEF TriesOnce, NoSelection
<1>9. NoneRuledOut(rq)'
  BY <1>2, <1>3, <1>7 DEF NoneRuledOut, NoSelection
<1>10. Kept(rq') /\ WillServe(rq')
  BY <1>2 DEF Kept, WillServe
<1>11. ReadingsKept'
  BY <1>1, <1>2, Begun DEF ReadingsKept, Readings1, quota
<1> QED BY <1>2, <1>5, <1>6, <1>8, <1>9, <1>10, <1>11, Begun DEF RequestInv

(* Main is judged by what is known when the routing is chosen.              *)
LEMMA DecideKeeps ==
    ASSUME RequestInv, Quiet, config \in Configs, Decide
    PROVE  RequestInv'
<1>1. /\ rq.pc = "decide"
      /\ DOMAIN rq' = RequestFields
      /\ Changes({"shared", "out", "killed", "marked", "low", "tried", "sticky", "pc", "next",
                  "todo"})
      /\ rq'.out \in BOOLEAN
      /\ rq'.killed = ~killswitchPassesPolicy(peekForPolicy("main", AsMain))
      /\ rq'.marked = ("main" \in mark)
      /\ rq'.low = IF BelowOwnFloor("main", AsMain) THEN {"main"} ELSE {}
      /\ rq'.todo = AllRows
  BY FieldsNow DEF Decide, Exhausted
<1>2. /\ rq'.tried = (config.mode = "fallback-first" /\ rq.replayable)
      /\ rq'.sticky = (config.mode = "sticky-balanced" /\ rq.replayable)
      /\ rq'.pc = IF rq.replayable /\ config.mode # "main-first" THEN "select" ELSE "block"
      /\ rq'.next = IF config.mode = "sticky-balanced" THEN "roster" ELSE "first"
  BY FieldsNow DEF Decide
<1>3. config.mode \in {"main-first", "fallback-first", "sticky-balanced"}
  BY ConfigsAssumption
<1>4. /\ rq'.pc = "select" => /\ rq'.next \in {"roster", "first"}
                              /\ rq'.next = "first" => rq'.tried /\ ~rq'.sticky
                              /\ rq'.next = "roster" => rq'.sticky
      /\ rq'.pc = "block" => ~rq'.tried /\ ~rq'.sticky
      /\ rq'.tried => rq'.pc = "select" /\ rq'.next = "first"
      /\ rq'.pc \in {"select", "block"} /\ (rq'.sticky => ~Ordered)
  BY <1>2, <1>3 DEF Ordered
<1>5. /\ AllRows \in Seq(Rows) /\ IsInjective(AllRows)
      /\ \A x \in Range(AllRows) : rq.rows[x] # Absent
      /\ rq.inPool => "main" \notin Range(AllRows)
  BY AllRowsType DEF RequestInv
<1> HIDE DEF AllRows
<1>6. "main" \in rq'.low => rq'.killed
  <2>1. SUFFICES ASSUME BelowOwnFloor("main", AsMain)
                 PROVE  ~killswitchPassesPolicy(peekForPolicy("main", AsMain))
    BY <1>1
  <2>2. cache["main"] = last["main"]
    BY <1>1, <2>1 DEF RequestInv, ReadingsKept, Readings1, BelowOwnFloor, Rows
  <2> QED BY <2>1, <2>2 DEF BelowOwnFloor, peekForPolicy, killswitchPassesPolicy
<1>7. RequestTypes(rq')
  <2>1. /\ rq'.replayable = rq.replayable /\ rq'.inPool = rq.inPool /\ rq'.rows = rq.rows
        /\ rq'.id = rq.id /\ rq'.main = rq.main /\ rq'.sel = rq.sel /\ rq'.roster = rq.roster
        /\ rq'.usable = rq.usable /\ rq'.cands = rq.cands /\ rq'.sends = rq.sends
    BY <1>1
  <2>2. /\ rq'.pc \in Places /\ rq'.pc \notin Waits \cup {"migrate"}
        /\ rq'.pc \notin {"refresh", "sticky?", "migrate"}
    BY <1>4
  <2>3. /\ {rq'.replayable, rq'.inPool, rq'.out, rq'.killed, rq'.marked, rq'.tried, rq'.sticky}
             \subseteq BOOLEAN
    <3>1. rq.replayable \in BOOLEAN /\ rq.inPool \in BOOLEAN
      BY DEF RequestInv, RequestTypes
    <3>2. rq'.killed \in BOOLEAN /\ rq'.marked \in BOOLEAN
      BY <1>1
    <3>3. rq'.tried \in BOOLEAN /\ rq'.sticky \in BOOLEAN
      BY <1>2
    <3> QED BY <1>1, <2>1, <3>1, <3>2, <3>3
  <2>4. RequestTypes(rq) /\ DOMAIN rq' = RequestFields /\ rq'.todo = AllRows
    BY <1>1 DEF RequestInv
  <2> HIDE DEF Changes, Places, Waits, RequestFields
  <2> QED BY <1>5, <2>1, <2>2, <2>3, <2>4 DEF RequestTypes
<1>8. MainShielded(rq)' /\ Kept(rq')
  BY <1>1, <1>4, <1>5 DEF RequestInv, MainShielded, Kept, Quiet, login
<1>9. TriesOnce(rq')
  BY <1>1, <1>4, NoAccts DEF RequestInv, TriesOnce
<1>10. NoneRuledOut(rq)'
  <2>1. rq'.cands = <<>> /\ rq'.sends = <<>> /\ rq'.sel = NoSelection
    BY <1>1 DEF RequestInv, TriesOnce, NoneRuledOut, RequestTypes, SelectionTypes
  <2>2. /\ Accts(rq'.cands) = {} /\ Accts(rq'.sel.current) = {} /\ Range(rq'.sends) = {}
        /\ Range(rq'.sel.retained) \subseteq Range(rq'.sel.current) /\ ~rq'.sel.done
    BY <2>1, NoAccts DEF NoSelection, Range
  <2>3. "main" \in held' => rq'.marked
    BY <1>1 DEF Quiet
  <2>4. rq'.low \subseteq {"main"}
    BY <1>1
  <2>5. config' = config
    BY DEF Quiet
  <2> HIDE DEF Changes, Places, Waits, RequestFields
  <2> QED BY <1>4, <1>6, <2>1, <2>2, <2>3, <2>4, <2>5 DEF NoneRuledOut, Ordered
<1>11. WillServe(rq')
  BY <1>1, <1>4 DEF RequestInv, WillServe, Bricked
<1>12. ReadingsKept'
  <2>1. \A x \in Rows : Readings1(x)
    BY <1>1 DEF RequestInv, ReadingsKept
  <2>2. Range(AllRows) \subseteq Rows /\ rq.usable = <<>> /\ Range(<<>>) = {}
    BY <1>1, <1>5, RangeIn DEF RequestInv, TriesOnce, Range
  <2> QED BY <1>1, <1>4, <2>1, <2>2, Begun DEF ReadingsKept, Readings1, Quiet, Ordered, quota
<1> QED BY <1>1, <1>7, <1>8, <1>9, <1>10, <1>11, <1>12, Begun DEF RequestInv

(* A row examined is a fallback's: row main of the store is shielded.       *)
LEMMA ExaminedIsFallback ==
    ASSUME RequestTypes(rq), MainShielded(rq), Selecting
    PROVE  /\ Row \in Rows /\ Row \in Range(rq.todo) /\ RowCred \in Logins
           /\ Tail(rq.todo) \in Seq(Rows) /\ Range(Tail(rq.todo)) \subseteq Range(rq.todo)
           /\ IsInjective(Tail(rq.todo)) /\ Row \notin Range(Tail(rq.todo))
           /\ ~Shielded => Row \in Fallbacks
<1> DEFINE h == Head(rq.todo)
           t == Tail(rq.todo)
<1>1. rq.todo \in Seq(Rows) /\ rq.todo # <<>> /\ IsInjective(rq.todo) /\ rq.pc = "select"
  BY DEF RequestTypes, Selecting
<1>2. /\ h \in Rows /\ h \in Range(rq.todo) /\ t \in Seq(Rows)
      /\ Range(t) \subseteq Range(rq.todo) /\ IsInjective(t) /\ h \notin Range(t)
  BY <1>1, HeadAndTail
<1> HIDE DEF h, t
<1>3. rq.rows[h] \in Logins /\ rq.rows[h] # Absent
  BY <1>2 DEF RequestTypes
<1>4. h = "main" => isShieldedMainRow(h, rq.rows[h], rq.mainAccountId)
  BY <1>1, <1>2, <1>3 DEF MainShielded, isShieldedMainRow
<1> QED BY <1>1, <1>2, <1>3, <1>4 DEF h, t, Row, RowCred, Shielded, Rows

(* A row passed over, or offered with the credential it was examined with.  *)
LEMMA RowKeeps ==
    ASSUME RequestInv, config' = config, held' \subseteq held, last' = last, Selecting,
           NEW c \in Logins,
           Changes({"todo", "usable", "rows"}), rq'.todo = Tail(rq.todo),
           \/ rq'.rows = rq.rows
           \/ Row \in Fallbacks /\ rq'.rows = [rq.rows EXCEPT ![Row] = c],
           \/ rq'.usable = rq.usable
           \/ Row \in Fallbacks /\ rq'.usable = Append(rq.usable, [acct |-> Row, cred |-> c]),
           \A y \in Rows : y # Row => cache'[y] = cache[y],
           Readings1(Row) /\ last[Row] # Absent /\ last[Row].tok = c.tok => cache'[Row] = last[Row]
    PROVE  RequestInv'
<1> DEFINE row == Row
           rest1 == Tail(rq.todo)
           offer == [acct |-> Row, cred |-> c]
<1>1. rq.pc = "select" /\ RequestTypes(rq) /\ TriesOnce(rq) /\ MainShielded(rq)
  BY DEF Selecting, RequestInv
<1>2. /\ row \in Rows /\ row \in Range(rq.todo) /\ rest1 \in Seq(Rows)
      /\ Range(rest1) \subseteq Range(rq.todo) /\ IsInjective(rest1) /\ row \notin Range(rest1)
  BY <1>1, ExaminedIsFallback
<1>3. /\ rq'.pc = "select" /\ rq'.todo = rest1 /\ DOMAIN rq' = RequestFields
      /\ rq'.replayable = rq.replayable /\ rq'.inPool = rq.inPool /\ rq'.out = rq.out
      /\ rq'.killed = rq.killed /\ rq'.marked = rq.marked /\ rq'.tried = rq.tried
      /\ rq'.sticky = rq.sticky /\ rq'.id = rq.id
      /\ rq'.main = rq.main /\ rq'.sel = rq.sel /\ rq'.roster = rq.roster
      /\ rq'.cands = rq.cands /\ rq'.sends = rq.sends
      /\ rq'.mainAccountId = rq.mainAccountId /\ rq'.next = rq.next
      /\ rq'.open = rq.open /\ rq'.last = rq.last /\ rq'.low = rq.low /\ rq'.status = rq.status
  BY <1>1
<1>4. row \in Fallbacks => offer \in Offers /\ offer.acct = row /\ offer.cred = c
  BY DEF Offers
<1>5. \/ rq'.rows = rq.rows
      \/ row \in Fallbacks /\ rq'.rows = [rq.rows EXCEPT ![row] = c]
  OBVIOUS
<1>6. \/ rq'.usable = rq.usable
      \/ row \in Fallbacks /\ rq'.usable = Append(rq.usable, offer)
  OBVIOUS
<1>7. Readings1(row) /\ last[row] # Absent /\ last[row].tok = c.tok => cache'[row] = last[row]
  OBVIOUS
<1>8. \A y \in Rows : y # row => cache'[y] = cache[y]
  OBVIOUS
<1> HIDE DEF row, rest1, offer, Changes, RequestFields, Places, Waits
<1>9. /\ rq'.rows \in [Rows -> Logins \cup {Absent}]
      /\ \A x \in Rows : x # row => rq'.rows[x] = rq.rows[x]
  <2>1. rq.rows \in [Rows -> Logins \cup {Absent}]
    BY <1>1 DEF RequestTypes
  <2>2. CASE rq'.rows = rq.rows
    BY <2>1, <2>2
  <2>3. CASE rq'.rows = [rq.rows EXCEPT ![row] = c]
    BY <2>1, <2>3
  <2> QED BY <1>5, <2>2, <2>3
<1>10. /\ rq'.usable \in Seq(Offers) /\ Distinct(rq'.usable)
       /\ Accts(rq'.usable) \cap Range(rest1) = {}
       /\ Range(rq'.usable) \subseteq Range(rq.usable) \cup {offer}
  <2>1. rq.usable \in Seq(Offers) /\ Distinct(rq.usable) /\ Accts(rq.usable) \cap Range(rq.todo) = {}
    BY <1>1 DEF RequestTypes, TriesOnce
  <2>2. row \notin Accts(rq.usable)
    BY <1>2, <2>1
  <2>3. CASE rq'.usable = rq.usable
    BY <1>2, <2>1, <2>3
  <2>4. CASE row \in Fallbacks /\ rq'.usable = Append(rq.usable, offer)
    <3>1. /\ rq'.usable \in Seq(Offers) /\ Distinct(rq'.usable)
          /\ Accts(rq'.usable) = Accts(rq.usable) \cup {row}
          /\ Range(rq'.usable) = Range(rq.usable) \cup {offer}
      BY <1>4, <2>1, <2>2, <2>4, AppendedAccts
    <3> QED BY <1>2, <2>1, <3>1
  <2> QED BY <1>6, <2>3, <2>4
<1>11. RequestTypes(rq')
  <2>1. "select" \in Places /\ "select" \notin Waits
    BY DEF Places, Waits
  <2>2. \A x \in Range(rest1) : rq'.rows[x] # Absent
    <3>1. \A x \in Range(rest1) : x \in Range(rq.todo) /\ x \in Rows /\ x # row
      BY <1>2, RangeIn
    <3> QED BY <1>1, <1>9, <3>1 DEF RequestTypes
  <2>3. \A x \in Range(rq'.todo) : rq'.rows[x] # Absent
    BY <1>3, <2>2
  <2>4. /\ rq'.rows \in [Rows -> Logins \cup {Absent}] /\ rq'.usable \in Seq(Offers)
        /\ rq'.todo \in Seq(Rows) /\ IsInjective(rq'.todo)
    BY <1>2, <1>3, <1>9, <1>10
  <2>5. rq'.pc \notin {"refresh", "sticky?", "migrate"}
    BY <1>3
  <2>6. rq'.pc \in Places /\ rq'.pc \notin Waits \cup {"migrate"}
    BY <1>3, <2>1
  <2> QED BY <1>1, <1>3, <2>3, <2>4, <2>5, <2>6 DEF RequestTypes
<1>12. MainShielded(rq)'
  <2>1. "main" \in Rows /\ (row = "main" => row \notin Fallbacks)
    BY FallbacksAssumption DEF Rows
  <2>2. rq'.rows["main"] = rq.rows["main"]
    BY <1>5, <1>9, <2>1
  <2> QED BY <1>1, <1>2, <1>3, <2>2 DEF MainShielded
<1>13. TriesOnce(rq')
  BY <1>1, <1>3, <1>10 DEF TriesOnce
<1>14. NoneRuledOut(rq)'
  BY <1>1, <1>3 DEF RequestInv, NoneRuledOut, Ordered
<1>15. Kept(rq') /\ WillServe(rq')
  BY <1>1, <1>3 DEF RequestInv, Kept, WillServe, Bricked
<1>16. ReadingsKept'
  <2>1. SUFFICES ASSUME Ordered
                 PROVE  /\ \A x \in Range(rest1) : Readings1(x)'
                        /\ \A u \in Range(rq'.usable) :
                              last[u.acct] # Absent /\ last[u.acct].tok = u.cred.tok =>
                                 Readings1(u.acct)'
    BY <1>3, Begun DEF ReadingsKept, Ordered
  <2>2. /\ \A x \in Range(rq.todo) : Readings1(x)
        /\ \A u \in Range(rq.usable) :
              last[u.acct] # Absent /\ last[u.acct].tok = u.cred.tok => Readings1(u.acct)
    BY <1>1, <2>1 DEF RequestInv, ReadingsKept
  <2>3. \A x \in Rows : x # row /\ Readings1(x) => Readings1(x)'
    BY <1>8 DEF Readings1
  <2>4. \A x \in Range(rest1) : x \in Range(rq.todo) /\ x \in Rows /\ x # row
    BY <1>2, RangeIn
  <2>5. \A u \in Range(rq.usable) : u.acct \in Rows /\ u.acct # row
    <3>1. rq.usable \in Seq(Offers) /\ row \notin Accts(rq.usable)
      BY <1>1, <1>2 DEF RequestTypes, TriesOnce
    <3>2. Range(rq.usable) \subseteq Offers
      BY <3>1, RangeIn
    <3> QED BY <3>1, <3>2, OfferFields DEF Accts
  <2>6. ASSUME NEW u \in Range(rq'.usable), last[u.acct] # Absent, last[u.acct].tok = u.cred.tok
        PROVE  Readings1(u.acct)'
    <3>1. CASE u \in Range(rq.usable)
      BY <2>2, <2>3, <2>5, <2>6, <3>1
    <3>2. CASE u = offer
      <4>1. u.acct = row /\ u.cred = c
        BY <3>2 DEF offer, row
      <4>2. cache'[row] = last[row]
        BY <1>2, <1>7, <2>2, <2>6, <4>1
      <4> QED BY <4>1, <4>2 DEF Readings1
    <3> QED BY <1>10, <3>1, <3>2
  <2> QED BY <2>2, <2>3, <2>4, <2>6
<1> QED BY <1>3, <1>11, <1>12, <1>13, <1>14, <1>15, <1>16, Begun DEF RequestInv

(* The reading an examined row is judged by is stored, unless a newer one   *)
(* of its token is.                                                         *)
LEMMA ExamineKeeps ==
    ASSUME RequestInv, config' = config, held' \subseteq held, ReadingTypes, saved' = saved,
           Selecting, ~Shielded, NEW c \in Logins, Examine(c)
    PROVE  RequestInv' /\ ReadingTypes'
<1>1. RequestTypes(rq) /\ MainShielded(rq)
  BY DEF RequestInv
<1>2. Row \in Rows /\ Row \in Fallbacks
  BY <1>1, ExaminedIsFallback
<1>3. seedFallbackQuota(Row, c) /\ last' = last /\ clock' = clock
  BY DEF Examine
<1>4. /\ ReadingTypes'
      /\ \A y \in Rows : y # Row => cache'[y] = cache[y]
      /\ Readings1(Row) /\ last[Row] # Absent /\ last[Row].tok = c.tok => cache'[Row] = last[Row]
  BY <1>2, <1>3, SeedReads
<1>5. rq' = [Usable(c) EXCEPT !.rows[Row] = c] \/ rq' = [Passed EXCEPT !.rows[Row] = c]
  BY DEF Examine
<1>6. /\ Changes({"todo", "usable", "rows"}) /\ rq'.todo = Tail(rq.todo)
      /\ rq'.rows = [rq.rows EXCEPT ![Row] = c]
      /\ \/ rq'.usable = rq.usable
         \/ rq'.usable = Append(rq.usable, [acct |-> Row, cred |-> c])
  BY <1>5, FieldsNow DEF Usable, Passed
<1> HIDE DEF Changes, RequestFields, Places, Waits, Unsent, BeforeChoice
<1> QED BY <1>2, <1>3, <1>4, <1>6, RowKeeps

LEMMA RowsKeep ==
    ASSUME RequestInv, config' = config, held' \subseteq held, CredentialTypes, ReadingTypes,
           saved' = saved, SkipRow \/ ExamineRow \/ RefreshRow \/ RowRefreshFails
    PROVE  RequestInv' /\ CredentialTypes' /\ ReadingTypes'
<1>1. Selecting /\ RequestTypes(rq) /\ MainShielded(rq)
  BY DEF SkipRow, ExamineRow, RefreshRow, RowRefreshFails, RequestInv
<1>2. Row \in Rows /\ RowCred \in Logins /\ (~Shielded => Row \in Fallbacks)
  BY <1>1, ExaminedIsFallback
<1>3. CASE SkipRow \/ RowRefreshFails
  <2>1. UNCHANGED <<login, quota>>
    BY <1>3 DEF SkipRow, RowRefreshFails
  <2>2. CredentialTypes' /\ ReadingTypes'
    BY <2>1, CredentialsStay DEF ReadingTypes, login, quota
  <2>3. rq' = Passed \/ (Row \in Fallbacks /\ rq' = Usable(RowCred))
    BY <1>2, <1>3 DEF SkipRow, RowRefreshFails
  <2>4. /\ Changes({"todo", "usable", "rows"}) /\ rq'.todo = Tail(rq.todo)
        /\ rq'.rows = rq.rows
        /\ \/ rq'.usable = rq.usable
           \/ Row \in Fallbacks /\ rq'.usable = Append(rq.usable, [acct |-> Row, cred |-> RowCred])
    BY <2>3, FieldsNow DEF Usable, Passed
  <2>5. last' = last /\ cache' = cache
    BY <2>1 DEF quota
  <2>6. /\ \A y \in Rows : y # Row => cache'[y] = cache[y]
        /\ Readings1(Row) /\ last[Row] # Absent /\ last[Row].tok = RowCred.tok =>
              cache'[Row] = last[Row]
    BY <2>5 DEF Readings1
  <2> HIDE DEF Changes, RequestFields, Places, Waits, Unsent, BeforeChoice
  <2> QED BY <1>1, <1>2, <2>2, <2>4, <2>5, <2>6, RowKeeps
<1>4. CASE ExamineRow
  <2>1. Examine(RowCred) /\ ~Shielded /\ UNCHANGED login
    BY <1>4 DEF ExamineRow
  <2> QED BY <1>1, <1>2, <2>1, ExamineKeeps, CredentialsStay DEF login
<1>5. CASE RefreshRow
  <2>1. refreshAccountNow(Row, RowCred) /\ Examine(RowRefreshed(Row, RowCred)) /\ ~Shielded
    BY <1>5 DEF RefreshRow
  <2>2. CredentialTypes' /\ RowRefreshed(Row, RowCred) \in Logins
    BY <1>2, <2>1, RowRefreshType
  <2> QED BY <1>1, <2>1, <2>2, ExamineKeeps
<1> QED BY <1>3, <1>4, <1>5

(* What is selected is neither marked nor, in the ordered modes, known to   *)
(* be below its floor.                                                      *)
LEMMA SelectionKeeps ==
    ASSUME RequestInv, Quiet, usableFallbackCandidates
    PROVE  RequestInv'
<1> DEFINE unmarked == Unmarked(rq.usable)
           unkilled == Spared(unmarked)
           kept == Retained(unkilled)
           below == {c.acct : c \in {d \in Range(rq.usable) : BelowOwnFloor(d.acct, d.cred)}}
<1>1. /\ rq.pc = "select" /\ rq.todo = <<>> /\ rq.next # "roster"
      /\ Changes({"pc", "sel", "usable", "low"}) /\ rq'.pc = rq.next
      /\ rq'.sel = [done |-> TRUE, current |-> unkilled, retained |-> kept]
      /\ rq'.usable = <<>> /\ rq'.low = rq.low \cup below
  BY FieldsNow DEF usableFallbackCandidates, RowsExamined, WithFloors
<1>2. /\ RequestTypes(rq) /\ TriesOnce(rq) /\ NoneRuledOut(rq) /\ Kept(rq) /\ WillServe(rq)
      /\ MainShielded(rq)
  BY DEF RequestInv
<1>3. rq.usable \in Seq(Offers) /\ Distinct(rq.usable)
  BY <1>2 DEF RequestTypes, TriesOnce
<1>4. /\ unmarked \in Seq(Offers) /\ Distinct(unmarked) /\ Range(unmarked) \subseteq Range(rq.usable)
      /\ \A d \in Range(unmarked) : d.acct \notin mark
  <2> DEFINE S == {c \in Range(rq.usable) : c.acct \notin mark}
  <2>1. unmarked = Only(rq.usable, S)
    BY DEF Unmarked
  <2>2. S \subseteq Range(rq.usable) /\ \A d \in S : d.acct \notin mark
    OBVIOUS
  <2> HIDE DEF S, unmarked
  <2> QED BY <1>3, <2>1, <2>2, OnlyAccts
<1>5. /\ unkilled \in Seq(Offers) /\ Distinct(unkilled) /\ Range(unkilled) \subseteq Range(unmarked)
      /\ \A d \in Range(unkilled) : killswitchPassesPolicy(peekForPolicy(d.acct, d.cred))
  <2> DEFINE S == {c \in Range(unmarked) : killswitchPassesPolicy(peekForPolicy(c.acct, c.cred))}
  <2> HIDE DEF unmarked
  <2>1. unkilled = Only(unmarked, S)
    BY DEF Spared
  <2>2. S \subseteq Range(unmarked)
        /\ \A d \in S : killswitchPassesPolicy(peekForPolicy(d.acct, d.cred))
    OBVIOUS
  <2> HIDE DEF S, unkilled
  <2> QED BY <1>4, <2>1, <2>2, OnlyAccts
<1>6. kept \in Seq(Offers) /\ Distinct(kept) /\ Range(kept) \subseteq Range(unkilled)
  <2> HIDE DEF unkilled
  <2>1. PICK S : kept = Only(unkilled, S)
    BY DEF Retained
  <2> HIDE DEF kept
  <2> QED BY <1>5, <2>1, OnlyAccts
<1> HIDE DEF unmarked, unkilled, kept, below
<1>7. Range(unkilled) \subseteq Range(rq.usable) /\ Range(rq.usable) \subseteq Offers
  BY <1>3, <1>4, <1>5, RangeIn
<1>8. Accts(unkilled) \cap held' = {}
  <2>1. \A d \in Range(unkilled) : d.acct \notin held'
    BY <1>4, <1>5 DEF Quiet
  <2> QED BY <2>1 DEF Accts
<1>9. "main" \notin below
  <2>1. \A d \in Range(rq.usable) : d.acct # "main"
    BY <1>7, OfferFields
  <2> QED BY <2>1 DEF below
<1>10. ASSUME Ordered PROVE Accts(unkilled) \cap (rq.low \cup below) = {}
  <2>1. ASSUME NEW d \in Range(unkilled), d.acct \in below PROVE FALSE
    <3>1. PICK u \in Range(rq.usable) : BelowOwnFloor(u.acct, u.cred) /\ u.acct = d.acct
      BY <2>1 DEF below
    <3>2. u = d
      BY <1>3, <1>7, <2>1, <3>1 DEF Distinct
    <3>3. d.acct # "main" /\ d.acct \in Rows
      BY <1>7, OfferFields
    <3>4. /\ config.killswitch /\ last[d.acct] # Absent /\ last[d.acct].who = d.cred.who
          /\ last[d.acct].level # "ok" /\ last[d.acct].tok = d.cred.tok
      BY <3>1, <3>2, <3>3 DEF BelowOwnFloor
    <3>5. Readings1(d.acct)
      BY <1>1, <1>7, <1>10, <3>4 DEF RequestInv, ReadingsKept
    <3>6. cache[d.acct] = last[d.acct]
      BY <3>4, <3>5 DEF Readings1
    <3> QED BY <1>5, <3>4, <3>6 DEF peekForPolicy, killswitchPassesPolicy
  <2>2. rq.low \subseteq {"main"}
    BY <1>1, <1>2 DEF NoneRuledOut
  <2>3. "main" \notin Accts(unkilled)
    BY <1>7, OfferFields DEF Accts
  <2> QED BY <2>1, <2>2, <2>3 DEF Accts
<1>11. /\ rq'.pc \in {"first", "block", "after"} /\ rq'.usable \in Seq(Offers)
       /\ SelectionTypes(rq'.sel) /\ rq'.sel.done /\ rq'.sel.current = unkilled
       /\ rq'.sel.retained = kept
  <2>1. rq.next \in {"first", "block", "after"}
    BY <1>1, <1>2 DEF TriesOnce
  <2> QED BY <1>1, <1>5, <1>6, <2>1 DEF SelectionTypes
<1>12. /\ DOMAIN rq' = RequestFields
       /\ rq'.replayable = rq.replayable /\ rq'.inPool = rq.inPool /\ rq'.out = rq.out
       /\ rq'.killed = rq.killed /\ rq'.marked = rq.marked /\ rq'.tried = rq.tried
       /\ rq'.sticky = rq.sticky /\ rq'.id = rq.id /\ rq'.rows = rq.rows /\ rq'.todo = rq.todo
       /\ rq'.main = rq.main /\ rq'.roster = rq.roster
       /\ rq'.cands = rq.cands /\ rq'.sends = rq.sends
       /\ rq'.mainAccountId = rq.mainAccountId /\ rq'.next = rq.next
       /\ rq'.open = rq.open /\ rq'.last = rq.last /\ rq'.status = rq.status
  BY <1>1
<1>13. rq'.pc \in Places /\ rq'.pc \notin Waits \cup {"migrate"} /\ rq'.pc \notin BeforeChoice
  BY <1>11
<1>14. RequestTypes(rq')
  <2> HIDE DEF Changes, RequestFields, Places, Waits, Unsent, BeforeChoice
  <2>1. rq'.pc \notin {"refresh", "sticky?", "migrate"}
    BY <1>11
  <2> QED BY <1>2, <1>11, <1>12, <1>13, <2>1 DEF RequestTypes
<1>15. MainShielded(rq)' /\ Kept(rq')
  BY <1>1, <1>2, <1>11, <1>12 DEF MainShielded, Kept, Quiet, login
<1>16. TriesOnce(rq')
  BY <1>1, <1>2, <1>5, <1>6, <1>11, <1>12, NoAccts DEF TriesOnce
<1>17. NoneRuledOut(rq)'
  <2>1. config' = config /\ held' \subseteq held
    BY DEF Quiet
  <2>2. rq'.cands = <<>> /\ ~rq'.sticky
    BY <1>1, <1>2, <1>12 DEF NoneRuledOut
  <2>3. "main" \in held' => rq'.marked
    BY <1>1, <1>2, <1>12, <2>1 DEF NoneRuledOut
  <2>4. "main" \in rq'.low => rq'.killed
    BY <1>1, <1>2, <1>9, <1>12 DEF NoneRuledOut
  <2>5. Accts(rq'.cands) = {}
    BY <2>2, NoAccts
  <2>6. \A s \in Range(rq'.sends) : ~s.held /\ (s.low => s.sticky \/ (~Ordered /\ s.acct # "main"))
    BY <1>2, <1>12 DEF NoneRuledOut
  <2>7. Ordered => Accts(rq'.sel.current) \cap rq'.low = {}
    BY <1>1, <1>10, <1>11
  <2> QED BY <1>6, <1>8, <1>11, <2>1, <2>2, <2>3, <2>4, <2>5, <2>6, <2>7 DEF NoneRuledOut, Ordered
<1>18. WillServe(rq')
  <2>1. rq.pc = "select" /\ rq'.pc = rq.next /\ (rq.tried => rq.next = "first")
    BY <1>1, <1>2 DEF TriesOnce, NoneRuledOut
  <2> HIDE DEF Changes, RequestFields, Places, Waits, Unsent, BeforeChoice
  <2> QED BY <1>2, <1>11, <1>12, <2>1 DEF WillServe, Bricked
<1>19. ReadingsKept'
  <2>1. rq' # NotBegun /\ rq'.sel.done /\ rq'.pc # "select"
    BY <1>11, <1>12, Begun
  <2> QED BY <1>13, <2>1 DEF ReadingsKept
<1> QED BY <1>12, <1>14, <1>15, <1>16, <1>17, <1>18, <1>19, Begun DEF RequestInv

(* sticky-balanced: whoever the request can be sent with                    *)
LEMMA RosterServes ==
    ASSUME RequestTypes(rq)
    PROVE  \A c \in buildStickyRouteRoster :
              c.acct \in Rows /\ c.cred \in Logins /\ (c.acct = "main" => rq.main # Absent)
<1>1. \A u \in Range(rq.usable) : u.acct \in Rows /\ u.acct # "main" /\ u.cred \in Logins
  <2>1. Range(rq.usable) \subseteq Offers
    BY RangeIn DEF RequestTypes
  <2> QED BY <2>1, OfferFields
<1>2. ~Unavailable => AsMain \in Logins /\ rq.main # Absent
  BY DEF RequestTypes, Unavailable, AsMain, Logins
<1>3. \A x, c : Candidate(x, c).acct = x /\ Candidate(x, c).cred = c
  BY DEF Candidate
<1>4. "main" \in Rows
  BY DEF Rows
<1> HIDE DEF Candidate, AsMain, Unavailable
<1> QED BY <1>1, <1>2, <1>3, <1>4 DEF buildStickyRouteRoster

LEMMA ResolvedIsEligible ==
    ASSUME NEW among, NEW pinned, NEW excluded,
           NEW c \in resolveStickyRouteCandidate(among, pinned, excluded)
    PROVE  c \in among /\ c.acct \notin mark /\ c.acct \notin excluded
BY DEF resolveStickyRouteCandidate, eligible, selectStickyCandidate

LEMMA StickyIsSent ==
    ASSUME RequestInv, Quiet, NEW r, NEW c, NEW role,
           \/ /\ rq.pc = "select" /\ rq.next = "roster" /\ rq.todo = <<>> /\ role = "sticky?"
              /\ r = [rq EXCEPT !.roster = buildStickyRouteRoster, !.usable = <<>>]
           \/ rq.pc = "migrate" /\ role = "migrated?" /\ r = rq,
           c \in r.roster, c.acct \notin mark,
           rq.pc = "migrate" => c.acct # rq.sends[Len(rq.sends)].acct,
           StickySent(r, c, role)
    PROVE  RequestInv'
<1> DEFINE x == c.acct
           login1 == IF c.acct = "main" THEN rq.main ELSE c.cred
<1>1. /\ RequestTypes(rq) /\ TriesOnce(rq) /\ NoneRuledOut(rq) /\ Kept(rq) /\ WillServe(rq)
      /\ MainShielded(rq)
  BY DEF RequestInv
<1>2. DOMAIN rq = RequestFields
  BY <1>1 DEF RequestTypes
<1>3. /\ Changes({"roster", "usable", "pc", "sends"}) /\ rq'.pc = role
      /\ SendsTo(x, login1)
      /\ rq'.roster = r.roster
      /\ rq'.usable = rq.usable \/ rq'.usable = <<>>
      /\ rq.pc = "migrate" => rq'.roster = rq.roster
      /\ rq.pc = "select" => rq'.roster = buildStickyRouteRoster
  <2>1. CASE r = rq /\ rq.pc = "migrate"
    BY <1>2, <2>1 DEF StickySent, Sent, SendsTo, Sending
  <2>2. CASE r = [rq EXCEPT !.roster = buildStickyRouteRoster, !.usable = <<>>] /\ rq.pc = "select"
    BY <1>2, <2>2 DEF StickySent, Sent, SendsTo, Sending
  <2> QED BY <2>1, <2>2
<1>4. \A d \in rq'.roster :
         d.acct \in Rows /\ d.cred \in Logins /\ (d.acct = "main" => rq.main # Absent)
  <2>1. CASE rq'.roster = rq.roster
    BY <1>1, <2>1 DEF RequestTypes
  <2>2. CASE rq'.roster = buildStickyRouteRoster
    BY <1>1, <2>2, RosterServes
  <2> QED BY <1>3, <2>1, <2>2
<1>5. x \in Rows /\ login1 \in Logins /\ x \notin held
  BY <1>1, <1>3, <1>4 DEF RequestTypes, Quiet
<1>6. x \notin Accts(rq.sends) /\ rq.sticky
  <2>1. CASE rq.pc = "select"
    BY <1>1, <2>1, NoAccts DEF TriesOnce, NoneRuledOut
  <2>2. CASE rq.pc = "migrate"
    <3>1. Len(rq.sends) = 1 /\ rq.sends \in Seq(SendRecords)
      BY <1>1, <2>2 DEF TriesOnce, RequestTypes
    <3>2. \A s \in Range(rq.sends) : s = rq.sends[Len(rq.sends)]
      BY <3>1 DEF Range
    <3> QED BY <1>1, <2>2, <3>2 DEF Accts, NoneRuledOut
  <2> QED BY <2>1, <2>2
<1> HIDE DEF x, login1, Changes, RequestFields, Places, Waits, Unsent, BeforeChoice
<1>7. /\ rq'.sends \in Seq(SendRecords) /\ rq'.sends # <<>> /\ Distinct(rq'.sends)
      /\ Len(rq'.sends) = Len(rq.sends) + 1 /\ rq'.sends[Len(rq'.sends)].acct = x
      /\ \A s \in Range(rq'.sends) :
            ~s.held /\ (s.low => s.sticky \/ (~Ordered /\ s.acct # "main"))
  <2>1. SendsTo(x, login1)
    BY <1>3
  <2> QED BY <1>1, <1>5, <1>6, <2>1, SentKeeps
<1>8. /\ DOMAIN rq' = RequestFields
      /\ rq'.replayable = rq.replayable /\ rq'.inPool = rq.inPool /\ rq'.out = rq.out
      /\ rq'.killed = rq.killed /\ rq'.marked = rq.marked /\ rq'.tried = rq.tried
      /\ rq'.sticky = rq.sticky /\ rq'.id = rq.id /\ rq'.rows = rq.rows /\ rq'.todo = rq.todo
      /\ rq'.main = rq.main /\ rq'.sel = rq.sel /\ rq'.low = rq.low
      /\ rq'.cands = rq.cands /\ rq'.next = rq.next
      /\ rq'.mainAccountId = rq.mainAccountId
      /\ rq'.open = rq.open /\ rq'.last = rq.last /\ rq'.status = rq.status
  BY <1>3 DEF Changes, RequestFields
<1>9. /\ rq'.pc \in Places /\ rq'.pc \in {"sticky?", "migrated?"}
      /\ rq'.pc = "sticky?" => rq.pc = "select"
  BY <1>3 DEF Places, Waits
<1>10. rq'.usable \in Seq(Offers) /\ Distinct(rq'.usable) /\ Accts(rq'.usable) \cap Range(rq'.todo) = {}
  <2>1. CASE rq'.usable = rq.usable
    BY <1>1, <1>8, <2>1 DEF RequestTypes, TriesOnce
  <2>2. CASE rq'.usable = <<>>
    BY <2>2, NoAccts
  <2> QED BY <1>3, <2>1, <2>2
<1>11. RequestTypes(rq')
  <2>1. \E d \in rq'.roster : d.acct = rq'.sends[Len(rq'.sends)].acct
    BY <1>3, <1>7 DEF x
  <2>2. \A d \in rq'.roster : d.acct \in Rows /\ d.cred \in Logins
                              /\ (d.acct = "main" => rq'.main # Absent)
    BY <1>4, <1>8
  <2> QED BY <1>1, <1>7, <1>8, <1>9, <1>10, <2>1, <2>2 DEF RequestTypes
<1>12. MainShielded(rq)'
  BY <1>1, <1>8, <1>9 DEF MainShielded
<1>13. TriesOnce(rq')
  <2>1. rq'.pc = "sticky?" => Len(rq'.sends) = 1
    <3>1. rq'.pc = "sticky?" => Len(rq.sends) = 0
      BY <1>1, <1>3, <1>9 DEF TriesOnce
    <3> QED BY <1>7, <3>1
  <2>2. rq'.pc \notin Unsent /\ rq'.pc \notin BeforeChoice
    BY <1>9 DEF Unsent, BeforeChoice
  <2>3. rq'.tried => rq'.sel.done
    BY <1>1, <1>3, <1>8 DEF TriesOnce
  <2> QED BY <1>1, <1>7, <1>8, <1>9, <1>10, <2>1, <2>2, <2>3 DEF TriesOnce
<1>14. NoneRuledOut(rq)'
  <2>1. config' = config /\ held' \subseteq held
    BY DEF Quiet
  <2>2. rq.pc \notin BeforeChoice \cup {"thrown"} /\ rq'.pc \notin BeforeChoice
    BY <1>9 DEF BeforeChoice
  <2> QED BY <1>1, <1>6, <1>7, <1>8, <1>9, <2>1, <2>2 DEF NoneRuledOut, Ordered
<1>15. Kept(rq')
  <2>1. rq.pc = "select" => rq.last = 0
    BY <1>1 DEF Kept
  <2> QED BY <1>1, <1>8, <1>9, <2>1 DEF Kept, Unsent, BeforeChoice
<1>16. WillServe(rq')
  BY <1>7 DEF WillServe, Bricked
<1>17. ReadingsKept'
  BY <1>1, <1>6, <1>8, <1>9, Begun DEF ReadingsKept, NoneRuledOut, Ordered, BeforeChoice, Quiet
<1> QED BY <1>8, <1>11, <1>12, <1>13, <1>14, <1>15, <1>16, <1>17, Begun DEF RequestInv

(* Nobody in the roster serves: the request goes on as if it were ordered.  *)
LEMMA NobodySticks ==
    ASSUME RequestInv, Quiet, rq.pc = "select", rq.next = "roster", rq.todo = <<>>,
           rq' = [rq EXCEPT !.roster = buildStickyRouteRoster, !.usable = <<>>,
                            !.pc = "block", !.sticky = FALSE]
    PROVE  RequestInv'
<1>1. /\ RequestTypes(rq) /\ TriesOnce(rq) /\ NoneRuledOut(rq) /\ Kept(rq) /\ WillServe(rq)
      /\ MainShielded(rq)
  BY DEF RequestInv
<1>2. /\ DOMAIN rq' = RequestFields
      /\ rq'.replayable = rq.replayable /\ rq'.inPool = rq.inPool /\ rq'.out = rq.out
      /\ rq'.killed = rq.killed /\ rq'.marked = rq.marked /\ rq'.tried = rq.tried
      /\ rq'.id = rq.id /\ rq'.rows = rq.rows /\ rq'.todo = rq.todo
      /\ rq'.main = rq.main /\ rq'.sel = rq.sel /\ rq'.low = rq.low
      /\ rq'.cands = rq.cands /\ rq'.next = rq.next /\ rq'.sends = rq.sends
      /\ rq'.mainAccountId = rq.mainAccountId
      /\ rq'.open = rq.open /\ rq'.last = rq.last /\ rq'.status = rq.status
      /\ rq'.pc = "block" /\ rq'.sticky = FALSE
      /\ rq'.usable = <<>> /\ rq'.roster = buildStickyRouteRoster
  BY FieldsNow
<1>3. rq'.pc \in Places /\ rq'.pc \notin Waits \cup {"migrate"} /\ rq'.pc \notin BeforeChoice
  BY <1>2
<1>4. \A d \in rq'.roster :
         d.acct \in Rows /\ d.cred \in Logins /\ (d.acct = "main" => rq'.main # Absent)
  BY <1>1, <1>2, RosterServes
<1>5. ~rq.sel.done /\ rq.sends = <<>> /\ rq.sticky
  BY <1>1 DEF NoneRuledOut, TriesOnce
<1>6. ~rq.tried
  BY <1>1, <1>5 DEF TriesOnce
<1> HIDE DEF Changes, RequestFields, Places, Waits, Unsent, BeforeChoice
<1>7. RequestTypes(rq')
  <2>1. rq'.usable \in Seq(Offers) /\ rq'.sends \in Seq(SendRecords)
    BY <1>1, <1>2 DEF RequestTypes
  <2>2. rq'.pc \notin {"refresh", "sticky?", "migrate"}
    BY <1>2
  <2>3. rq'.sticky \in BOOLEAN
    BY <1>2
  <2>4. /\ {rq'.replayable, rq'.inPool, rq'.out, rq'.killed, rq'.marked, rq'.tried, rq'.sticky}
             \subseteq BOOLEAN
        /\ rq'.rows \in [Rows -> Logins \cup {Absent}] /\ rq'.id \in Nat
        /\ rq'.main \in Logins \cup {Absent}
        /\ rq'.todo \in Seq(Rows) /\ IsInjective(rq'.todo)
        /\ \A x \in Range(rq'.todo) : rq'.rows[x] # Absent
        /\ rq'.cands \in Seq(Offers) /\ SelectionTypes(rq'.sel)
    <3>1. /\ {rq.replayable, rq.inPool, rq.out, rq.killed, rq.marked, rq.tried, rq.sticky}
               \subseteq BOOLEAN
          /\ rq.rows \in [Rows -> Logins \cup {Absent}] /\ rq.id \in Nat
          /\ rq.main \in Logins \cup {Absent}
          /\ rq.todo \in Seq(Rows) /\ IsInjective(rq.todo)
          /\ \A x \in Range(rq.todo) : rq.rows[x] # Absent
          /\ rq.cands \in Seq(Offers) /\ SelectionTypes(rq.sel)
      BY <1>1 DEF RequestTypes
    <3>2. /\ {rq'.replayable, rq'.inPool, rq'.out, rq'.killed, rq'.marked, rq'.tried, rq'.sticky}
               \subseteq BOOLEAN
      <4>1. /\ rq.replayable \in BOOLEAN /\ rq.inPool \in BOOLEAN /\ rq.out \in BOOLEAN
            /\ rq.killed \in BOOLEAN /\ rq.marked \in BOOLEAN /\ rq.tried \in BOOLEAN
        BY <3>1
      <4> QED BY <1>2, <4>1
    <3>3. /\ rq'.rows \in [Rows -> Logins \cup {Absent}] /\ rq'.id \in Nat
          /\ rq'.main \in Logins \cup {Absent}
      BY <1>2, <3>1
    <3>4. /\ rq'.todo \in Seq(Rows) /\ IsInjective(rq'.todo)
          /\ \A x \in Range(rq'.todo) : rq'.rows[x] # Absent
      BY <1>2, <3>1
    <3>5. rq'.cands \in Seq(Offers) /\ SelectionTypes(rq'.sel)
      BY <1>2, <3>1
    <3> QED BY <3>2, <3>3, <3>4, <3>5
  <2> QED BY <1>2, <1>3, <1>4, <2>1, <2>2, <2>4 DEF RequestTypes
<1>8. MainShielded(rq)' /\ Kept(rq')
  BY <1>1, <1>2, <1>3 DEF MainShielded, Kept, Quiet, login
<1>9. TriesOnce(rq')
  BY <1>1, <1>2, <1>3, <1>5, <1>6, NoAccts DEF TriesOnce
<1>10. NoneRuledOut(rq)'
  <2>1. config' = config /\ held' \subseteq held
    BY DEF Quiet
  <2>2. rq.pc \notin BeforeChoice \cup {"thrown"}
    BY DEF BeforeChoice
  <2>3. \A s \in Range(rq'.sends) : ~s.held /\ (s.low => s.sticky \/ (~Ordered /\ s.acct # "main"))
    BY <1>1, <1>2 DEF NoneRuledOut
  <2> QED BY <1>1, <1>2, <1>3, <2>1, <2>2, <2>3 DEF NoneRuledOut, Ordered
<1>11. WillServe(rq')
  BY <1>2, <1>6 DEF WillServe
<1>12. ReadingsKept'
  BY <1>1, <1>2, <1>3, <1>5, Begun DEF ReadingsKept, NoneRuledOut, Ordered, Quiet
<1> QED BY <1>2, <1>7, <1>8, <1>9, <1>10, <1>11, <1>12, Begun DEF RequestInv

LEMMA StickyKeeps ==
    ASSUME RequestInv, Quiet, StickySend \/ StickyMigrate
    PROVE  RequestInv'
<1>1. CASE StickySend
  <2> DEFINE all == buildStickyRouteRoster
             first1 == resolveStickyRouteCandidate(all, pin, {})
             r == [rq EXCEPT !.roster = all, !.usable = <<>>]
  <2>1. /\ rq.pc = "select" /\ rq.todo = <<>> /\ rq.next = "roster"
        /\ \/ rq' = [r EXCEPT !.pc = "block", !.sticky = FALSE]
           \/ \E c \in first1 : \E d \in Moved(all, c) : StickySent(r, d, "sticky?")
    BY <1>1 DEF StickySend, RowsExamined
  <2>2. CASE rq' = [r EXCEPT !.pc = "block", !.sticky = FALSE]
    <3>1. rq' = [rq EXCEPT !.roster = all, !.usable = <<>>, !.pc = "block", !.sticky = FALSE]
      BY <2>1, <2>2
    <3> QED BY <2>1, <3>1, NobodySticks
  <2>3. CASE \E c \in first1 : \E d \in Moved(all, c) : StickySent(r, d, "sticky?")
    <3>1. PICK c \in first1 : \E d \in Moved(all, c) : StickySent(r, d, "sticky?")
      BY <2>3
    <3>6. PICK d \in Moved(all, c) : StickySent(r, d, "sticky?")
      BY <3>1
    <3>2. c \in all /\ c.acct \notin mark
      <4> HIDE DEF all
      <4> QED BY ResolvedIsEligible
    <3>3. d \in all /\ d.acct \notin mark
      <4> DEFINE there == resolveStickyRouteCandidate(all, PinOf(c), {c.acct})
      <4>1. d = c \/ d \in there
        BY <3>6 DEF Moved
      <4> HIDE DEF all
      <4> QED BY <3>2, <4>1, ResolvedIsEligible
    <3>4. r.roster = all
      BY FieldsNow
    <3> HIDE DEF all, Changes, RequestFields, Places, Waits, Unsent, BeforeChoice
    <3>5. r = [rq EXCEPT !.roster = buildStickyRouteRoster, !.usable = <<>>]
      BY DEF all
    <3> HIDE DEF r
    <3> QED BY <2>1, <3>6, <3>3, <3>4, <3>5, StickyIsSent
  <2> QED BY <2>1, <2>2, <2>3
<1>2. CASE StickyMigrate
  <2> DEFINE asked1 == CHOOSE c \in rq.roster : c.acct = Asked.acct
             there == resolveStickyRouteCandidate(rq.roster, PinOf(asked1), {asked1.acct})
  <2>1. /\ rq.pc = "migrate"
        /\ \/ \E c \in there : StickySent(rq, c, "migrated?")
           \/ rq' = [rq EXCEPT !.pc = "answered"]
    BY <1>2 DEF StickyMigrate
  <2>2. Asked.acct = rq.sends[Len(rq.sends)].acct
    BY DEF Asked, n
  <2>3. asked1.acct = rq.sends[Len(rq.sends)].acct
    BY <2>1, <2>2 DEF RequestInv, RequestTypes
  <2> HIDE DEF asked1
  <2>4. ASSUME NEW c \in there, StickySent(rq, c, "migrated?")
        PROVE  RequestInv'
    <3>1. c \in rq.roster /\ c.acct \notin mark /\ c.acct # asked1.acct
      BY ResolvedIsEligible
    <3> QED BY <2>1, <2>3, <2>4, <3>1, StickyIsSent
  <2>5. CASE rq' = [rq EXCEPT !.pc = "answered"]
    <3>1. Changes({"pc"}) /\ rq'.pc = "answered" /\ rq.sends # <<>>
      BY <2>1, <2>5, FieldsNow DEF RequestInv, RequestTypes
    <3>2. RequestTypes(rq')
      BY <3>1, PlaceStays DEF RequestInv
    <3>3. MainShielded(rq)' /\ Kept(rq') /\ TriesOnce(rq') /\ WillServe(rq')
      BY <2>1, <3>1 DEF RequestInv, MainShielded, Kept, TriesOnce, WillServe, Bricked, Quiet, login
    <3>4. NoneRuledOut(rq)'
      BY <2>1, <3>1 DEF RequestInv, NoneRuledOut, Quiet, Ordered
    <3>5. ReadingsKept'
      BY <2>1, <3>1, Begun DEF RequestInv, ReadingsKept, Readings1, Quiet, Ordered, quota
    <3> QED BY <3>1, <3>2, <3>3, <3>4, <3>5, Begun DEF RequestInv
  <2> QED BY <2>1, <2>4, <2>5
<1> QED BY <1>1, <1>2

HIDE DEF Changes, RequestFields, Places, Waits, Unsent, BeforeChoice

-----------------------------------------------------------------------------
(* The invariant                                                            *)

LEMMA InvInits == LegacyInit => LegacyInv
<1> SUFFICES ASSUME LegacyInit PROVE LegacyInv
  OBVIOUS
<1>1. CredentialTypes /\ ReadingTypes /\ \A x \in Rows : cache[x] = last[x]
  BY CredentialsInit, ReadingsInit
<1>2. rq = NotBegun /\ config \in Configs /\ held = {}
  BY DEF LegacyInit
<1> QED BY <1>1, <1>2 DEF LegacyInv, LegacyTypesHold, ReadingsKept, Readings1

LEMMA AnswersMove ==
    ASSUME ReadingTypes, saved' = saved, Answers \/ Finish
    PROVE  AllMove
<1>1. \/ UNCHANGED quota
      \/ \E x, c, level : pushQuota(x, c, level)
  BY DEF Answers, FirstAnswers, MainAnswers, FallbackAnswers, StickyAnswers, ReplacementAnswers,
         pushed, Finish, quota
<1>2. CASE UNCHANGED quota
  BY <1>2, ReadingsStay
<1>3. ASSUME NEW x, NEW c, NEW level, pushQuota(x, c, level) PROVE AllMove
  BY <1>3, PushRecords
<1> QED BY <1>1, <1>2, <1>3

LEMMA InvOfRequest ==
    ASSUME LegacyInv, rq # NotBegun
    PROVE  RequestInv
BY DEF LegacyInv, LegacyTypesHold, RequestInv

LEMMA RequestGoesOn ==
    ASSUME LegacyInv, Held, config' = config, RequestInv', CredentialTypes', ReadingTypes'
    PROVE  LegacyInv'
<1>1. held' \subseteq mark'
  BY HeldShrinks DEF LegacyInv
<1>2. config' \in Configs
  BY DEF LegacyInv, LegacyTypesHold
<1> QED BY <1>1, <1>2 DEF LegacyInv, LegacyTypesHold, RequestInv

LEMMA HasBegun == rq.pc # "idle" => rq # NotBegun
BY DEF NotBegun

LEMMA StepKeeps == LegacyInv /\ [LegacyNext]_legacyVars => LegacyInv'
<1> SUFFICES ASSUME LegacyInv, [LegacyNext]_legacyVars PROVE LegacyInv'
  OBVIOUS
<1>1. CredentialTypes /\ ReadingTypes /\ held \subseteq mark /\ ReadingsKept /\ config \in Configs
  BY DEF LegacyInv, LegacyTypesHold
<1>2. CASE UNCHANGED legacyVars
  <2>1. /\ config' = config /\ slot' = slot /\ cred' = cred /\ stored' = stored /\ cache' = cache
        /\ last' = last /\ saved' = saved /\ clock' = clock /\ mark' = mark /\ held' = held
        /\ rq' = rq
    BY <1>2 DEF legacyVars
  <2>2. Beside /\ SameRequest
    BY <1>1, <2>1, CredentialsStay DEF Beside, SameRequest, AllMove, Moves, ReadingTypes
  <2>3. CredentialTypes' /\ ReadingTypes' /\ (rq # NotBegun => RequestTypes(rq') /\ MainShielded(rq)')
    BY <2>1, <2>2 DEF Beside, AllMove, LegacyInv, LegacyTypesHold, MainShielded
  <2>4. rq # NotBegun =>
           TriesOnce(rq') /\ NoneRuledOut(rq)' /\ Kept(rq') /\ WillServe(rq')
    BY <2>1 DEF LegacyInv, NoneRuledOut, Ordered
  <2>5. ReadingsKept'
    BY <1>1, <2>1 DEF ReadingsKept, Readings1, Ordered
  <2> QED BY <1>1, <2>1, <2>3, <2>4, <2>5 DEF LegacyInv, LegacyTypesHold
<1>3. CASE Auth /\ UNCHANGED <<quota, current, beside, events>> /\ Held
  <2>1. config' = config /\ UNCHANGED <<quota, saved>> /\ Held
    BY <1>3 DEF beside
  <2>2. ReadingTypes'
    BY <1>1, <2>1 DEF ReadingTypes, quota
  <2>3. CASE Begin /\ UNCHANGED login
    <3>1. RequestInv'
      BY <1>1, <2>1, <2>3, BeginKeeps
    <3>2. CredentialTypes'
      BY <1>1, <2>3, CredentialsStay DEF login
    <3> QED BY <2>1, <2>2, <3>1, <3>2, RequestGoesOn
  <2>4. CASE GetAuth \/ GetAuthInPool \/ RefreshMain \/ MainMoved \/ RefreshFails
    <3>1. rq # NotBegun
      BY <2>4, HasBegun DEF GetAuth, GetAuthInPool, RefreshMain, MainMoved, RefreshFails
    <3>2. RequestInv /\ held' \subseteq held
      BY <1>1, <2>1, <3>1, InvOfRequest, HeldShrinks
    <3>3. RequestInv' /\ CredentialTypes'
      BY <1>1, <2>1, <2>4, <3>2, AuthKeeps
    <3> QED BY <2>1, <2>2, <3>3, RequestGoesOn
  <2> QED BY <1>3, <2>3, <2>4 DEF Auth
<1>4. ASSUME rq # NotBegun, UNCHANGED <<login, quota, beside>>, Held,
             \/ Decide \/ usableFallbackCandidates \/ StickySend \/ StickyMigrate
             \/ StartFirst \/ tryFallbackFirst \/ SelectForBlock \/ BlockMain \/ SendMain
             \/ SelectForReactive \/ React \/ tryFallbackAccounts \/ SendThrows
      PROVE  LegacyInv'
  <2>1. RequestInv /\ held' \subseteq held
    BY <1>1, <1>4, InvOfRequest, HeldShrinks
  <2>2. config' = config /\ saved' = saved
    BY <1>4 DEF beside
  <2>3. Quiet
    BY <1>1, <1>4, <2>1, <2>2 DEF Quiet
  <2>4. RequestInv'
    <3>1. CASE Decide
      BY <1>1, <2>1, <2>3, <3>1, DecideKeeps
    <3>2. CASE usableFallbackCandidates
      BY <2>1, <2>3, <3>2, SelectionKeeps
    <3>3. CASE StickySend \/ StickyMigrate
      BY <2>1, <2>3, <3>3, StickyKeeps
    <3>4. CASE StartFirst
      BY <2>1, <2>3, <3>4, StartFirstKeeps
    <3>5. CASE tryFallbackFirst \/ tryFallbackAccounts
      BY <2>1, <2>3, <3>5, TryKeeps
    <3>6. CASE SelectForBlock \/ SelectForReactive
      BY <2>1, <2>3, <3>6, SelectKeeps
    <3>7. CASE BlockMain
      BY <2>1, <2>3, <3>7, BlockMainKeeps
    <3>8. CASE SendMain
      BY <2>1, <2>3, <3>8, SendMainKeeps
    <3>9. CASE React
      BY <2>1, <2>3, <3>9, ReactKeeps
    <3>10. CASE SendThrows
      BY <2>1, <2>3, <3>10, ThrowKeeps
    <3> QED BY <1>4, <3>1, <3>2, <3>3, <3>4, <3>5, <3>6, <3>7, <3>8, <3>9, <3>10
  <2>5. CredentialTypes' /\ ReadingTypes'
    BY <1>1, <1>4, <2>2, CredentialsStay DEF ReadingTypes, login, quota
  <2> QED BY <1>4, <2>2, <2>4, <2>5, RequestGoesOn
<1>5. CASE Decide /\ UNCHANGED <<beside, events>> /\ Held
  <2>1. rq # NotBegun /\ UNCHANGED <<login, quota>>
    BY <1>5, HasBegun DEF Decide
  <2> QED BY <1>4, <1>5, <2>1
<1>6. CASE Choose /\ UNCHANGED <<current, beside, events>> /\ Held
  <2>1. rq # NotBegun
    BY <1>6, HasBegun DEF Choose, SkipRow, ExamineRow, RefreshRow, RowRefreshFails, Selecting,
                          usableFallbackCandidates, StickySend, RowsExamined
  <2>2. CASE SkipRow \/ ExamineRow \/ RefreshRow \/ RowRefreshFails
    <3>1. RequestInv /\ held' \subseteq held /\ config' = config /\ saved' = saved
      BY <1>1, <1>6, <2>1, InvOfRequest, HeldShrinks DEF beside
    <3>2. RequestInv' /\ CredentialTypes' /\ ReadingTypes'
      BY <1>1, <2>2, <3>1, RowsKeep
    <3> QED BY <1>6, <3>1, <3>2, RequestGoesOn
  <2>3. CASE usableFallbackCandidates \/ StickySend
    <3>1. UNCHANGED <<login, quota>>
      BY <2>3 DEF usableFallbackCandidates, StickySend
    <3> QED BY <1>4, <1>6, <2>1, <2>3, <3>1
  <2> QED BY <1>6, <2>2, <2>3 DEF Choose
<1>7. CASE Send /\ UNCHANGED <<current, beside, events>> /\ Held
  <2>1. rq # NotBegun
    <3>1. rq.pc # "idle"
      BY <1>7 DEF Send, StartFirst, tryFallbackFirst, SelectForBlock, BlockMain, SendMain, Judged,
                  SelectForReactive, React, tryFallbackAccounts, StickyMigrate, Answers,
                  SendThrows, Finish, Waits
    <3> QED BY <3>1, HasBegun
  <2>2. CASE Answers \/ Finish
    <3>1. RequestInv /\ held' \subseteq held /\ config' = config /\ saved' = saved
      BY <1>1, <1>7, <2>1, InvOfRequest, HeldShrinks DEF beside
    <3>2. AllMove /\ ReadingTypes'
      BY <1>1, <2>2, <3>1, AnswersMove DEF AllMove
    <3>3. UNCHANGED login
      BY <2>2 DEF Answers, Finish
    <3>4. RequestInv'
      BY <2>2, <3>1, <3>2, <3>3, AnswersKeep, FinishKeeps
    <3>5. CredentialTypes'
      BY <1>1, <3>3, CredentialsStay DEF login
    <3> QED BY <1>7, <3>1, <3>2, <3>4, <3>5, RequestGoesOn
  <2>3. CASE \/ StickyMigrate \/ StartFirst \/ tryFallbackFirst \/ SelectForBlock \/ BlockMain
             \/ SendMain \/ SelectForReactive \/ React \/ tryFallbackAccounts \/ SendThrows
    <3>1. UNCHANGED <<login, quota>>
      BY <2>3 DEF StickyMigrate, StartFirst, tryFallbackFirst, SelectForBlock, BlockMain,
                  SendMain, SelectForReactive, React, tryFallbackAccounts, SendThrows
    <3> QED BY <1>4, <1>7, <2>1, <2>3, <3>1
  <2> QED BY <1>7, <2>2, <2>3 DEF Send
<1>8. CASE (Around \/ PollStep) /\ Held
  BY <1>1, <1>8, AroundIsBeside, PollIsBeside, BesideKeeps
<1>9. CASE Done
  BY <1>2, <1>9 DEF Done
<1> QED BY <1>2, <1>3, <1>5, <1>6, <1>7, <1>8, <1>9 DEF LegacyNext

LEMMA LegacyInvariant == LegacySpec => []LegacyInv
BY InvInits, StepKeeps, PTL DEF LegacySpec

(* What a request holds: credentials of the accounts they are sent for,     *)
(* main's row of main's login or shielded, and only fallbacks offered as    *)
(* fallbacks (loadRequestAccounts, getUsableFallbackAccounts).              *)
THEOREM LegacyTypeCorrect == LegacySpec => []LegacyTypesHold
<1>1. LegacyInv => LegacyTypesHold
  BY DEF LegacyInv
<1> QED BY <1>1, LegacyInvariant, PTL

(* A request is sent to an account once, whatever the readings, the marks   *)
(* and the credentials do around it: withoutPoolMainRow and the exclusion   *)
(* of accounts tried leave no way back to one.                              *)
THEOREM OneTryPerAccountCorrect == LegacySpec => []OneTryPerAccount
<1>1. LegacyInv => OneTryPerAccount
  <2> SUFFICES ASSUME LegacyInv, rq # NotBegun, NEW i \in DOMAIN rq.sends,
                      NEW j \in DOMAIN rq.sends, i # j
               PROVE  rq.sends[i].acct # rq.sends[j].acct
    BY DEF OneTryPerAccount
  <2>1. Distinct(rq.sends)
    BY DEF LegacyInv, TriesOnce
  <2> QED BY <2>1 DEF Distinct, IsInjective, Range
<1> QED BY <1>1, LegacyInvariant, PTL

(* Nobody is asked that was marked before the request, nor, with the        *)
(* killswitch on, whose last reading (a fallback's: under the token it is   *)
(* asked with) was below the floor when judged, but for what                *)
(* sticky-balanced sends to a session's account or to fallbacks: readings   *)
(* are stored before the floor is judged, and none older displaces one      *)
(* (killswitchPassesPolicy, isRateLimited, seedFallbackQuota).              *)
THEOREM AsksNoneRuledOutCorrect == LegacySpec => []AsksNoneRuledOut
<1>1. LegacyInv => AsksNoneRuledOut
  BY DEF LegacyInv, NoneRuledOut, Ordered, AsksNoneRuledOut, FloorKept, MarkedIsNotTried, Sends
<1> QED BY <1>1, LegacyInvariant, PTL

(* The answer handed back is whole, and no other is left open: each is      *)
(* released once there is a newer one (tryFallbackFirst,                    *)
(* tryFallbackAccounts, the sticky replacement).                            *)
THEOREM AnswerIsWholeCorrect == LegacySpec => []AnswerIsWhole
<1>1. LegacyInv => AnswerIsWhole
  BY HasBegun DEF LegacyInv, Kept, AnswerIsWhole
<1> QED BY <1>1, LegacyInvariant, PTL

(* A request no provider was asked for was refused by the killswitch, a     *)
(* mark, or for want of a credential, never by an advisory reading          *)
(* (applyAdmissionQuotaSafety, quotaBlocksMain).                            *)
THEOREM NeverBrickedCorrect == LegacySpec => []NeverBricked
<1>1. LegacyInv => NeverBricked
  BY HasBegun DEF LegacyInv, WillServe, Bricked, NeverBricked, Unavailable
<1> QED BY <1>1, LegacyInvariant, PTL
-----------------------------------------------------------------------------
(***************************************************************************)
(* VaultMode                                                               *)
(***************************************************************************)
USE BoundsAssumption DEF vars, files, modeCache, roster, rest

(* The actions, by what they are about.                                     *)
Discovery == StartDiscovery \/ custodyActive \/ ListRead \/ Discovered \/ DiscoveryFails
Refreshing == RefreshFrom \/ RefreshAuthority \/ RefreshDiscover \/ RefreshFailed \/ ListChanges
LocalRequest ==
    \/ Fetch \/ FetchAuthority \/ getAuth \/ SlotAuthority \/ forRequest \/ servePooled
    \/ ResolveBearer \/ sendWithAccessToken
VaultRequest ==
    \/ awaitRequestRoster \/ Route \/ send
    \/ chooseAccount \/ ChooseAuthority \/ authorize \/ accountHeaders \/ Headers
Polling ==
    \/ pollQuota \/ pollStale \/ PollRow \/ PollInsula \/ PollProvider \/ recordSnapshot
    \/ PollEnds
LoggingIn ==
    \/ Login \/ BeginLogin \/ Complete \/ CompleteLogin \/ HostSlot \/ PoolRead
    \/ setMainAuth \/ writeLoginToPool
Menu == connectVaultAction \/ Chosen \/ disconnect \/ Disconnected \/ waitForApproval

(* Splits a step by what it is about.                                       *)
LEMMA StepCases ==
    ASSUME [Next]_vars
    PROVE  \/ Discovery \/ Refreshing \/ LocalRequest \/ VaultRequest \/ Polling \/ LoggingIn
           \/ Menu \/ Others \/ UNCHANGED vars
  BY Zenon DEF Next, Discovery, Refreshing, LocalRequest, VaultRequest, Polling, LoggingIn, Menu

(* A step that changes nothing leaves each variable as it is.               *)
LEMMA Unchanged ==
    ASSUME UNCHANGED vars
    PROVE  /\ token' = token /\ state' = state /\ writes' = writes
           /\ authority' = authority /\ known' = known /\ asked' = asked /\ work' = work
           /\ disc' = disc /\ refresh' = refresh /\ listed' = listed /\ snapshot' = snapshot
           /\ used' = used /\ seen' = seen
  BY Zenon

-----------------------------------------------------------------------------
(* The invariant *)

(* Where work stands.                                                       *)
Stands ==
    {"idle", "fetch", "slot", "slotRead", "limits", "limitsRead", "prepare", "send", "roster",
     "serve", "choose", "row", "receipt", "rowHeaders", "receiptHeaders", "background",
     "insula", "reading", "filed", "begin", "dialogue", "completed", "store", "locked", "read",
     "disconnect", "connect", "forget", "forgotten", "propose"}

(* Types of the variables the proofs need.                                  *)
Modes == {"vault", "local", "unreadable"}

TypeOK ==
    /\ token \in BOOLEAN /\ state \in {"none", "pending", "denied", "approved"}
    /\ known \in BOOLEAN
    /\ asked \in [Actors -> [mode : Modes \cup {None}, fresh : BOOLEAN]]
    /\ seen \in [Actors -> SUBSET {"local", "held"}]
    /\ disc \in [at : {"idle", "custody", "asking", "listed"}, list : Nat]
    /\ refresh \in [at : {"idle", "authority", "earlier", "discover", "own", "failed"}, since : Nat]
    /\ listed \in Nat /\ snapshot \in Int
    /\ \/ work \in [kind : {None, "v1", "v2", "login", "menu"}, at : Stands]
       \/ work \in [kind : {"poll"}, at : Stands, row : Int, of : Int]

(* A cached mode is the mode of the files, and so is one read since they    *)
(* were last written.                                                       *)
CacheIsOfFiles ==
    /\ known => authority = mode
    /\ \A a \in Actors : asked[a].fresh /\ asked[a].mode # None => asked[a].mode = mode

(* The history of an actor covers the present.                              *)
SeenCoversNow == \A a \in Actors : seen[a] # {} => Seen(mode) \in seen[a]

(* A credential was resolved, a login completed, a refresh called: their    *)
(* history has begun, and a login that may be stored saw the host local.    *)
HistoryBegun ==
    /\ At("v1", "send") => seen["work"] # {}
    /\ work.kind = "login" /\ work.at \in {"completed", "store", "locked", "read"} =>
            seen["work"] # {}
    /\ At("login", "store") => "local" \in seen["work"]
    /\ refresh.at # "idle" => seen["refresh"] # {}

(* Lists only grow: what was read earlier is no newer.                      *)
ListsGrow ==
    /\ snapshot <= listed /\ refresh.since <= listed
    /\ disc.at = "listed" => snapshot <= disc.list /\ disc.list <= listed
    /\ refresh.at \in {"discover", "own"} /\ disc.at = "listed" => refresh.since <= disc.list

(* A poll's reading is of the account whose row it read, or of one that     *)
(* took its place since.                                                    *)
ReadingIsNoOlder ==
    /\ At("poll", "insula") => work.row <= snapshot
    /\ At("poll", "reading") =>
            work.row = work.of \/ (work.row < work.of /\ work.of <= snapshot)

-----------------------------------------------------------------------------
(* What a step does to the mode and its readings *)

Statuses == {"none", "pending", "denied", "approved"}
FilesKept == token' = token /\ state' = state

ModeEffect ==
    \/ \E t \in BOOLEAN, s \in Statuses : Write(t, s)
    \/ /\ FilesKept
       /\ \/ \E a \in Actors : Read(a)
          \/ \E a \in Actors : asked' = Ask(a) /\ UNCHANGED modeCache
          \/ asked' = Answered("work") /\ UNCHANGED modeCache
          \/ UNCHANGED <<asked, modeCache>>

SeenEffect ==
    \/ \E t \in BOOLEAN, s \in Statuses : Write(t, s)
    \/ FilesKept /\ (seen' = seen \/ \E a \in Actors : Since(a))

(* Every step writes the files, or keeps them and at most reads the mode or *)
(* begins to, and begins a history or leaves all of them alone.             *)
LEMMA Effects == ASSUME TypeOK, [Next]_vars PROVE ModeEffect /\ SeenEffect
<1> USE DEF ModeEffect, SeenEffect, FilesKept, Actors, Statuses
<1>0. Ceremony \/ Forget => \E t \in BOOLEAN, s \in Statuses : Write(t, s)
  BY DEF Ceremony, Forget, TypeOK
<1>1. CASE Discovery
  BY <1>1 DEF Discovery, StartDiscovery, custodyActive, ListRead, Discovered, DiscoveryFails
<1>2. CASE Refreshing
  BY <1>2 DEF Refreshing, RefreshFrom, CallRefresh, RefreshAuthority, RefreshDiscover,
     RefreshFailed, ListChanges
<1>3. CASE LocalRequest
  BY <1>3 DEF LocalRequest, Fetch, FetchAuthority, getAuth, AskTo, SlotAuthority, forRequest,
     servePooled, ResolveBearer, sendWithAccessToken
<1>4. CASE VaultRequest
  BY <1>4 DEF VaultRequest, awaitRequestRoster, Route, AskTo, send, chooseAccount,
     ChooseAuthority, authorize, accountHeaders, Headers
<1>5. CASE Polling
  BY <1>5 DEF Polling, pollQuota, pollStale, PollRow, PollInsula, AskTo, PollProvider,
     recordSnapshot, PollEnds
<1>6. CASE LoggingIn
  BY <1>6 DEF LoggingIn, Login, BeginLogin, Complete, CompleteLogin, HostSlot, PoolRead,
     setMainAuth, writeLoginToPool, assertLocalPoolLogin, AskTo
<1>7. CASE Menu
  BY <1>0, <1>7 DEF Menu, connectVaultAction, Chosen, disconnect, Disconnected, waitForApproval,
     AskTo, CallRefresh
<1>8. CASE Others
  BY <1>0, <1>8 DEF Others
<1>9. CASE UNCHANGED vars
  BY <1>9, Unchanged
<1> QED BY StepCases, <1>1, <1>2, <1>3, <1>4, <1>5, <1>6, <1>7, <1>8, <1>9

ModeTypes ==
    /\ token \in BOOLEAN /\ state \in Statuses
    /\ known \in BOOLEAN
    /\ asked \in [Actors -> [mode : Modes \cup {None}, fresh : BOOLEAN]]
    /\ seen \in [Actors -> SUBSET {"local", "held"}]

(* enrollmentAuthority always has an answer.                                *)
LEMMA ModeIsMode == \A t \in BOOLEAN, s \in Statuses : Mode(t, s) \in Modes
  BY DEF Mode, Modes, Statuses

LEMMA ModeTypesStep == ASSUME TypeOK, ModeEffect, SeenEffect PROVE ModeTypes'
<1>0. mode \in Modes
  BY ModeIsMode DEF mode, TypeOK, Statuses
<1>1. token' \in BOOLEAN /\ state' \in Statuses
  BY DEF ModeEffect, FilesKept, Write, TypeOK, Statuses
<1>2. known' \in BOOLEAN
  BY DEF ModeEffect, Write, Read, TypeOK
<1>3. asked' \in [Actors -> [mode : Modes \cup {None}, fresh : BOOLEAN]]
  <2>1. NotAsked \in [mode : Modes \cup {None}, fresh : BOOLEAN]
    BY DEF NotAsked
  <2>2. ASSUME NEW t \in BOOLEAN, NEW s \in Statuses, Write(t, s)
        PROVE  asked' \in [Actors -> [mode : Modes \cup {None}, fresh : BOOLEAN]]
    BY <2>2 DEF Write, TypeOK
  <2>3. ASSUME NEW a \in Actors, asked' = Answered(a) \/ asked' = Ask(a)
        PROVE  asked' \in [Actors -> [mode : Modes \cup {None}, fresh : BOOLEAN]]
    <3>1. [mode |-> mode, fresh |-> TRUE] \in [mode : Modes \cup {None}, fresh : BOOLEAN]
      BY <1>0
    <3> QED BY <2>1, <2>3, <3>1 DEF Ask, Answered, TypeOK
  <2>4. CASE asked' = asked
    BY <2>4 DEF TypeOK
  <2> QED BY <2>2, <2>3, <2>4 DEF ModeEffect, Read, Actors
<1>4. seen' \in [Actors -> SUBSET {"local", "held"}]
  BY DEF SeenEffect, Write, Since, Seen, TypeOK
<1> QED BY <1>1, <1>2, <1>3, <1>4 DEF ModeTypes

(* A write makes every reading under way one of older files; the others     *)
(* keep to the files as they are.                                           *)
LEMMA CacheStep == ASSUME TypeOK, CacheIsOfFiles, ModeEffect PROVE CacheIsOfFiles'
<1>1. ASSUME NEW t \in BOOLEAN, NEW s \in Statuses, Write(t, s) PROVE CacheIsOfFiles'
  BY <1>1 DEF CacheIsOfFiles, Write, TypeOK
<1>2. ASSUME FilesKept, NEW a \in Actors, Read(a) PROVE CacheIsOfFiles'
  BY <1>2 DEF CacheIsOfFiles, FilesKept, mode, Read, Answer, Answered, NotAsked, TypeOK
<1>3. ASSUME FilesKept, NEW a \in Actors, asked' = Ask(a), UNCHANGED modeCache PROVE CacheIsOfFiles'
  BY <1>3 DEF CacheIsOfFiles, FilesKept, mode, Ask, TypeOK
<1>4. ASSUME FilesKept, asked' = Answered("work"), UNCHANGED modeCache PROVE CacheIsOfFiles'
  BY <1>4 DEF CacheIsOfFiles, FilesKept, mode, Answered, NotAsked, TypeOK
<1>5. ASSUME FilesKept, UNCHANGED <<asked, modeCache>> PROVE CacheIsOfFiles'
  BY <1>5 DEF CacheIsOfFiles, FilesKept, mode
<1> QED BY <1>1, <1>2, <1>3, <1>4, <1>5 DEF ModeEffect

LEMMA SeenStep == ASSUME TypeOK, SeenCoversNow, SeenEffect PROVE SeenCoversNow'
<1>1. ASSUME NEW t \in BOOLEAN, NEW s \in Statuses, Write(t, s) PROVE SeenCoversNow'
  BY <1>1 DEF SeenCoversNow, Write, mode, TypeOK
<1>2. ASSUME FilesKept, seen' = seen \/ \E a \in Actors : Since(a) PROVE SeenCoversNow'
  BY <1>2 DEF SeenCoversNow, FilesKept, mode, Since, TypeOK
<1> QED BY <1>1, <1>2 DEF SeenEffect

(* A history that has begun is not forgotten.                               *)
LEMMA SeenGrows ==
    ASSUME TypeOK, SeenEffect, NEW b \in Actors PROVE seen[b] # {} => seen'[b] # {}
<1>1. ASSUME NEW t \in BOOLEAN, NEW s \in Statuses, Write(t, s) PROVE seen[b] # {} => seen'[b] # {}
  BY <1>1 DEF Write, TypeOK
<1>2. ASSUME NEW a \in Actors, Since(a) PROVE seen[b] # {} => seen'[b] # {}
  BY <1>2 DEF Since, TypeOK
<1> QED BY <1>1, <1>2 DEF SeenEffect

-----------------------------------------------------------------------------
(* Lists and the discovery *)

ListTypes ==
    /\ disc \in [at : {"idle", "custody", "asking", "listed"}, list : Nat]
    /\ refresh \in [at : {"idle", "authority", "earlier", "discover", "own", "failed"}, since : Nat]
    /\ listed \in Nat /\ snapshot \in Int

(* How the discovery and refresh go on, in any step.                        *)
ListEffect ==
    \/ UNCHANGED <<disc, refresh, listed, snapshot>>
    \/ disc = NoDisc /\ disc' = Asks /\ UNCHANGED <<refresh, listed, snapshot>>
    \/ /\ disc = Asks /\ disc' \in {Lists, NoDisc}
       /\ refresh' = IF disc' = Lists THEN refresh ELSE Waiter
       /\ UNCHANGED <<listed, snapshot>>
    \/ ListRead \/ Discovered \/ DiscoveryFails \/ ListChanges
    \/ CallRefresh /\ UNCHANGED <<disc, listed, snapshot>>
    \/ RefreshAuthority \/ RefreshDiscover \/ RefreshFailed

LEMMA ListSteps == ASSUME TypeOK, [Next]_vars PROVE ListEffect
<1> USE DEF ListEffect
<1>1. CASE Discovery
  BY <1>1 DEF Discovery, StartDiscovery, custodyActive, Lists, NoDisc
<1>2. CASE Refreshing
  BY <1>2 DEF Refreshing, RefreshFrom
<1>3. CASE LocalRequest
  BY <1>3 DEF LocalRequest, Fetch, FetchAuthority, getAuth, SlotAuthority, forRequest,
     servePooled, ResolveBearer, sendWithAccessToken
<1>4. CASE VaultRequest
  BY <1>4 DEF VaultRequest, awaitRequestRoster, Route, send, chooseAccount,
     ChooseAuthority, authorize, accountHeaders, Headers
<1>5. CASE Polling
  BY <1>5 DEF Polling, pollQuota, pollStale, PollRow, PollInsula, PollProvider,
     recordSnapshot, PollEnds
<1>6. CASE LoggingIn
  BY <1>6 DEF LoggingIn, Login, BeginLogin, Complete, CompleteLogin, HostSlot, PoolRead,
     setMainAuth, writeLoginToPool, assertLocalPoolLogin
<1>7. CASE Menu
  BY <1>7 DEF Menu, connectVaultAction, Chosen, disconnect, Disconnected, waitForApproval,
     Ceremony, Forget, Write
<1>8. CASE Others
  BY <1>8 DEF Others, Ceremony, Forget, Write
<1>9. CASE UNCHANGED vars
  BY <1>9, Unchanged
<1> QED BY StepCases, <1>1, <1>2, <1>3, <1>4, <1>5, <1>6, <1>7, <1>8, <1>9

LEMMA ListTypesStep == ASSUME TypeOK, ListEffect PROVE ListTypes'
  BY DEF ListEffect, ListTypes, TypeOK, NoDisc, Asks, Lists, Waiter, ListRead, Discovered,
     DiscoveryFails, ListChanges, CallRefresh, RefreshAuthority, waitsOut, RefreshDiscover,
     RefreshFailed

LEMMA ListsStep == ASSUME TypeOK, ListsGrow, ListEffect PROVE ListsGrow'
<1> USE DEF ListsGrow, TypeOK, NoDisc, Asks, Lists
<1>1. CASE UNCHANGED <<disc, refresh, listed, snapshot>>
  BY <1>1
<1>2. CASE disc = NoDisc /\ disc' = Asks /\ UNCHANGED <<refresh, listed, snapshot>>
  BY <1>2
<1>3. CASE /\ disc = Asks /\ disc' \in {Lists, NoDisc}
           /\ refresh' = IF disc' = Lists THEN refresh ELSE Waiter
           /\ UNCHANGED <<listed, snapshot>>
  BY <1>3 DEF Waiter
<1>4. CASE ListRead
  BY <1>4 DEF ListRead
<1>5. CASE Discovered
  BY <1>5 DEF Discovered, Waiter
<1>6. CASE DiscoveryFails
  BY <1>6 DEF DiscoveryFails, Waiter
<1>7. CASE ListChanges
  BY <1>7 DEF ListChanges
<1>8. CASE CallRefresh /\ UNCHANGED <<disc, listed, snapshot>>
  BY <1>8 DEF CallRefresh
<1>9. CASE RefreshAuthority
  BY <1>9 DEF RefreshAuthority, waitsOut
<1>10. CASE RefreshDiscover
  BY <1>10 DEF RefreshDiscover
<1>11. CASE RefreshFailed
  BY <1>11 DEF RefreshFailed
<1> QED BY <1>1, <1>2, <1>3, <1>4, <1>5, <1>6, <1>7, <1>8, <1>9, <1>10, <1>11 DEF ListEffect

(* The roster never goes back to an older list.                             *)
LEMMA SnapshotGrows == ASSUME TypeOK, ListsGrow, ListEffect PROVE snapshot <= snapshot'
  BY DEF TypeOK, ListsGrow, ListEffect, ListRead, Discovered, DiscoveryFails, ListChanges,
     RefreshAuthority, RefreshDiscover, RefreshFailed

-----------------------------------------------------------------------------
(* The work *)

PollWork == [kind : {"poll"}, at : Stands, row : Int, of : Int]

WorkTypes ==
    \/ work \in [kind : {None, "v1", "v2", "login", "menu"}, at : Stands]
    \/ work \in PollWork

LEMMA PollRecords ==
    ASSUME NEW w \in PollWork, NEW p \in Stands, NEW x \in Int
    PROVE  /\ [w EXCEPT !.at = p] \in PollWork
           /\ [w EXCEPT !.row = x, !.at = p] \in PollWork
           /\ [w EXCEPT !.of = x, !.at = p] \in PollWork
           /\ [w EXCEPT !.row = x, !.of = x, !.at = p] \in PollWork
  BY DEF PollWork

LEMMA PollSteps == ASSUME TypeOK, Polling PROVE work' \in PollWork \/ work' = Idle
<1> USE DEF At, To, End, AskTo
<1>0. {"serve", "background", "row", "insula", "reading", "filed"} \subseteq Stands
  BY DEF Stands
<1>1. CASE pollQuota
  BY <1>0, <1>1 DEF pollQuota, Poll, PollWork
<1>2. CASE ~pollQuota
  <2>1. work.kind = "poll"
    BY <1>2 DEF Polling, pollStale, PollRow, PollInsula, PollProvider, recordSnapshot, PollEnds
  <2>2. work \in PollWork
    BY <2>1 DEF PollWork, TypeOK, None
  <2>3. snapshot \in Int /\ listed \in Int
    BY DEF TypeOK
  <2>9. /\ [work EXCEPT !.at = "row"] \in PollWork
        /\ [work EXCEPT !.at = "serve"] \in PollWork
        /\ [work EXCEPT !.at = "filed"] \in PollWork
        /\ [work EXCEPT !.of = snapshot, !.at = "reading"] \in PollWork
        /\ [work EXCEPT !.row = listed, !.of = listed, !.at = "reading"] \in PollWork
    BY <1>0, <2>2, <2>3, PollRecords
  <2>4. CASE pollStale
    BY <2>4, <2>9 DEF pollStale
  <2>5. CASE PollRow
    BY <1>0, <2>2, <2>3, <2>5, PollRecords DEF PollRow
  <2>6. CASE PollInsula
    BY <2>6, <2>9 DEF PollInsula
  <2>7. CASE PollProvider
    BY <2>7, <2>9 DEF PollProvider
  <2>8. CASE recordSnapshot \/ PollEnds
    BY <2>8, <2>9 DEF recordSnapshot, PollEnds
  <2> QED BY <1>2, <2>4, <2>5, <2>6, <2>7, <2>8 DEF Polling
<1> QED BY <1>1, <1>2

LEMMA WorkTypesStep == ASSUME TypeOK, [Next]_vars PROVE WorkTypes'
<1> USE DEF WorkTypes, TypeOK, Stands, At, To, End, Idle, None, AskTo
<1>1. CASE Discovery
  BY <1>1 DEF Discovery, StartDiscovery, custodyActive, ListRead, Discovered, DiscoveryFails, PollWork
<1>2. CASE Refreshing
  BY <1>2 DEF Refreshing, RefreshFrom, RefreshAuthority, RefreshDiscover, RefreshFailed,
     ListChanges, PollWork
<1>3. CASE LocalRequest
  BY <1>3 DEF LocalRequest, Fetch, FetchAuthority, getAuth, SlotAuthority, forRequest,
     servePooled, vaultMode, ResolveBearer, sendWithAccessToken
<1>4. CASE VaultRequest
  BY <1>4 DEF VaultRequest, awaitRequestRoster, Route, AtRoster, send, chooseAccount,
     ChooseAuthority, authorize, accountHeaders, Headers
<1>5. CASE Polling
  BY <1>5, PollSteps DEF PollWork
<1>6. CASE LoggingIn
  BY <1>6 DEF LoggingIn, Login, BeginLogin, Complete, CompleteLogin, HostSlot, PoolRead,
     setMainAuth, writeLoginToPool, assertLocalPoolLogin
<1>7. CASE Menu
  BY <1>7 DEF Menu, connectVaultAction, Chosen, disconnect, Disconnected, waitForApproval
<1>8. CASE Others
  BY <1>8 DEF Others, PollWork
<1>9. CASE UNCHANGED vars
  BY <1>9, Unchanged DEF PollWork
<1> QED BY StepCases, <1>1, <1>2, <1>3, <1>4, <1>5, <1>6, <1>7, <1>8, <1>9

LEMMA TypesStep == ASSUME TypeOK, [Next]_vars PROVE TypeOK'
  BY Effects, ModeTypesStep, ListSteps, ListTypesStep, WorkTypesStep
  DEF TypeOK, ModeTypes, ListTypes, WorkTypes, PollWork, Statuses

(* An answer that says the host is local is true while it is given.         *)
LEMMA LocalAnswer ==
    ASSUME TypeOK, CacheIsOfFiles, SeenCoversNow, Answer("work") = "local"
    PROVE  mode = "local" /\ (seen["work"] # {} => "local" \in seen["work"])
  BY DEF TypeOK, CacheIsOfFiles, SeenCoversNow, Answer, Actors, Seen, None

LEMMA HistoryStep ==
    ASSUME TypeOK, CacheIsOfFiles, SeenCoversNow, HistoryBegun, [Next]_vars
    PROVE  HistoryBegun'
<1>1. refresh'.at # "idle" => seen'["refresh"] # {}
  <2>1. SeenEffect /\ ListEffect
    BY Effects, ListSteps
  <2>2. CASE Since("refresh")
    BY <2>2 DEF Since, TypeOK, Actors
  <2>3. CASE refresh.at # "idle"
    BY <2>1, <2>3, SeenGrows DEF HistoryBegun, Actors
  <2>4. CASE refresh.at = "idle" /\ ~Since("refresh")
    BY <2>1, <2>4 DEF ListEffect, Waiter, ListRead, Discovered, DiscoveryFails, ListChanges,
       CallRefresh, RefreshAuthority, RefreshDiscover, RefreshFailed
  <2> QED BY <2>2, <2>3, <2>4
<1> DEFINE OfWork ==
      /\ At("v1", "send") => seen["work"] # {}
      /\ work.kind = "login" /\ work.at \in {"completed", "store", "locked", "read"} =>
              seen["work"] # {}
      /\ At("login", "store") => "local" \in seen["work"]
<1> SUFFICES OfWork'
  BY <1>1 DEF HistoryBegun
<1> HIDE DEF OfWork
<1>2. ASSUME work' = work,
             \/ \E t \in BOOLEAN, s \in Statuses : Write(t, s)
             \/ seen' = seen \/ Since("refresh")
      PROVE  OfWork'
  <2> USE DEF OfWork
  <2>1. seen["work"] \subseteq seen'["work"]
    BY <1>2 DEF Write, Since, TypeOK, Actors
  <2> QED BY <1>2, <2>1 DEF HistoryBegun, At
<1>3. ASSUME work'.kind # "login", ~At("v1", "send")' PROVE OfWork'
  BY <1>3 DEF At, OfWork
<1>4. Ceremony \/ Forget => \E t \in BOOLEAN, s \in Statuses : Write(t, s)
  BY DEF Ceremony, Forget, TypeOK, Statuses
<1>5. CASE Discovery
  BY <1>2, <1>5 DEF Discovery, StartDiscovery, custodyActive, ListRead, Discovered, DiscoveryFails
<1>6. CASE Refreshing
  BY <1>2, <1>6 DEF Refreshing, RefreshFrom, CallRefresh, RefreshAuthority, RefreshDiscover,
     RefreshFailed, ListChanges
<1>7. CASE LocalRequest
  <2>1. CASE ResolveBearer
    BY <2>1 DEF OfWork, ResolveBearer, At, AskTo, To, Since, TypeOK, Actors
  <2>2. CASE ~ResolveBearer
    BY <1>3, <1>7, <2>2 DEF LocalRequest, Fetch, FetchAuthority, getAuth, SlotAuthority,
       forRequest, servePooled, vaultMode, sendWithAccessToken, At, AskTo, To, End, Idle, None, TypeOK
  <2> QED BY <2>1, <2>2
<1>8. CASE VaultRequest
  <2>1. CASE awaitRequestRoster
    BY <1>2, <2>1 DEF awaitRequestRoster
  <2>2. CASE ~awaitRequestRoster
    BY <1>3, <1>8, <2>2 DEF VaultRequest, Route, AtRoster, send, chooseAccount, ChooseAuthority,
       authorize, accountHeaders, Headers, At, AskTo, To, End, Idle, None, TypeOK
  <2> QED BY <2>1, <2>2
<1>9. CASE Polling
  <2>1. work'.kind \in {"poll", None}
    BY <1>9, PollSteps DEF PollWork, Idle
  <2> QED BY <1>3, <2>1 DEF At, None
<1>10. CASE LoggingIn
  <2>1. CASE Login \/ HostSlot \/ setMainAuth \/ writeLoginToPool \/ BeginLogin
    BY <2>1 DEF OfWork, Login, HostSlot, setMainAuth, writeLoginToPool, BeginLogin,
       assertLocalPoolLogin, At, To, End, Idle, None, TypeOK
  <2>2. CASE Complete
    BY <2>2 DEF OfWork, Complete, At, AskTo, To, Since, TypeOK, Actors
  <2>3. CASE CompleteLogin
    <3>1. /\ At("login", "completed") /\ seen' = seen
          /\ \/ Answer("work") = "local" /\ To("store")
             \/ End
      BY <2>3 DEF CompleteLogin, assertLocalPoolLogin
    <3>2. seen["work"] # {}
      BY <3>1 DEF HistoryBegun, At
    <3>3. CASE Answer("work") = "local" /\ To("store")
      BY <3>1, <3>2, <3>3, LocalAnswer DEF OfWork, At, To, TypeOK
    <3>4. CASE End
      BY <3>4 DEF OfWork, At, End, Idle
    <3> QED BY <3>1, <3>3, <3>4
  <2>4. CASE PoolRead
    BY <2>4 DEF OfWork, PoolRead, At, AskTo, To, HistoryBegun, TypeOK
  <2> QED BY <1>10, <2>1, <2>2, <2>3, <2>4 DEF LoggingIn
<1>11. CASE Menu
  <2>1. CASE work' = work
    <3>1. \/ \E t \in BOOLEAN, s \in Statuses : Write(t, s)
          \/ seen' = seen \/ Since("refresh")
      BY <1>4, <1>11, <2>1 DEF Menu, connectVaultAction, Chosen, disconnect, Disconnected,
         waitForApproval, CallRefresh
    <3> QED BY <1>2, <2>1, <3>1
  <2>2. CASE work' # work
    BY <1>3, <1>11, <2>2 DEF Menu, connectVaultAction, Chosen, disconnect, Disconnected,
       waitForApproval, At, AskTo, To, End, Idle, None, TypeOK
  <2> QED BY <2>1, <2>2
<1>12. CASE Others
  BY <1>2, <1>4, <1>12 DEF Others
<1>13. CASE UNCHANGED vars
  BY <1>2, <1>13, Unchanged
<1> QED
  BY StepCases, <1>1, <1>5, <1>6, <1>7, <1>8, <1>9, <1>10, <1>11, <1>12, <1>13

LEMMA ReadingStep ==
    ASSUME TypeOK, ListsGrow, ReadingIsNoOlder, [Next]_vars PROVE ReadingIsNoOlder'
<1>1. snapshot <= snapshot' /\ snapshot' \in Int /\ snapshot \in Int
  BY ListSteps, SnapshotGrows, ListTypesStep DEF TypeOK, ListTypes
<1>2. CASE Polling
  <2>1. CASE pollQuota
    BY <2>1 DEF ReadingIsNoOlder, At, pollQuota, Poll
  <2>2. CASE ~pollQuota
    <3>1. work \in PollWork
      BY <1>2, <2>2 DEF Polling, pollStale, PollRow, PollInsula, PollProvider, recordSnapshot,
         PollEnds, At, PollWork, TypeOK, None
    <3>2. work.row \in Int /\ work.of \in Int /\ snapshot' = snapshot
      BY <1>2, <2>2, <3>1 DEF Polling, pollStale, PollRow, PollInsula, PollProvider,
         recordSnapshot, PollEnds, PollWork
    <3>3. CASE pollStale \/ recordSnapshot \/ PollEnds
      <4>1. work'.at \in {"row", "filed", "idle"}
        BY <3>1, <3>3 DEF pollStale, recordSnapshot, PollEnds, To, End, Idle, PollWork
      <4> QED BY <4>1 DEF ReadingIsNoOlder, At
    <3>4. CASE PollRow
      <4>1. work'.row = snapshot /\ work'.at = "insula"
        BY <3>1, <3>4 DEF PollRow, PollWork
      <4> QED BY <1>1, <3>2, <4>1 DEF ReadingIsNoOlder, At
    <3>5. CASE PollInsula
      <4>1. CASE work' = [work EXCEPT !.of = snapshot, !.at = "reading"]
        BY <1>1, <3>1, <3>2, <3>5, <4>1 DEF PollInsula, ReadingIsNoOlder, At, PollWork
      <4>2. CASE work' = Idle \/ work' = [work EXCEPT !.at = "serve"]
        BY <3>1, <4>2 DEF ReadingIsNoOlder, At, Idle, PollWork
      <4> QED BY <3>5, <4>1, <4>2 DEF PollInsula, AskTo, To, End
    <3>6. CASE PollProvider
      <4>1. CASE work' = [work EXCEPT !.row = listed, !.of = listed, !.at = "reading"]
        BY <3>1, <4>1 DEF ReadingIsNoOlder, At, PollWork
      <4>2. CASE work' = Idle
        BY <4>2 DEF ReadingIsNoOlder, At, Idle
      <4> QED BY <3>6, <4>1, <4>2 DEF PollProvider, End
    <3> QED BY <1>2, <2>2, <3>3, <3>4, <3>5, <3>6 DEF Polling
  <2> QED BY <2>1, <2>2
<1>3. CASE work' = work
  <2>1. work.kind = "poll" => work.row \in Int /\ work.of \in Int
    BY DEF TypeOK, None
  <2> QED BY <1>1, <1>3, <2>1 DEF ReadingIsNoOlder, At
<1>4. ASSUME work'.kind # "poll" PROVE ReadingIsNoOlder'
  BY <1>4 DEF ReadingIsNoOlder, At
<1>5. CASE Discovery
  BY <1>3, <1>5 DEF Discovery, StartDiscovery, custodyActive, ListRead, Discovered, DiscoveryFails
<1>6. CASE Refreshing
  BY <1>3, <1>6 DEF Refreshing, RefreshFrom, RefreshAuthority, RefreshDiscover, RefreshFailed,
     ListChanges
<1>7. CASE LocalRequest
  BY <1>4, <1>7 DEF LocalRequest, Fetch, FetchAuthority, getAuth, SlotAuthority, forRequest,
     servePooled, ResolveBearer, sendWithAccessToken, At, AskTo, To, End, Idle, None, TypeOK
<1>8. CASE VaultRequest
  BY <1>3, <1>4, <1>8 DEF VaultRequest, awaitRequestRoster, Route, AtRoster, send, chooseAccount,
     ChooseAuthority, authorize, accountHeaders, Headers, At, AskTo, To, End, Idle, None, TypeOK
<1>9. CASE LoggingIn
  BY <1>4, <1>9 DEF LoggingIn, Login, BeginLogin, Complete, CompleteLogin, HostSlot, PoolRead,
     setMainAuth, writeLoginToPool, assertLocalPoolLogin, At, AskTo, To, End, Idle, None, TypeOK
<1>10. CASE Menu
  BY <1>3, <1>4, <1>10 DEF Menu, connectVaultAction, Chosen, disconnect, Disconnected,
     waitForApproval, At, AskTo, To, End, Idle, None, TypeOK
<1>11. CASE Others
  BY <1>3, <1>11 DEF Others
<1>12. CASE UNCHANGED vars
  BY <1>3, <1>12, Unchanged
<1> QED BY StepCases, <1>2, <1>5, <1>6, <1>7, <1>8, <1>9, <1>10, <1>11, <1>12

-----------------------------------------------------------------------------
(* The inductive invariant, checked by TLC in every reachable state of the  *)
(* vault_mode run before it was proved.                                     *)
IInv == /\ TypeOK /\ CacheIsOfFiles /\ SeenCoversNow /\ HistoryBegun /\ ListsGrow
        /\ ReadingIsNoOlder

LEMMA InitInv == Init => IInv
<1> SUFFICES ASSUME Init PROVE IInv
  OBVIOUS
<1>1. TypeOK
  <2>1. /\ token \in BOOLEAN /\ state \in {"none", "pending", "denied", "approved"}
        /\ known \in BOOLEAN
    BY DEF Init
  <2>2. /\ asked \in [Actors -> [mode : Modes \cup {None}, fresh : BOOLEAN]]
        /\ seen \in [Actors -> SUBSET {"local", "held"}]
    BY DEF Init, NotAsked
  <2>3. /\ disc \in [at : {"idle", "custody", "asking", "listed"}, list : Nat]
        /\ refresh \in [at : {"idle", "authority", "earlier", "discover", "own", "failed"},
                        since : Nat]
        /\ listed \in Nat /\ snapshot \in Int
    BY DEF Init, NoDisc
  <2>4. work \in [kind : {None, "v1", "v2", "login", "menu"}, at : Stands]
    BY DEF Init, Idle, None, Stands
  <2> QED BY <2>1, <2>2, <2>3, <2>4 DEF TypeOK
<1>2. CacheIsOfFiles /\ SeenCoversNow /\ HistoryBegun
  BY DEF Init, CacheIsOfFiles, NotAsked, SeenCoversNow, HistoryBegun, At, Idle, None
<1>3. ListsGrow /\ ReadingIsNoOlder
  BY DEF Init, ListsGrow, NoDisc, ReadingIsNoOlder, At, Idle, None
<1> QED BY <1>1, <1>2, <1>3 DEF IInv

LEMMA StepInv == ASSUME IInv, [Next]_vars PROVE IInv'
  BY TypesStep, Effects, ListSteps, CacheStep, SeenStep, HistoryStep, ListsStep, ReadingStep
  DEF IInv

LEMMA Invariance == Spec => []IInv
<1>1. IInv /\ [Next]_vars => IInv'
  BY StepInv
<1> QED BY InitInv, <1>1, PTL DEF Spec

(* Every variable keeps its type.                                           *)
THEOREM TypeCorrect == Spec => []TypeOK
<1>1. IInv => TypeOK
  BY DEF IInv
<1> QED BY <1>1, Invariance, PTL

(* While callbacks that cannot wait take this host for a local one, it is,  *)
(* whichever process connects it meanwhile: the cache never outlives the    *)
(* files it was read from.                                                  *)
THEOREM LocalIsLocal == Spec => []LocalMeansLocal
<1>1. IInv => LocalMeansLocal
  BY DEF IInv, CacheIsOfFiles, LocalMeansLocal, enrolled
<1> QED BY <1>1, Invariance, PTL

(* A local credential is put to use only in a mode that allowed it at some  *)
(* time since it was resolved or completed, however long the wait for it    *)
(* and whatever the operator approved in the meantime.                      *)
THEOREM UsedAsAllowed == Spec => UsesByMode
<1>1. ASSUME IInv, [Next]_vars
      PROVE  [used' # used => (used' \in {"local", "login"} => "local" \in seen'["work"])]_vars
  <2> SUFFICES ASSUME used' # used, used' \in {"local", "login"} PROVE "local" \in seen'["work"]
    OBVIOUS
  <2>0. /\ None \notin {"local", "login"} /\ "vault" \notin {"local", "login"}
        /\ TypeOK /\ CacheIsOfFiles /\ SeenCoversNow /\ HistoryBegun
    BY <1>1 DEF None, IInv
  <2>1. CASE Discovery \/ Refreshing \/ Menu \/ Others \/ UNCHANGED vars
    BY <2>1, Unchanged DEF Discovery, StartDiscovery, custodyActive, ListRead, Discovered,
       DiscoveryFails, Refreshing, RefreshFrom, RefreshAuthority, RefreshDiscover, RefreshFailed,
       ListChanges, Menu, connectVaultAction, Chosen, disconnect, Disconnected, waitForApproval,
       Others, Ceremony, Forget, Write
  <2>2. CASE LocalRequest
    <3>1. sendWithAccessToken
      BY <2>0, <2>2 DEF LocalRequest, Fetch, FetchAuthority, getAuth, SlotAuthority,
         forRequest, servePooled, ResolveBearer
    <3>2. At("v1", "send") /\ seen' = seen /\ Answer("work") = "local"
      BY <2>0, <3>1 DEF sendWithAccessToken, mayLeave
    <3> QED BY <2>0, <3>2, LocalAnswer DEF HistoryBegun
  <2>3. CASE VaultRequest
    <3>1. Headers /\ Answer("work") = "local" /\ Since("work")
      BY <2>0, <2>3 DEF VaultRequest, awaitRequestRoster, Route, send, chooseAccount,
         ChooseAuthority, authorize, accountHeaders, Headers
    <3>2. mode = "local"
      BY <2>0, <3>1, LocalAnswer
    <3> QED BY <2>0, <3>1, <3>2 DEF Since, Seen, TypeOK, Actors
  <2>4. CASE Polling
    BY <2>0, <2>4 DEF Polling, pollQuota, pollStale, PollRow, PollInsula, PollProvider,
       recordSnapshot, PollEnds
  <2>5. CASE LoggingIn
    <3>1. CASE HostSlot
      BY <2>0, <3>1 DEF HostSlot, HistoryBegun
    <3>2. CASE setMainAuth \/ writeLoginToPool
      <4>1. /\ At("login", "locked") \/ At("login", "read")
            /\ seen' = seen /\ Answer("work") = "local"
        BY <2>0, <3>2 DEF setMainAuth, writeLoginToPool
      <4>2. seen["work"] # {}
        BY <2>0, <4>1 DEF HistoryBegun, At
      <4> QED BY <2>0, <4>1, <4>2, LocalAnswer
    <3> QED BY <2>0, <2>5, <3>1, <3>2 DEF LoggingIn, Login, BeginLogin, Complete, CompleteLogin,
        assertLocalPoolLogin, PoolRead
  <2> QED BY <1>1, <2>1, <2>2, <2>3, <2>4, <2>5, StepCases
<1> QED BY <1>1, Invariance, PTL DEF Spec, UsesByMode

(* A poll's reading is filed for the account it is of: whoever holds the    *)
(* route when it arrives is the account whose row was read before the       *)
(* vault was asked.                                                         *)
LEMMA ReadingFits == Spec => ReadingFitsAccount
<1>1. ASSUME IInv, [Next]_vars
      PROVE  [At("poll", "reading") /\ work'.at = "filed" => work.of = snapshot]_vars
  <2> SUFFICES ASSUME At("poll", "reading"), work'.at = "filed" PROVE work.of = snapshot
    OBVIOUS
  <2>1. TypeOK /\ ReadingIsNoOlder
    BY <1>1 DEF IInv
  <2>2. /\ work.row \in Int /\ work.of \in Int /\ snapshot \in Int
        /\ work.kind = "poll" /\ work.at = "reading"
    BY <2>1 DEF TypeOK, At, None
  <2>3. CASE Polling
    <3>1. recordSnapshot
      BY <2>2, <2>3 DEF Polling, pollQuota, pollStale, PollRow, PollInsula, PollProvider,
         PollEnds, At, Idle, None
    <3>2. work.row = snapshot
      BY <3>1 DEF recordSnapshot, polledFor, End, Idle
    <3> QED BY <2>1, <2>2, <3>2 DEF ReadingIsNoOlder, At
  <2>4. CASE ~Polling
    <3>1. work' = work \/ work'.at # "filed"
      BY <1>1, <2>2, <2>4, StepCases, Unchanged
      DEF Discovery, StartDiscovery, custodyActive, ListRead, Discovered,
       DiscoveryFails, Refreshing, RefreshFrom, RefreshAuthority, RefreshDiscover, RefreshFailed,
       ListChanges, LocalRequest, Fetch, FetchAuthority, getAuth, SlotAuthority, forRequest,
       servePooled, ResolveBearer, sendWithAccessToken, VaultRequest, awaitRequestRoster, Route,
       AtRoster, send, chooseAccount, ChooseAuthority, authorize, accountHeaders, Headers,
       LoggingIn, Login, BeginLogin, Complete, CompleteLogin, HostSlot, PoolRead, setMainAuth,
       writeLoginToPool, assertLocalPoolLogin, Menu, connectVaultAction, Chosen, disconnect,
       Disconnected, waitForApproval, Others, At, Idle, None
    <3> QED BY <2>2, <3>1
  <2> QED BY <2>3, <2>4
<1> QED BY <1>1, Invariance, PTL DEF Spec, ReadingFitsAccount

(* A refresh that returns has a list as new as the vault's was when it was  *)
(* called, or the host was local since.                                     *)
LEMMA RefreshFresh == Spec => RefreshIsFresh
<1>1. ASSUME IInv, [Next]_vars
      PROVE  [refresh.at = "own" /\ refresh'.at = "idle" =>
                \/ snapshot' >= refresh.since /\ disc.at = "listed"
                \/ disc = Asks /\ "local" \in seen["refresh"]]_vars
  <2> SUFFICES ASSUME refresh.at = "own", refresh'.at = "idle"
               PROVE  \/ snapshot' >= refresh.since /\ disc.at = "listed"
                      \/ disc = Asks /\ "local" \in seen["refresh"]
    OBVIOUS
  <2>1. TypeOK /\ CacheIsOfFiles /\ SeenCoversNow /\ HistoryBegun /\ ListsGrow
    BY <1>1 DEF IInv
  <2>2. Discovered \/ custodyActive
    <3>1. CASE Discovery
      BY <2>1, <3>1 DEF Discovery, StartDiscovery, ListRead, DiscoveryFails, TypeOK
    <3>2. CASE Refreshing
      BY <2>1, <3>2 DEF Refreshing, RefreshFrom, CallRefresh, RefreshAuthority, RefreshDiscover,
         RefreshFailed, ListChanges, TypeOK
    <3>3. CASE ~Discovery /\ ~Refreshing
      <4>1. refresh' = refresh \/ CallRefresh
        BY <1>1, <3>3, StepCases, Unchanged
        DEF LocalRequest, Fetch, FetchAuthority, getAuth, SlotAuthority, forRequest,
         servePooled, ResolveBearer, sendWithAccessToken, VaultRequest, awaitRequestRoster, Route,
         send, chooseAccount, ChooseAuthority, authorize, accountHeaders, Headers, Polling,
         pollQuota, pollStale, PollRow, PollInsula, PollProvider, recordSnapshot, PollEnds,
         LoggingIn, Login, BeginLogin, Complete, CompleteLogin, HostSlot, PoolRead, setMainAuth,
         writeLoginToPool, assertLocalPoolLogin, Menu, connectVaultAction, Chosen, disconnect,
         Disconnected, waitForApproval, Others
      <4> QED BY <4>1 DEF CallRefresh
    <3> QED BY <3>1, <3>2, <3>3
  <2>3. CASE Discovered
    <3>1. disc.at = "listed" /\ snapshot' = disc.list
      BY <2>3 DEF Discovered
    <3> QED BY <2>1, <3>1 DEF ListsGrow, TypeOK
  <2>4. CASE custodyActive
    <3>1. disc = Asks /\ Read("disc") /\ FilesKept
      BY <2>4 DEF custodyActive, FilesKept
    <3>2. known' /\ authority' = "local"
      BY <2>4 DEF custodyActive
    <3>3. CacheIsOfFiles'
      BY <2>1, <3>1, CacheStep DEF ModeEffect, Actors
    <3>4. mode = "local"
      BY <3>1, <3>2, <3>3 DEF CacheIsOfFiles, FilesKept, mode
    <3>5. seen["refresh"] # {}
      BY <2>1 DEF HistoryBegun
    <3> QED BY <2>1, <3>1, <3>4, <3>5 DEF SeenCoversNow, Seen, Actors
  <2> QED BY <2>2, <2>3, <2>4
<1> QED BY <1>1, Invariance, PTL DEF Spec, RefreshIsFresh

(* No late reading on another account, no roster older than its refresh.    *)
THEOREM AnswersCurrent == Spec => AnswersAreCurrent
  BY ReadingFits, RefreshFresh DEF AnswersAreCurrent
=============================================================================
