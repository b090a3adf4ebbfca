------------------------------- MODULE Quota -------------------------------
(***************************************************************************)
(* The self-service quota endpoints (internal/plugin/quota.go and          *)
(* quota_reset.go): a cache of upstream snapshots filled by one fetch at a *)
(* time, and resets that spend a credit of the bound account at most once  *)
(* per idempotency key.                                                    *)
(*                                                                         *)
(* A reader is one GET quota/api, a resetter one GET quota/api/reset, each *)
(* on a goroutine of its own.  A critical section under quotaMu or         *)
(* quotaResetMu is one action and so is a call to the upstream service,    *)
(* which is modelled from how the plugin uses it: it applies a redemption  *)
(* at most once per redeem_request_id, and any reply may be lost.  When it *)
(* publishes what a reset did to the windows is left open, for that may    *)
(* take a minute (README.md): of a snapshot the model keeps whose it is,   *)
(* when it was read, and which resets had been applied before its fetch.   *)
(***************************************************************************)
EXTENDS Naturals, FiniteSets

CONSTANTS
    Credentials,    \* pairs of an auth_index and the account its file holds
    Readers,        \* requests for the quota
    Resetters,      \* requests for a reset
    Keys,           \* idempotency keys
    NoOne,          \* no account holder
    None,           \* no snapshot, no response
    CacheTTL, AttemptTTL,       \* in ticks of the clock
    CacheCap, AttemptCap,       \* entries in the two tables
    MaxRequests,    \* bound: requests of both kinds
    MaxClock,       \* bound: ticks
    MaxClears,      \* bound: reconfigurations and changes of classify rules
    MaxCredits      \* an account's credits, numbered by expiry

ASSUME SizesAreNaturals ==
    {CacheTTL, AttemptTTL, CacheCap, AttemptCap, MaxRequests, MaxClock, MaxClears, MaxCredits} \subseteq Nat
ASSUME RoomForOne == CacheCap > 0 /\ AttemptCap > 0
ASSUME EntriesLast == CacheTTL > 0
ASSUME SomeCredential == Credentials # {}
ASSUME ThreadsDiffer == Readers \cap Resetters = {} /\ NoOne \notin Resetters

Accounts == {c[2] : c \in Credentials}

\* Defect: a cache entry belongs to the auth file, whatever account it holds.
IdentityByIndex(c) == c[1]

\* quotaAccess.identity: the auth_index and a hash of the account id.
Identity(c) == c

Identities == {Identity(c) : c \in Credentials}

VARIABLES
    clock,
    generation,     \* App.quotaGeneration
    cache,          \* App.quotaCache: identity to entry, or None
    inflight,       \* App.quotaInflight: the readers that lead a flight in the map
    flight,         \* the flights the readers created: their result, and is done closed
    reader,
    attempts,       \* App.quotaResetAttempts: the resetters that lead an attempt in the map
    attempt,        \* the attempts: response, expiry, and is done closed
    accounts,       \* App.quotaResetAccounts: identity to the resetter that holds it
    resetter,
    clears,
    resets, credits, redeemed,  \* upstream: resets and credits by account, redeem ids
    known,          \* history: the resets of an account that were answered with 200
    spent           \* history: the credits taken by each credential's idempotency keys

quotaVars == <<generation, cache, inflight, flight, reader>>
resetVars == <<attempts, attempt, accounts, resetter>>
upstream == <<resets, credits, redeemed, spent>>
vars == <<clock, quotaVars, resetVars, clears, upstream, known>>

\* after is history: the account's resets when the fetch of the snapshot began.
Snapshots == [account : Accounts, after : Nat, readAt : 0..MaxClock]
Responses == {"reset", "upstream_failed", "no_credit", "nothing_to_reset", "in_progress", "busy"}

Entries == [snap : Snapshots, expires : Nat]
Flights == [closed : BOOLEAN, snap : Snapshots \cup {None}]
ReaderStates == [pc : {"idle", "lookup", "fetch", "publish", "wait", "done"},
                 cred : Credentials, at : 0..MaxClock, gen : Nat, leader : Readers,
                 snap : Snapshots \cup {None}, after : Nat, floor : Nat]
Attempts == [closed : BOOLEAN, response : Responses \cup {None}, expires : Nat]
ResetterStates == [pc : {"idle", "begin", "credits", "consume", "clear", "finish", "wait", "done"},
                   cred : Credentials, key : Keys \cup {None}, at : 0..MaxClock,
                   credit : 0..MaxCredits, seen : Nat, leader : Resetters,
                   response : Responses \cup {None}]

Cached == {i \in Identities : cache[i] # None}

TypeOK ==
    /\ clock \in 0..MaxClock
    /\ generation \in Nat
    /\ cache \in [Identities -> Entries \cup {None}]
    /\ Cardinality(Cached) <= CacheCap
    /\ inflight \subseteq Readers
    /\ flight \in [Readers -> Flights]
    /\ reader \in [Readers -> ReaderStates]
    /\ attempts \subseteq Resetters
    /\ Cardinality(attempts) <= AttemptCap
    /\ attempt \in [Resetters -> Attempts]
    /\ accounts \in [Identities -> Resetters \cup {NoOne}]
    /\ resetter \in [Resetters -> ResetterStates]
    /\ clears \in 0..MaxClears
    /\ resets \in [Accounts -> Nat]
    /\ credits \in [Accounts -> SUBSET (1..MaxCredits)]
    /\ known \in [Accounts -> Nat]
    /\ spent \in [Credentials \X Keys -> Nat]

Someone == CHOOSE c \in Credentials : TRUE

Init ==
    /\ clock = 0
    /\ generation = 0
    /\ cache = [i \in Identities |-> None]
    /\ inflight = {}
    /\ flight = [r \in Readers |-> [closed |-> FALSE, snap |-> None]]
    /\ reader = [r \in Readers |-> [pc |-> "idle", cred |-> Someone, at |-> 0, gen |-> 0, leader |-> r,
                                    snap |-> None, after |-> 0, floor |-> 0]]
    /\ attempts = {}
    /\ attempt = [q \in Resetters |-> [closed |-> FALSE, response |-> None, expires |-> 0]]
    /\ accounts = [i \in Identities |-> NoOne]
    /\ resetter = [q \in Resetters |-> [pc |-> "idle", cred |-> Someone, key |-> None, at |-> 0,
                                        credit |-> 0, seen |-> 0, leader |-> q,
                                        response |-> None]]
    /\ clears = 0
    /\ resets = [a \in Accounts |-> 0]
    /\ credits = [a \in Accounts |-> 1..MaxCredits]
    /\ redeemed = {}
    /\ known = [a \in Accounts |-> 0]
    /\ spent = [ck \in Credentials \X Keys |-> 0]
----------------------------------------------------------------------------
(***************************************************************************)
(* Reading the quota: cachedQuotaSnapshot and fetchCodexQuota.             *)
(***************************************************************************)
AccountOf(r) == reader[r].cred[2]

Begun == {r \in Readers : reader[r].pc # "idle"} \cup {q \in Resetters : resetter[q].pc # "idle"}
MayBegin == Cardinality(Begun) < MaxRequests

\* The credential is resolved and the clock read before quotaMu is taken.
Read(r, c) ==
    /\ reader[r].pc = "idle"
    /\ MayBegin
    /\ reader' = [reader EXCEPT ![r] =
                     [@ EXCEPT !.pc = "lookup", !.cred = c, !.at = clock, !.floor = known[c[2]]]]
    /\ UNCHANGED <<clock, generation, cache, inflight, flight, resetVars, clears, upstream, known>>

\* The entries a lookup at time t leaves in the cache.
Unexpired(t) == [i \in Identities |-> IF cache[i] # None /\ cache[i].expires <= t
                                      THEN None ELSE cache[i]]

\* The key of a flight is the generation and the identity.
Leads(l, r) == /\ l \in inflight
               /\ reader[l].gen = generation
               /\ Identity(reader[l].cred) = Identity(reader[r].cred)

Lookup(r) ==
    /\ reader[r].pc = "lookup"
    /\ LET live == Unexpired(reader[r].at)
           hit == live[Identity(reader[r].cred)]
       IN  /\ cache' = live
           /\ \/ /\ hit # None
                 /\ reader' = [reader EXCEPT ![r].pc = "done", ![r].snap = hit.snap]
                 /\ UNCHANGED inflight
              \/ /\ hit = None
                 /\ \E l \in Readers : /\ Leads(l, r)
                                       /\ reader' = [reader EXCEPT ![r].pc = "wait", ![r].leader = l]
                 /\ UNCHANGED inflight
              \/ /\ hit = None
                 /\ ~ \E l \in Readers : Leads(l, r)
                 /\ reader' = [reader EXCEPT ![r].pc = "fetch", ![r].gen = generation,
                                                    ![r].after = resets[AccountOf(r)]]
                 /\ inflight' = inflight \cup {r}
    /\ UNCHANGED <<clock, generation, flight, resetVars, clears, upstream, known>>

\* GET wham/usage; the second GET fills in the reset bank and cannot fail the
\* request.
FetchUsage(r) ==
    /\ reader[r].pc = "fetch"
    /\ \E snap \in {None, [account |-> AccountOf(r), after |-> reader[r].after, readAt |-> clock]} :
         reader' = [reader EXCEPT ![r].pc = "publish", ![r].snap = snap]
    /\ UNCHANGED <<clock, generation, cache, inflight, flight, resetVars, clears, upstream, known>>

\* Defect: the entry expires a TTL after it was stored, not after the request.
ExpiresAfterFetch(r) == clock + CacheTTL

ExpiresAt(r) == reader[r].at + CacheTTL

\* Defect: the table is full when there is more in it than the capacity.
OverFull(size, cap) == size > cap

Full(size, cap) == size >= cap

\* The cache with room for one more: an entry that expires first goes.
Oldest == {i \in Cached : \A j \in Cached : cache[i].expires <= cache[j].expires}
Roomy == IF Full(Cardinality(Cached), CacheCap)
         THEN {[cache EXCEPT ![i] = None] : i \in Oldest}
         ELSE {cache}

\* Storing the snapshot r fetched.
Store(r) == \E room \in Roomy :
    cache' = [room EXCEPT ![Identity(reader[r].cred)] = [snap |-> reader[r].snap, expires |-> ExpiresAt(r)]]

\* Defect: a snapshot is stored although the cache was cleared during the fetch.
KeepsAnySnapshot(r) == reader[r].snap # None

\* Is the snapshot still worth keeping?
Keeps(r) == reader[r].snap # None /\ generation = reader[r].gen

Settle(r) ==
    /\ flight' = [flight EXCEPT ![r] = [closed |-> TRUE, snap |-> reader[r].snap]]
    /\ inflight' = {l \in inflight : reader[l].gen # reader[r].gen
                                       \/ Identity(reader[l].cred) # Identity(reader[r].cred)}
    /\ reader' = [reader EXCEPT ![r].pc = "done"]
    /\ UNCHANGED <<clock, generation, resetVars, clears, upstream, known>>

\* Defect: a failed fetch returns before it has settled the flight.
PublishUnlessFailed(r) ==
    /\ reader[r].pc = "publish"
    /\ \/ /\ Keeps(r) /\ Store(r) /\ Settle(r)
       \/ /\ ~Keeps(r)
          /\ reader' = [reader EXCEPT ![r].pc = "done"]
          /\ UNCHANGED <<cache, flight, inflight, clock, generation, resetVars, clears, upstream, known>>

\* The flight's result, the cache entry and the end of the flight, in one
\* critical section.
Publish(r) ==
    /\ reader[r].pc = "publish"
    /\ \/ Keeps(r) /\ Store(r)
       \/ ~Keeps(r) /\ UNCHANGED cache
    /\ Settle(r)

Follow(r) ==
    /\ reader[r].pc = "wait"
    /\ flight[reader[r].leader].closed
    /\ reader' = [reader EXCEPT ![r].pc = "done", ![r].snap = flight[reader[r].leader].snap]
    /\ UNCHANGED <<clock, generation, cache, inflight, flight, resetVars, clears, upstream, known>>

\* clearQuotaState: flights in progress are forgotten, not ended.
ClearQuotaState ==
    /\ generation' = generation + 1
    /\ cache' = [i \in Identities |-> None]
    /\ inflight' = {}

\* App.configure, SetHostClient and the callback of a change of classify rules.
Clear ==
    /\ clears < MaxClears
    /\ clears' = clears + 1
    /\ ClearQuotaState
    /\ UNCHANGED <<clock, flight, reader, resetVars, upstream, known>>
----------------------------------------------------------------------------
(***************************************************************************)
(* Resetting the quota: quotaResetAPI.                                     *)
(***************************************************************************)
Spender(q) == resetter[q].cred[2]

\* The access is resolved and the clock read before quotaResetMu is taken.
Ask(q, c, k) ==
    /\ resetter[q].pc = "idle"
    /\ MayBegin
    /\ resetter' = [resetter EXCEPT ![q] = [@ EXCEPT !.pc = "begin", !.cred = c, !.key = k, !.at = clock]]
    /\ UNCHANGED <<clock, quotaVars, attempts, attempt, accounts, clears, upstream, known>>

\* An unfinished attempt has no expiry.
UnexpiredAttempts(t) == {l \in attempts : ~attempt[l].closed \/ attempt[l].expires > t}

SameRequest(l, q) == /\ Identity(resetter[l].cred) = Identity(resetter[q].cred)
                     /\ resetter[l].key = resetter[q].key

\* Defect: an account is busy with the request's own key only.
BusyWithSameKey(q) == \E l \in Resetters : /\ accounts[Identity(resetter[q].cred)] = l
                                           /\ SameRequest(l, q)

Busy(q) == accounts[Identity(resetter[q].cred)] # NoOne

\* Finished attempts only can make room.
Evictable(table) == {l \in table : /\ attempt[l].closed
                                   /\ \A m \in table : attempt[m].closed
                                        => attempt[l].expires <= attempt[m].expires}

BeginQuotaReset(q) ==
    /\ resetter[q].pc = "begin"
    /\ LET live == UnexpiredAttempts(resetter[q].at)
           same == {l \in live : SameRequest(l, q)}
           full == Full(Cardinality(live), AttemptCap)
           refuse(why) ==
               /\ attempts' = live
               /\ resetter' = [resetter EXCEPT ![q].pc = "done", ![q].response = why]
               /\ UNCHANGED accounts
           lead(table) ==
               /\ attempts' = table \cup {q}
               /\ accounts' = [accounts EXCEPT ![Identity(resetter[q].cred)] = q]
               /\ resetter' = [resetter EXCEPT ![q].pc = "credits"]
       IN  \/ /\ attempts' = live
              /\ \E l \in same : resetter' = [resetter EXCEPT ![q].pc = "wait", ![q].leader = l]
              /\ UNCHANGED accounts
           \/ same = {} /\ Busy(q) /\ refuse("in_progress")
           \/ same = {} /\ ~Busy(q) /\ full /\ Evictable(live) = {} /\ refuse("busy")
           \/ same = {} /\ ~Busy(q) /\ full /\ \E l \in Evictable(live) : lead(live \ {l})
           \/ same = {} /\ ~Busy(q) /\ ~full /\ lead(live)
    /\ UNCHANGED <<clock, quotaVars, attempt, clears, upstream, known>>

Finishing(q, why) == resetter' = [resetter EXCEPT ![q].pc = "finish", ![q].response = why]

\* GET the credits and choose the one that expires first.
ChooseCredit(q) ==
    /\ resetter[q].pc = "credits"
    /\ \/ Finishing(q, "upstream_failed")
       \/ credits[Spender(q)] = {} /\ Finishing(q, "no_credit")
       \/ \E n \in credits[Spender(q)] :
            /\ \A o \in credits[Spender(q)] : n <= o
            /\ resetter' = [resetter EXCEPT ![q].pc = "consume", ![q].credit = n]
    /\ UNCHANGED <<clock, quotaVars, attempts, attempt, accounts, clears, upstream, known>>

\* Defect: every attempt makes up a redeem_request_id of its own.
RedeemIDOfAttempt(q) == <<Identity(resetter[q].cred), q>>

\* quotaResetRedeemID
RedeemID(q) == <<Identity(resetter[q].cred), resetter[q].key>>

\* The answer to performQuotaReset's POST, by the upstream's code.
Answered(q, code) ==
    resetter' = [resetter EXCEPT
        ![q].pc = IF code \in {"reset", "already_redeemed"} THEN "clear" ELSE "finish",
        ![q].seen = resets'[Spender(q)],
        ![q].response = CASE code \in {"reset", "already_redeemed"} -> "reset"
                          [] code = "lost" -> "upstream_failed"
                          [] OTHER -> code]

\* POST consume: the upstream redeems the credit, unless it knows the
\* redeem_request_id, the credit is gone, or there is nothing to reset.
Consume(q) ==
    /\ resetter[q].pc = "consume"
    /\ \/ /\ RedeemID(q) \notin redeemed
          /\ resetter[q].credit \in credits[Spender(q)]
          /\ redeemed' = redeemed \cup {RedeemID(q)}
          /\ credits' = [credits EXCEPT ![Spender(q)] = @ \ {resetter[q].credit}]
          /\ resets' = [resets EXCEPT ![Spender(q)] = @ + 1]
          /\ spent' = [spent EXCEPT ![<<resetter[q].cred, resetter[q].key>>] = @ + 1]
          /\ \E code \in {"reset", "lost"} : Answered(q, code)
       \/ /\ UNCHANGED upstream
          /\ \E code \in {"nothing_to_reset", "lost"}
                           \cup (IF RedeemID(q) \in redeemed THEN {"already_redeemed"}
                                 ELSE IF resetter[q].credit \notin credits[Spender(q)] THEN {"no_credit"}
                                 ELSE {}) : Answered(q, code)
    /\ UNCHANGED <<clock, quotaVars, attempts, attempt, accounts, clears, known>>

ClearAfterReset(q) ==
    /\ resetter[q].pc = "clear"
    /\ ClearQuotaState
    /\ resetter' = [resetter EXCEPT ![q].pc = "finish"]
    /\ UNCHANGED <<clock, flight, reader, attempts, attempt, accounts, clears, upstream, known>>

\* finishQuotaReset, and the request's answer.
FinishQuotaReset(q) ==
    /\ resetter[q].pc = "finish"
    /\ attempt' = [attempt EXCEPT ![q] = [closed |-> TRUE, response |-> resetter[q].response,
                                          expires |-> clock + AttemptTTL]]
    /\ accounts' = [accounts EXCEPT ![Identity(resetter[q].cred)] = NoOne]
    /\ resetter' = [resetter EXCEPT ![q].pc = "done"]
    /\ known' = [known EXCEPT ![Spender(q)] =
                   IF resetter[q].response = "reset" /\ resetter[q].seen > @ THEN resetter[q].seen ELSE @]
    /\ UNCHANGED <<clock, quotaVars, attempts, clears, upstream>>

AwaitAttempt(q) ==
    /\ resetter[q].pc = "wait"
    /\ attempt[resetter[q].leader].closed
    /\ resetter' = [resetter EXCEPT ![q].pc = "done",
                                    ![q].response = attempt[resetter[q].leader].response]
    /\ UNCHANGED <<clock, quotaVars, attempts, attempt, accounts, clears, upstream, known>>
----------------------------------------------------------------------------
Tick ==
    /\ clock < MaxClock
    /\ clock' = clock + 1
    /\ UNCHANGED <<quotaVars, resetVars, clears, upstream, known>>

ReaderStep(r) == Lookup(r) \/ FetchUsage(r) \/ Publish(r) \/ Follow(r)
ResetterStep(q) == \/ BeginQuotaReset(q) \/ ChooseCredit(q) \/ Consume(q) \/ ClearAfterReset(q)
                   \/ FinishQuotaReset(q) \/ AwaitAttempt(q)

Next ==
    \/ \E r \in Readers : (\E c \in Credentials : Read(r, c)) \/ ReaderStep(r)
    \/ \E q \in Resetters : (\E c \in Credentials, k \in Keys : Ask(q, c, k)) \/ ResetterStep(q)
    \/ Clear
    \/ Tick

Spec == Init /\ [][Next]_vars
----------------------------------------------------------------------------
Served(r) == reader[r].pc = "done" /\ reader[r].snap # None

\* A quota requested after a reset was answered with 200 comes from a fetch
\* that began after the upstream had applied that reset: no fetch that was
\* under way, joined or stored across the clearing of the cache brings older
\* numbers back.  Whether the upstream shows the reset by then is its own affair.
FetchedAfterReset == \A r \in Readers : Served(r) => reader[r].snap.after >= reader[r].floor

\* Unless it joined a fetch that was under way, a request is never served
\* numbers that were read a TTL or more before it.
ServedYoung ==
    \A r \in Readers : Served(r) /\ reader[r].leader = r
        => reader[r].snap.readAt + CacheTTL > reader[r].at

\* A request is served the quota of the account its credential holds now, not
\* that of the account the auth file held before.
OwnQuota == \A r \in Readers : Served(r) => reader[r].snap.account = AccountOf(r)

InProgress(q) == resetter[q].pc \in {"credits", "consume", "clear", "finish"}

\* One credential has one reset in progress, whatever is evicted or expires.
OneResetPerCredential ==
    \A p, q \in Resetters : InProgress(p) /\ InProgress(q) /\ resetter[p].cred = resetter[q].cred
        => p = q

\* Requests of one credential with one idempotency key spend one credit
\* between them, also when the answer to the first was lost or its attempt
\* was evicted or expired.
OneCreditPerKey == \A c \in Credentials, k \in Keys : spent[<<c, k>>] <= 1

\* No request waits for nothing: the flight or attempt it joined is settled or
\* its leader is still at it, also when the maps were cleared, the fetch failed
\* or the attempt was evicted.
NoOneAbandoned ==
    /\ \A r \in Readers : reader[r].pc = "wait" =>
          LET l == reader[r].leader
          IN  flight[l].closed \/ reader[l].pc \in {"fetch", "publish"}
    /\ \A q \in Resetters : resetter[q].pc = "wait" =>
          LET l == resetter[q].leader
          IN  attempt[l].closed \/ InProgress(l)
    /\ \A i \in Identities : accounts[i] # NoOne => InProgress(accounts[i])
=============================================================================
