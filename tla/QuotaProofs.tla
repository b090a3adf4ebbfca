---------------------------- MODULE QuotaProofs ----------------------------
(***************************************************************************)
(* What Quota's run checks on a small instance, proved for every set of    *)
(* credentials, requests and idempotency keys, and all lifetimes, sizes of *)
(* tables and bounds.                                                      *)
(***************************************************************************)
EXTENDS Quota, FiniteSetTheorems, TLAPS

USE SizesAreNaturals, RoomForOne, EntriesLast, SomeCredential, ThreadsDiffer
----------------------------------------------------------------------------
(***************************************************************************)
(* Types.                                                                  *)
(***************************************************************************)
LEMMA Identified == /\ Identities = Credentials
                    /\ \A c \in Credentials : Identity(c) = c /\ c[2] \in Accounts
BY DEF Identities, Identity, Accounts

\* The sizes of the two tables mean something.
Finite == IsFiniteSet(Cached) /\ IsFiniteSet(attempts)

Typed == TypeOK /\ Finite

\* A table that loses entries keeps within its capacity, ...
LEMMA Shrunk ==
  ASSUME NEW S, IsFiniteSet(S), NEW T \in SUBSET S, NEW cap \in Nat, Cardinality(S) <= cap
  PROVE  IsFiniteSet(T) /\ Cardinality(T) <= cap
<1>1. IsFiniteSet(T) /\ Cardinality(T) <= Cardinality(S)
  BY FS_Subset
<1>2. Cardinality(S) \in Nat /\ Cardinality(T) \in Nat
  BY <1>1, FS_CardinalityType
<1> QED
  BY <1>1, <1>2

\* ... and so does one that gains an entry when there is room for it.
LEMMA Grown ==
  ASSUME NEW S, IsFiniteSet(S), NEW x, NEW T \in SUBSET (S \cup {x}), NEW cap \in Nat,
         Cardinality(S) < cap
  PROVE  IsFiniteSet(T) /\ Cardinality(T) <= cap
<1>1. Cardinality(S) \in Nat
  BY FS_CardinalityType
<1>2. /\ IsFiniteSet(S \cup {x})
      /\ Cardinality(S \cup {x}) = Cardinality(S) \/ Cardinality(S \cup {x}) = Cardinality(S) + 1
  BY FS_AddElement
<1>3. Cardinality(S \cup {x}) \in Nat
  BY <1>2, FS_CardinalityType
<1> QED
  BY <1>1, <1>2, <1>3, Shrunk

\* One entry makes room for another.
LEMMA Relieved ==
  ASSUME NEW S, IsFiniteSet(S), NEW x \in S, NEW cap \in Nat, Cardinality(S) <= cap
  PROVE  IsFiniteSet(S \ {x}) /\ Cardinality(S \ {x}) < cap
<1>1. Cardinality(S) \in Nat
  BY FS_CardinalityType
<1>2. IsFiniteSet(S \ {x}) /\ Cardinality(S \ {x}) = Cardinality(S) - 1
  BY FS_RemoveElement
<1> QED
  BY <1>1, <1>2

LEMMA Incremented ==
  ASSUME NEW S, NEW f \in [S -> Nat], NEW x
  PROVE  [f EXCEPT ![x] = @ + 1] \in [S -> Nat]
<1>1. CASE x \in S
  BY <1>1
<1>2. CASE x \notin S
  <2>1. [f EXCEPT ![x] = f[x] + 1] = f
    BY <1>2
  <2> QED
    BY <2>1
<1> QED
  BY <1>1, <1>2

LEMMA TypedInit == Init => Typed
<1> SUFFICES ASSUME Init PROVE Typed
  OBVIOUS
<1>1. Someone \in Credentials
  BY DEF Someone
<1>2. Cached = {} /\ attempts = {}
  BY DEF Init, Cached
<1>3. Finite /\ Cardinality(Cached) <= CacheCap /\ Cardinality(attempts) <= AttemptCap
  BY <1>2, FS_EmptySet DEF Finite
<1>4. clock \in 0..MaxClock /\ clears \in 0..MaxClears /\ 0 \in 0..MaxCredits
  BY DEF Init
<1>5. flight \in [Readers -> Flights] /\ attempt \in [Resetters -> Attempts]
  BY DEF Init, Flights, Attempts
<1>6. reader \in [Readers -> ReaderStates]
  BY <1>1, <1>4 DEF Init, ReaderStates
<1>7. resetter \in [Resetters -> ResetterStates]
  BY <1>1, <1>4 DEF Init, ResetterStates
<1>8. /\ cache \in [Identities -> Entries \cup {None}]
      /\ accounts \in [Identities -> Resetters \cup {NoOne}]
  BY DEF Init
<1>9. /\ generation \in Nat /\ resets \in [Accounts -> Nat] /\ known \in [Accounts -> Nat]
      /\ credits \in [Accounts -> SUBSET (1..MaxCredits)]
      /\ spent \in [Credentials \X Keys -> Nat]
      /\ inflight \subseteq Readers
  BY DEF Init
<1> QED
  BY <1>2, <1>3, <1>4, <1>5, <1>6, <1>7, <1>8, <1>9 DEF Typed, TypeOK

\* The cache after a lookup has no more in it than before.
LEMMA UnexpiredTyped ==
  ASSUME Typed, NEW t \in Nat, cache' = Unexpired(t)
  PROVE  /\ cache' \in [Identities -> Entries \cup {None}]
         /\ IsFiniteSet(Cached') /\ Cardinality(Cached') <= CacheCap
<1>1. cache' \in [Identities -> Entries \cup {None}]
  BY DEF Typed, TypeOK, Unexpired
<1>2. Cached' \in SUBSET Cached
  BY DEF Cached, Unexpired
<1> QED
  BY <1>1, <1>2, Shrunk DEF Typed, TypeOK, Finite

LEMMA StoreTyped ==
  ASSUME Typed, NEW r \in Readers, reader[r].snap # None, Store(r)
  PROVE  /\ cache' \in [Identities -> Entries \cup {None}]
         /\ IsFiniteSet(Cached') /\ Cardinality(Cached') <= CacheCap
<1> DEFINE id == Identity(reader[r].cred)
           new == [snap |-> reader[r].snap, expires |-> ExpiresAt(r)]
<1>1. reader[r] \in ReaderStates
  BY DEF Typed, TypeOK
<1>2. id \in Identities /\ new \in Entries
  BY <1>1, Identified DEF ReaderStates, Entries, ExpiresAt
<1>3. PICK room \in Roomy : cache' = [room EXCEPT ![id] = new]
  BY DEF Store
<1>0. /\ cache \in [Identities -> Entries \cup {None}]
      /\ IsFiniteSet(Cached) /\ Cardinality(Cached) \in Nat /\ Cardinality(Cached) <= CacheCap
  BY FS_CardinalityType DEF Typed, TypeOK, Finite
<1> DEFINE kept == {i \in Identities : room[i] # None}
<1>4. room \in [Identities -> Entries \cup {None}] /\ IsFiniteSet(kept) /\ Cardinality(kept) < CacheCap
  <2>1. CASE Full(Cardinality(Cached), CacheCap)
    <3>1. PICK i \in Oldest : room = [cache EXCEPT ![i] = None]
      BY <1>3, <2>1 DEF Roomy
    <3>2. i \in Cached /\ i \in Identities
      BY <3>1 DEF Oldest, Cached
    <3>3. room \in [Identities -> Entries \cup {None}] /\ kept = Cached \ {i}
      BY <1>0, <3>1, <3>2 DEF Cached
    <3>4. IsFiniteSet(Cached \ {i}) /\ Cardinality(Cached \ {i}) < CacheCap
      BY <1>0, <3>2, Relieved
    <3> HIDE DEF kept
    <3> QED
      BY <3>3, <3>4
  <2>2. CASE ~Full(Cardinality(Cached), CacheCap)
    <3>1. room = cache /\ kept = Cached
      BY <1>3, <2>2 DEF Roomy, Cached
    <3> HIDE DEF kept
    <3> QED
      BY <1>0, <2>2, <3>1 DEF Full
  <2> QED
    BY <2>1, <2>2
<1>5. cache' \in [Identities -> Entries \cup {None}]
  BY <1>2, <1>3, <1>4
<1>6. Cached' \in SUBSET (kept \cup {id})
  BY <1>2, <1>3, <1>4 DEF Cached
<1> QED
  BY <1>4, <1>5, <1>6, Grown

LEMMA CachedUnchanged == UNCHANGED cache => UNCHANGED Cached
BY DEF Cached

LEMMA ReadersTyped ==
  ASSUME Typed, NEW r \in Readers, (\E c \in Credentials : Read(r, c)) \/ ReaderStep(r)
  PROVE  Typed'
<1> USE DEF Typed, TypeOK
<1>r. reader[r] \in ReaderStates
  OBVIOUS
<1>1. ASSUME NEW c \in Credentials, Read(r, c) PROVE Typed'
  <2>1. known[c[2]] \in Nat
    BY Identified
  <2>2. [reader[r] EXCEPT !.pc = "lookup", !.cred = c, !.at = clock, !.floor = known[c[2]]] \in ReaderStates
    BY <1>r, <2>1 DEF ReaderStates
  <2>3. reader' \in [Readers -> ReaderStates]
    BY <1>1, <2>2 DEF Read
  <2> QED
    BY <1>1, <2>3, CachedUnchanged DEF Read, resetVars, upstream, Finite
<1>2. ASSUME Lookup(r) PROVE Typed'
  <2>1. reader[r].at \in Nat /\ cache' = Unexpired(reader[r].at)
    BY <1>r, <1>2 DEF Lookup, ReaderStates
  <2>2. Identity(reader[r].cred) \in Identities
    BY <1>r, Identified DEF ReaderStates
  <2>3. reader' \in [Readers -> ReaderStates]
    <3>1. CASE reader' = [reader EXCEPT ![r].pc = "done",
                                        ![r].snap = Unexpired(reader[r].at)[Identity(reader[r].cred)].snap]
               /\ Unexpired(reader[r].at)[Identity(reader[r].cred)] # None
      <4>1. Unexpired(reader[r].at)[Identity(reader[r].cred)].snap \in Snapshots
        BY <2>2, <3>1 DEF Unexpired, Entries
      <4> QED
        BY <1>r, <3>1, <4>1 DEF ReaderStates
    <3>2. ASSUME NEW l \in Readers, reader' = [reader EXCEPT ![r].pc = "wait", ![r].leader = l]
          PROVE  reader' \in [Readers -> ReaderStates]
      BY <1>r, <3>2 DEF ReaderStates
    <3>3. CASE reader' = [reader EXCEPT ![r].pc = "fetch", ![r].gen = generation,
                                        ![r].after = resets[AccountOf(r)]]
      <4>1. resets[AccountOf(r)] \in Nat
        BY <1>r, Identified DEF AccountOf, ReaderStates
      <4> QED
        BY <1>r, <3>3, <4>1 DEF ReaderStates
    <3> QED
      BY <1>2, <3>1, <3>2, <3>3 DEF Lookup
  <2>4. inflight' \subseteq Readers
    BY <1>2 DEF Lookup
  <2> QED
    BY <1>2, <2>1, <2>3, <2>4, UnexpiredTyped DEF Lookup, resetVars, upstream, Finite
<1>3. ASSUME FetchUsage(r) PROVE Typed'
  <2>1. AccountOf(r) \in Accounts
    BY <1>r, Identified DEF AccountOf, ReaderStates
  <2>2. [account |-> AccountOf(r), after |-> reader[r].after, readAt |-> clock] \in Snapshots
    BY <1>r, <2>1 DEF Snapshots, ReaderStates
  <2>3. PICK snap \in Snapshots \cup {None} : reader' = [reader EXCEPT ![r].pc = "publish", ![r].snap = snap]
    BY <1>3, <2>2 DEF FetchUsage
  <2>4. reader' \in [Readers -> ReaderStates]
    BY <1>r, <2>3 DEF ReaderStates
  <2> QED
    BY <1>3, <2>4, CachedUnchanged DEF FetchUsage, resetVars, upstream, Finite
<1>4. ASSUME Publish(r) PROVE Typed'
  <2>1. /\ cache' \in [Identities -> Entries \cup {None}]
        /\ IsFiniteSet(Cached') /\ Cardinality(Cached') <= CacheCap
    BY <1>4, StoreTyped, CachedUnchanged DEF Publish, Keeps, Finite
  <2>2. flight' \in [Readers -> Flights]
    BY <1>r, <1>4 DEF Publish, Settle, Flights, ReaderStates
  <2>3. reader' \in [Readers -> ReaderStates]
    BY <1>r, <1>4 DEF Publish, Settle, ReaderStates
  <2>4. inflight' \subseteq Readers
    BY <1>4 DEF Publish, Settle
  <2> QED
    BY <1>4, <2>1, <2>2, <2>3, <2>4 DEF Publish, Settle, resetVars, upstream, Finite
<1>5. ASSUME Follow(r) PROVE Typed'
  <2>1. flight[reader[r].leader].snap \in Snapshots \cup {None}
    BY <1>r DEF Flights, ReaderStates
  <2>2. reader' \in [Readers -> ReaderStates]
    BY <1>r, <1>5, <2>1 DEF Follow, ReaderStates
  <2> QED
    BY <1>5, <2>2, CachedUnchanged DEF Follow, resetVars, upstream, Finite
<1> QED
  BY <1>1, <1>2, <1>3, <1>4, <1>5 DEF ReaderStep

LEMMA ClearTyped == ASSUME Typed, ClearQuotaState
  PROVE  /\ generation' \in Nat
         /\ cache' \in [Identities -> Entries \cup {None}]
         /\ inflight' \subseteq Readers
         /\ IsFiniteSet(Cached') /\ Cardinality(Cached') <= CacheCap
<1>1. Cached' = {}
  BY DEF ClearQuotaState, Cached
<1> QED
  BY <1>1, FS_EmptySet DEF ClearQuotaState, Typed, TypeOK

LEMMA ConsumeTyped ==
  ASSUME Typed, NEW q \in Resetters, Consume(q)
  PROVE  /\ resets' \in [Accounts -> Nat]
         /\ credits' \in [Accounts -> SUBSET (1..MaxCredits)]
         /\ spent' \in [Credentials \X Keys -> Nat]
<1>1. /\ resets \in [Accounts -> Nat]
      /\ credits \in [Accounts -> SUBSET (1..MaxCredits)]
      /\ spent \in [Credentials \X Keys -> Nat]
  BY DEF Typed, TypeOK
<1>2. /\ credits' = credits \/ credits' = [credits EXCEPT ![Spender(q)] = @ \ {resetter[q].credit}]
      /\ resets' = resets \/ resets' = [resets EXCEPT ![Spender(q)] = @ + 1]
      /\ spent' = spent \/ spent' = [spent EXCEPT ![<<resetter[q].cred, resetter[q].key>>] = @ + 1]
  BY DEF Consume, upstream
<1>3. spent' \in [Credentials \X Keys -> Nat]
  <2> DEFINE Pairs == Credentials \X Keys
             id == <<resetter[q].cred, resetter[q].key>>
  <2>1. spent \in [Pairs -> Nat] /\ (spent' = spent \/ spent' = [spent EXCEPT ![id] = @ + 1])
    BY <1>1, <1>2
  <2> HIDE DEF Pairs, id
  <2>2. spent' \in [Pairs -> Nat]
    BY <2>1, Incremented
  <2> QED
    BY <2>2 DEF Pairs
<1>4. resets' \in [Accounts -> Nat]
  BY <1>1, <1>2, Incremented
<1>5. credits' \in [Accounts -> SUBSET (1..MaxCredits)]
  BY <1>1, <1>2
<1> QED
  BY <1>3, <1>4, <1>5

LEMMA ResettersTyped ==
  ASSUME Typed, NEW q \in Resetters,
         (\E c \in Credentials, k \in Keys : Ask(q, c, k)) \/ ResetterStep(q)
  PROVE  Typed'
<1> USE DEF Typed, TypeOK
<1>q. resetter[q] \in ResetterStates /\ Spender(q) \in Accounts
  BY Identified DEF ResetterStates, Spender
<1>1. ASSUME NEW c \in Credentials, NEW k \in Keys, Ask(q, c, k) PROVE Typed'
  <2>1. resetter' \in [Resetters -> ResetterStates]
    BY <1>q, <1>1 DEF Ask, ResetterStates
  <2> QED
    BY <1>1, <2>1, CachedUnchanged DEF Ask, quotaVars, upstream, Finite
<1>2. ASSUME BeginQuotaReset(q) PROVE Typed'
  <2> DEFINE live == UnexpiredAttempts(resetter[q].at)
  <2>1. /\ live \in SUBSET attempts /\ live \in SUBSET Resetters
        /\ IsFiniteSet(live) /\ Cardinality(live) <= AttemptCap /\ Cardinality(live) \in Nat
    <3>1. live \in SUBSET attempts
      BY DEF UnexpiredAttempts
    <3>2. IsFiniteSet(live) /\ Cardinality(live) <= AttemptCap
      BY <3>1, Shrunk DEF Finite
    <3> QED
      BY <3>1, <3>2, FS_CardinalityType
  <2> HIDE DEF live
  <2> DEFINE WithinCap(S) == S \in SUBSET Resetters /\ IsFiniteSet(S) /\ Cardinality(S) <= AttemptCap
  <2>2. WithinCap(attempts')
    <3>1. CASE attempts' = live
      BY <2>1, <3>1
    <3>2. CASE attempts' = live \cup {q} /\ ~Full(Cardinality(live), AttemptCap)
      <4>1. Cardinality(live) < AttemptCap
        BY <2>1, <3>2 DEF Full
      <4>2. attempts' \in SUBSET (live \cup {q})
        BY <3>2
      <4> QED
        BY <2>1, <4>1, <4>2, Grown
    <3>3. ASSUME NEW l \in live, attempts' = (live \ {l}) \cup {q}
          PROVE  WithinCap(attempts')
      <4>1. IsFiniteSet(live \ {l}) /\ Cardinality(live \ {l}) < AttemptCap
        BY <2>1, Relieved
      <4>2. attempts' \in SUBSET ((live \ {l}) \cup {q})
        BY <3>3
      <4> QED
        BY <2>1, <3>3, <4>1, <4>2, Grown
    <3>4. \A l \in Evictable(live) : l \in live
      BY DEF Evictable
    <3> QED
      BY <1>2, <3>1, <3>2, <3>3, <3>4 DEF BeginQuotaReset, live
  <2>3. resetter' \in [Resetters -> ResetterStates]
    <3>1. ASSUME NEW l \in Resetters, resetter' = [resetter EXCEPT ![q].pc = "wait", ![q].leader = l]
          PROVE  resetter' \in [Resetters -> ResetterStates]
      BY <1>q, <3>1 DEF ResetterStates
    <3>2. ASSUME NEW why \in {"in_progress", "busy"},
                 resetter' = [resetter EXCEPT ![q].pc = "done", ![q].response = why]
          PROVE  resetter' \in [Resetters -> ResetterStates]
      BY <1>q, <3>2 DEF ResetterStates, Responses
    <3>3. CASE resetter' = [resetter EXCEPT ![q].pc = "credits"]
      BY <1>q, <3>3 DEF ResetterStates
    <3> QED
      BY <1>2, <2>1, <3>1, <3>2, <3>3 DEF BeginQuotaReset, live
  <2>4. accounts' \in [Identities -> Resetters \cup {NoOne}]
    BY <1>2 DEF BeginQuotaReset
  <2> QED
    BY <1>2, <2>2, <2>3, <2>4, CachedUnchanged DEF BeginQuotaReset, quotaVars, upstream, Finite
<1>3. ASSUME ChooseCredit(q) PROVE Typed'
  <2>1. resetter' \in [Resetters -> ResetterStates]
    <3>1. ASSUME NEW why \in {"upstream_failed", "no_credit"}, Finishing(q, why)
          PROVE  resetter' \in [Resetters -> ResetterStates]
      BY <1>q, <3>1 DEF Finishing, ResetterStates, Responses
    <3>2. ASSUME NEW n \in credits[Spender(q)],
                 resetter' = [resetter EXCEPT ![q].pc = "consume", ![q].credit = n]
          PROVE  resetter' \in [Resetters -> ResetterStates]
      <4>1. n \in 0..MaxCredits
        BY <1>q
      <4> QED
        BY <1>q, <3>2, <4>1 DEF ResetterStates
    <3> QED
      BY <1>3, <3>1, <3>2 DEF ChooseCredit
  <2> QED
    BY <1>3, <2>1, CachedUnchanged DEF ChooseCredit, quotaVars, upstream, Finite
<1>4. ASSUME Consume(q) PROVE Typed'
  <2>1. /\ resets' \in [Accounts -> Nat]
        /\ credits' \in [Accounts -> SUBSET (1..MaxCredits)]
        /\ spent' \in [Credentials \X Keys -> Nat]
    BY <1>4, ConsumeTyped
  <2>2. resetter' \in [Resetters -> ResetterStates]
    <3>1. PICK code \in {"reset", "lost", "nothing_to_reset", "already_redeemed", "no_credit"} : Answered(q, code)
      BY <1>4 DEF Consume
    <3>2. resets'[Spender(q)] \in Nat
      BY <1>q, <2>1
    <3> QED
      BY <1>q, <3>1, <3>2 DEF Answered, ResetterStates, Responses
  <2> QED
    BY <1>4, <2>1, <2>2, CachedUnchanged DEF Consume, quotaVars, Finite
<1>5. ASSUME ClearAfterReset(q) PROVE Typed'
  <2>1. resetter' \in [Resetters -> ResetterStates]
    BY <1>q, <1>5 DEF ClearAfterReset, ResetterStates
  <2> QED
    BY <1>5, <2>1, ClearTyped DEF ClearAfterReset, upstream, Finite
<1>6. ASSUME FinishQuotaReset(q) PROVE Typed'
  <2>1. resetter' \in [Resetters -> ResetterStates]
    BY <1>q, <1>6 DEF FinishQuotaReset, ResetterStates
  <2>2. attempt' \in [Resetters -> Attempts]
    BY <1>q, <1>6 DEF FinishQuotaReset, Attempts, ResetterStates
  <2>3. accounts' \in [Identities -> Resetters \cup {NoOne}] /\ known' \in [Accounts -> Nat]
    BY <1>q, <1>6 DEF FinishQuotaReset, ResetterStates
  <2> QED
    BY <1>6, <2>1, <2>2, <2>3, CachedUnchanged DEF FinishQuotaReset, quotaVars, upstream, Finite
<1>7. ASSUME AwaitAttempt(q) PROVE Typed'
  <2>1. attempt[resetter[q].leader].response \in Responses \cup {None}
    BY <1>q DEF Attempts, ResetterStates
  <2>2. resetter' \in [Resetters -> ResetterStates]
    BY <1>q, <1>7, <2>1 DEF AwaitAttempt, ResetterStates
  <2> QED
    BY <1>7, <2>2, CachedUnchanged DEF AwaitAttempt, quotaVars, upstream, Finite
<1> QED
  BY <1>1, <1>2, <1>3, <1>4, <1>5, <1>6, <1>7 DEF ResetterStep

LEMMA TypedStep == Typed /\ [Next]_vars => Typed'
<1> SUFFICES ASSUME Typed, [Next]_vars PROVE Typed'
  OBVIOUS
<1>1. CASE Clear
  BY <1>1, ClearTyped DEF Clear, Typed, TypeOK, Finite, resetVars, upstream
<1>2. CASE Tick
  BY <1>2, CachedUnchanged DEF Tick, Typed, TypeOK, Finite, quotaVars, resetVars, upstream
<1>3. CASE UNCHANGED vars
  BY <1>3, CachedUnchanged DEF vars, Typed, TypeOK, Finite, quotaVars, resetVars, upstream
<1> QED
  BY <1>1, <1>2, <1>3, ReadersTyped, ResettersTyped DEF Next

LEMMA AlwaysTyped == Spec => []Typed
BY TypedInit, TypedStep, PTL DEF Spec

\* Among what TypeOK says: neither table exceeds its capacity, whatever expires,
\* is evicted or cleared in between.
THEOREM TypeCorrect == Spec => []TypeOK
<1>1. Typed => TypeOK
  BY DEF Typed
<1> QED
  BY <1>1, AlwaysTyped, PTL
----------------------------------------------------------------------------
(***************************************************************************)
(* Resets.                                                                 *)
(***************************************************************************)
\* What is not a resetter's step leaves resets and the upstream alone.
LEMMA OthersLeaveResets ==
  ASSUME [Next]_vars,
         ~ \E q \in Resetters : (\E c \in Credentials, k \in Keys : Ask(q, c, k)) \/ ResetterStep(q)
  PROVE  UNCHANGED <<resetVars, upstream, known>>
<1>1. CASE Clear \/ Tick \/ UNCHANGED vars
  BY <1>1 DEF Clear, Tick, vars, resetVars
<1>2. ASSUME NEW r \in Readers, (\E c \in Credentials : Read(r, c)) \/ ReaderStep(r)
      PROVE  UNCHANGED <<resetVars, upstream, known>>
  BY <1>2 DEF ReaderStep, Read, Lookup, FetchUsage, Publish, Settle, Follow, resetVars
<1> QED
  BY <1>1, <1>2 DEF Next

\* The table of accounts names exactly the resetters that are in progress.
AccountsHeld ==
    /\ \A q \in Resetters : InProgress(q) => accounts[Identity(resetter[q].cred)] = q
    /\ \A i \in Identities : accounts[i] # NoOne =>
          InProgress(accounts[i]) /\ Identity(resetter[accounts[i]].cred) = i

\* Attempts in the table, and those waited for, are in progress or finished.
AttemptsLed ==
    /\ \A l \in attempts : attempt[l].closed \/ InProgress(l)
    /\ \A q \in Resetters : resetter[q].pc = "wait" =>
          attempt[resetter[q].leader].closed \/ InProgress(resetter[q].leader)

\* A step of one resetter that only moves it on.
Moves(q, from, to) ==
    /\ resetter[q].pc \in from /\ resetter'[q].pc \in to
    /\ resetter' = [resetter EXCEPT ![q] = resetter'[q]]
    /\ resetter'[q].leader = resetter[q].leader
    /\ resetter'[q].cred = resetter[q].cred /\ resetter'[q].key = resetter[q].key

LEMMA ResetterMoves ==
  ASSUME Typed, NEW q \in Resetters
  PROVE  /\ ChooseCredit(q) => Moves(q, {"credits"}, {"consume", "finish"})
         /\ Consume(q) => Moves(q, {"consume"}, {"clear", "finish"})
         /\ ClearAfterReset(q) => Moves(q, {"clear"}, {"finish"})
         /\ FinishQuotaReset(q) => Moves(q, {"finish"}, {"done"})
         /\ AwaitAttempt(q) => Moves(q, {"wait"}, {"done"})
<1>q. resetter \in [Resetters -> ResetterStates] /\ resetter[q] \in ResetterStates
  BY DEF Typed, TypeOK
<1>1. ChooseCredit(q) => Moves(q, {"credits"}, {"consume", "finish"})
  BY <1>q DEF ChooseCredit, Finishing, Moves, ResetterStates
<1>2. Consume(q) => Moves(q, {"consume"}, {"clear", "finish"})
  <2>1. Consume(q) => resetter[q].pc = "consume" /\ \E code : Answered(q, code)
    BY DEF Consume
  <2>2. ASSUME NEW code, Answered(q, code), resetter[q].pc = "consume"
        PROVE  Moves(q, {"consume"}, {"clear", "finish"})
    BY <1>q, <2>2 DEF Answered, Moves, ResetterStates
  <2> QED
    BY <2>1, <2>2
<1>3. ClearAfterReset(q) => Moves(q, {"clear"}, {"finish"})
  BY <1>q DEF ClearAfterReset, Moves, ResetterStates
<1>4. FinishQuotaReset(q) => Moves(q, {"finish"}, {"done"})
  <2>1. SUFFICES ASSUME FinishQuotaReset(q) PROVE Moves(q, {"finish"}, {"done"})
    OBVIOUS
  <2>2. resetter[q].pc = "finish" /\ resetter' = [resetter EXCEPT ![q].pc = "done"]
    BY <2>1 DEF FinishQuotaReset
  <2> QED
    BY <1>q, <2>2 DEF Moves, ResetterStates
<1>5. AwaitAttempt(q) => Moves(q, {"wait"}, {"done"})
  <2>1. SUFFICES ASSUME AwaitAttempt(q) PROVE Moves(q, {"wait"}, {"done"})
    OBVIOUS
  <2>2. PICK why \in {attempt[resetter[q].leader].response} :
           resetter[q].pc = "wait" /\ resetter' = [resetter EXCEPT ![q].pc = "done", ![q].response = why]
    BY <2>1 DEF AwaitAttempt
  <2> QED
    BY <1>q, <2>2 DEF Moves, ResetterStates
<1> QED
  BY <1>1, <1>2, <1>3, <1>4, <1>5

\* The accounts that are held depend only on who is in progress.
LEMMA StillHeld ==
  ASSUME Typed, AccountsHeld, NEW q \in Resetters, UNCHANGED accounts,
         \A p \in Resetters \ {q} : resetter'[p] = resetter[p],
         InProgress(q)' <=> InProgress(q),
         InProgress(q) => resetter'[q].cred = resetter[q].cred
  PROVE  AccountsHeld'
<1>1. accounts \in [Identities -> Resetters \cup {NoOne}]
  BY DEF Typed, TypeOK
<1>2. \A p \in Resetters : /\ InProgress(p)' <=> InProgress(p)
                          /\ InProgress(p) => Identity(resetter'[p].cred) = Identity(resetter[p].cred)
  BY DEF InProgress
<1> QED
  BY <1>1, <1>2 DEF AccountsHeld, InProgress

LEMMA AccountsStep ==
  ASSUME Typed, AccountsHeld, [Next]_vars
  PROVE  AccountsHeld'
<1>t. /\ resetter \in [Resetters -> ResetterStates]
      /\ accounts \in [Identities -> Resetters \cup {NoOne}]
      /\ \A q \in Resetters : Identity(resetter[q].cred) \in Identities
  BY Identified DEF Typed, TypeOK, ResetterStates
<1>1. ASSUME NEW q \in Resetters, NEW c \in Credentials, NEW k \in Keys, Ask(q, c, k)
      PROVE  AccountsHeld'
  <2>1. /\ resetter'[q].pc = "begin" /\ resetter[q].pc = "idle" /\ UNCHANGED accounts
        /\ \A p \in Resetters \ {q} : resetter'[p] = resetter[p]
    BY <1>t, <1>1 DEF Ask, ResetterStates
  <2> QED
    BY <2>1, StillHeld DEF InProgress
<1>2. ASSUME NEW q \in Resetters, BeginQuotaReset(q) PROVE AccountsHeld'
  <2> DEFINE i == Identity(resetter[q].cred)
  <2>0. resetter[q].pc = "begin" /\ \A p \in Resetters \ {q} : resetter'[p] = resetter[p]
    <3>1. ASSUME NEW l, resetter' = [resetter EXCEPT ![q].pc = "wait", ![q].leader = l]
          PROVE  \A p \in Resetters \ {q} : resetter'[p] = resetter[p]
      BY <1>t, <3>1
    <3>2. ASSUME NEW why, resetter' = [resetter EXCEPT ![q].pc = "done", ![q].response = why]
          PROVE  \A p \in Resetters \ {q} : resetter'[p] = resetter[p]
      BY <1>t, <3>2
    <3>3. ASSUME resetter' = [resetter EXCEPT ![q].pc = "credits"]
          PROVE  \A p \in Resetters \ {q} : resetter'[p] = resetter[p]
      BY <1>t, <3>3
    <3>4. \/ \E l : resetter' = [resetter EXCEPT ![q].pc = "wait", ![q].leader = l]
          \/ \E why : resetter' = [resetter EXCEPT ![q].pc = "done", ![q].response = why]
          \/ resetter' = [resetter EXCEPT ![q].pc = "credits"]
      BY <1>2 DEF BeginQuotaReset
    <3> QED
      BY <1>2, <3>1, <3>2, <3>3, <3>4 DEF BeginQuotaReset
  <2>1. CASE UNCHANGED accounts /\ resetter'[q].pc \in {"wait", "done"}
    BY <2>0, <2>1, StillHeld DEF InProgress
  <2>2. CASE accounts[i] = NoOne /\ accounts' = [accounts EXCEPT ![i] = q]
             /\ resetter' = [resetter EXCEPT ![q].pc = "credits"]
    <3>1. resetter'[q].pc = "credits" /\ resetter'[q].cred = resetter[q].cred
      BY <1>t, <2>2 DEF ResetterStates
    <3>2. /\ InProgress(q)'
          /\ \A p \in Resetters \ {q} : InProgress(p)' <=> InProgress(p)
      BY <2>0, <3>1 DEF InProgress
    <3>3. ASSUME NEW p \in Resetters, InProgress(p)'
          PROVE  accounts'[Identity(resetter'[p].cred)] = p
      BY <1>t, <2>0, <2>2, <3>1, <3>2, <3>3 DEF AccountsHeld
    <3>4. ASSUME NEW j \in Identities, accounts'[j] # NoOne
          PROVE  InProgress(accounts[j])' /\ Identity(resetter'[accounts'[j]].cred) = j
      <4>1. CASE j = i
        BY <1>t, <2>2, <3>1, <4>1 DEF InProgress
      <4>2. CASE j # i
        <5>1. /\ accounts'[j] = accounts[j] /\ accounts[j] \in Resetters
              /\ InProgress(accounts[j]) /\ Identity(resetter[accounts[j]].cred) = j
          BY <1>t, <2>2, <3>4, <4>2 DEF AccountsHeld
        <5>2. accounts[j] # q
          BY <2>0, <5>1 DEF InProgress
        <5> QED
          BY <2>0, <5>1, <5>2 DEF InProgress
      <4> QED
        BY <4>1, <4>2 DEF InProgress
    <3> QED
      BY <3>3, <3>4 DEF AccountsHeld, InProgress
  <2>3. \/ UNCHANGED accounts /\ resetter'[q].pc \in {"wait", "done"}
        \/ accounts[i] = NoOne /\ accounts' = [accounts EXCEPT ![i] = q]
             /\ resetter' = [resetter EXCEPT ![q].pc = "credits"]
    BY <1>t, <1>2 DEF BeginQuotaReset, Busy, ResetterStates
  <2> QED
    BY <2>1, <2>2, <2>3
<1>3. ASSUME NEW q \in Resetters, ChooseCredit(q) \/ Consume(q) \/ ClearAfterReset(q)
      PROVE  AccountsHeld'
  <2>1. Moves(q, {"credits", "consume", "clear"}, {"consume", "clear", "finish"})
    BY <1>3, ResetterMoves DEF Moves
  <2>2. UNCHANGED accounts
    BY <1>3 DEF ChooseCredit, Consume, ClearAfterReset
  <2>3. \A p \in Resetters \ {q} : resetter'[p] = resetter[p]
    BY <1>t, <2>1 DEF Moves
  <2> QED
    BY <2>1, <2>2, <2>3, StillHeld DEF InProgress, Moves
<1>4. ASSUME NEW q \in Resetters, FinishQuotaReset(q) PROVE AccountsHeld'
  <2> DEFINE i == Identity(resetter[q].cred)
  <2>1. /\ resetter[q].pc = "finish" /\ resetter'[q].pc = "done"
        /\ \A p \in Resetters \ {q} : resetter'[p] = resetter[p]
    BY <1>t, <1>4, ResetterMoves DEF Moves
  <2>2. accounts' = [accounts EXCEPT ![i] = NoOne]
    BY <1>4 DEF FinishQuotaReset
  <2>3. /\ accounts[i] = q /\ ~InProgress(q)'
        /\ \A p \in Resetters \ {q} : InProgress(p)' <=> InProgress(p)
    BY <2>1 DEF InProgress, AccountsHeld
  <2>4. ASSUME NEW p \in Resetters, InProgress(p)'
        PROVE  accounts'[Identity(resetter'[p].cred)] = p
    BY <1>t, <2>1, <2>2, <2>3, <2>4 DEF AccountsHeld
  <2>5. ASSUME NEW j \in Identities, accounts'[j] # NoOne
        PROVE  InProgress(accounts[j])' /\ Identity(resetter'[accounts'[j]].cred) = j
    <3>1. j # i /\ accounts'[j] = accounts[j] /\ accounts[j] \in Resetters
      BY <1>t, <2>2, <2>5
    <3>2. InProgress(accounts[j]) /\ Identity(resetter[accounts[j]].cred) = j
      BY <2>5, <3>1 DEF AccountsHeld
    <3>3. accounts[j] # q
      BY <3>1, <3>2
    <3> QED
      BY <2>1, <3>1, <3>2, <3>3 DEF InProgress
  <2> QED
    BY <2>4, <2>5 DEF AccountsHeld, InProgress
<1>5. ASSUME NEW q \in Resetters, AwaitAttempt(q) PROVE AccountsHeld'
  <2>1. Moves(q, {"wait"}, {"done"}) /\ UNCHANGED accounts
    BY <1>5, ResetterMoves DEF AwaitAttempt
  <2>2. \A p \in Resetters \ {q} : resetter'[p] = resetter[p]
    BY <1>t, <2>1 DEF Moves
  <2> QED
    BY <2>1, <2>2, StillHeld DEF InProgress, Moves
<1>6. CASE UNCHANGED resetVars
  BY <1>6 DEF AccountsHeld, InProgress, resetVars
<1> QED
  BY <1>1, <1>2, <1>3, <1>4, <1>5, <1>6, OthersLeaveResets DEF ResetterStep

LEMMA AccountsInit == Init => AccountsHeld
BY DEF Init, AccountsHeld, InProgress

LEMMA AlwaysHeld == Spec => []AccountsHeld
<1>1. Typed /\ AccountsHeld /\ [Next]_vars => AccountsHeld'
  BY AccountsStep
<1> QED
  BY <1>1, AccountsInit, AlwaysTyped, PTL DEF Spec

\* One reset at a time for a credential, although the attempt of the one in
\* progress may be joined and that of a finished one expire or be evicted.
THEOREM ResetsExclude == Spec => []OneResetPerCredential
<1>1. Typed /\ AccountsHeld => OneResetPerCredential
  BY DEF AccountsHeld, OneResetPerCredential, Identity
<1> QED
  BY <1>1, AlwaysHeld, AlwaysTyped, PTL

\* A redeem_request_id that the upstream has not seen has cost nothing.
PaidOnce == \A ck \in Credentials \X Keys :
    spent[ck] <= 1 /\ (ck \notin redeemed => spent[ck] = 0)

LEMMA PaidStep ==
  ASSUME Typed, PaidOnce, [Next]_vars
  PROVE  PaidOnce'
<1>1. ASSUME NEW q \in Resetters, Consume(q), ~ UNCHANGED upstream PROVE PaidOnce'
  <2> DEFINE id == <<resetter[q].cred, resetter[q].key>>
             Pairs == Credentials \X Keys
  <2>1. id \notin redeemed /\ redeemed' = redeemed \cup {id} /\ spent' = [spent EXCEPT ![id] = @ + 1]
    BY <1>1 DEF Consume, RedeemID, Identity
  <2>2. spent \in [Pairs -> Nat]
    BY DEF Typed, TypeOK
  <2>3. \A ck \in Pairs : spent[ck] <= 1 /\ (ck \notin redeemed => spent[ck] = 0)
    BY DEF PaidOnce
  <2> HIDE DEF id, Pairs
  <2>4. \A ck \in Pairs : spent'[ck] <= 1 /\ (ck \notin redeemed' => spent'[ck] = 0)
    BY <2>1, <2>2, <2>3
  <2> QED
    BY <2>4 DEF PaidOnce, Pairs
<1>2. CASE UNCHANGED upstream
  BY <1>2 DEF PaidOnce, upstream
<1>3. ASSUME NEW q \in Resetters, (\E c \in Credentials, k \in Keys : Ask(q, c, k)) \/ ResetterStep(q),
             ~ Consume(q)
      PROVE  UNCHANGED upstream
  BY <1>3 DEF ResetterStep, Ask, BeginQuotaReset, ChooseCredit, ClearAfterReset, FinishQuotaReset,
             AwaitAttempt
<1> QED
  BY <1>1, <1>2, <1>3, OthersLeaveResets DEF ResetterStep

\* Lost answers, attempts that expired or were evicted, and requests at once:
\* a credential's idempotency key costs one credit.
THEOREM CreditsSpentOnce == Spec => []OneCreditPerKey
<1>1. Init => PaidOnce
  BY DEF Init, PaidOnce
<1>2. Typed /\ PaidOnce /\ [Next]_vars => PaidOnce'
  BY PaidStep
<1>3. PaidOnce => OneCreditPerKey
  BY DEF PaidOnce, OneCreditPerKey
<1> QED
  BY <1>1, <1>2, <1>3, AlwaysTyped, PTL DEF Spec
----------------------------------------------------------------------------
(***************************************************************************)
(* Readers and the flights they share.                                     *)
(***************************************************************************)
\* What one step does to the reader that takes it.
Alone(r) == \A p \in Readers \ {r} : reader'[p] = reader[p]
Goes(r, from, to) == reader[r].pc = from /\ reader'[r].pc = to
SameRead(r) == /\ reader'[r].cred = reader[r].cred /\ reader'[r].at = reader[r].at
               /\ reader'[r].floor = reader[r].floor
SameFlight(r) == /\ reader'[r].leader = reader[r].leader /\ reader'[r].gen = reader[r].gen
                 /\ reader'[r].after = reader[r].after

Hit(r) == Unexpired(reader[r].at)[Identity(reader[r].cred)]
Answer(r) == [account |-> AccountOf(r), after |-> reader[r].after, readAt |-> clock]

LEMMA ReadMoves ==
  ASSUME Typed, NEW r \in Readers, NEW c \in Credentials, Read(r, c)
  PROVE  /\ Alone(r) /\ Goes(r, "idle", "lookup") /\ SameFlight(r)
         /\ reader'[r].cred = c /\ reader'[r].at = clock /\ reader'[r].floor = known[c[2]]
         /\ UNCHANGED <<generation, cache, inflight, flight>>
BY DEF Typed, TypeOK, ReaderStates, Read, Alone, Goes, SameFlight

LEMMA LookupMoves ==
  ASSUME Typed, NEW r \in Readers, Lookup(r)
  PROVE  /\ Alone(r) /\ SameRead(r)
         /\ cache' = Unexpired(reader[r].at) /\ UNCHANGED <<generation, flight>>
         /\ \/ /\ Goes(r, "lookup", "done") /\ SameFlight(r) /\ UNCHANGED inflight
               /\ Hit(r) # None /\ reader'[r].snap = Hit(r).snap
            \/ /\ Goes(r, "lookup", "wait") /\ UNCHANGED inflight
               /\ \E l \in Readers : Leads(l, r) /\ reader'[r].leader = l
               /\ reader'[r].gen = reader[r].gen
            \/ /\ Goes(r, "lookup", "fetch") /\ inflight' = inflight \cup {r}
               /\ reader'[r].leader = reader[r].leader /\ reader'[r].gen = generation
               /\ reader'[r].after = resets[AccountOf(r)]
<1> DEFINE Moved == Alone(r) /\ SameRead(r)
<1>r. reader \in [Readers -> ReaderStates] /\ reader[r] \in ReaderStates
  BY DEF Typed, TypeOK
<1>0. reader[r].pc = "lookup" /\ cache' = Unexpired(reader[r].at) /\ UNCHANGED <<generation, flight>>
  BY DEF Lookup
<1>1. ASSUME NEW snap, reader' = [reader EXCEPT ![r].pc = "done", ![r].snap = snap]
      PROVE  Moved /\ Goes(r, "lookup", "done") /\ SameFlight(r) /\ reader'[r].snap = snap
  BY <1>r, <1>0, <1>1 DEF ReaderStates, Alone, SameRead, Goes, SameFlight
<1>2. ASSUME NEW l, reader' = [reader EXCEPT ![r].pc = "wait", ![r].leader = l]
      PROVE  Moved /\ Goes(r, "lookup", "wait") /\ reader'[r].leader = l /\ reader'[r].gen = reader[r].gen
  BY <1>r, <1>0, <1>2 DEF ReaderStates, Alone, SameRead, Goes
<1>3. ASSUME NEW n, reader' = [reader EXCEPT ![r].pc = "fetch", ![r].gen = generation, ![r].after = n]
      PROVE  /\ Moved /\ Goes(r, "lookup", "fetch")
             /\ reader'[r].leader = reader[r].leader /\ reader'[r].gen = generation
             /\ reader'[r].after = n
  BY <1>r, <1>0, <1>3 DEF ReaderStates, Alone, SameRead, Goes
<1>4. \/ /\ Hit(r) # None /\ UNCHANGED inflight
         /\ reader' = [reader EXCEPT ![r].pc = "done", ![r].snap = Hit(r).snap]
      \/ /\ \E l \in Readers : /\ Leads(l, r)
                               /\ reader' = [reader EXCEPT ![r].pc = "wait", ![r].leader = l]
         /\ UNCHANGED inflight
      \/ /\ reader' = [reader EXCEPT ![r].pc = "fetch", ![r].gen = generation,
                                      ![r].after = resets[AccountOf(r)]]
         /\ inflight' = inflight \cup {r}
  BY DEF Lookup, Hit
<1> HIDE DEF Moved
<1>5. CASE /\ Hit(r) # None /\ UNCHANGED inflight
           /\ reader' = [reader EXCEPT ![r].pc = "done", ![r].snap = Hit(r).snap]
  BY <1>0, <1>1, <1>5 DEF Moved
<1>6. ASSUME NEW l \in Readers, Leads(l, r), UNCHANGED inflight,
             reader' = [reader EXCEPT ![r].pc = "wait", ![r].leader = l]
      PROVE  /\ Moved /\ Goes(r, "lookup", "wait") /\ UNCHANGED inflight
             /\ \E m \in Readers : Leads(m, r) /\ reader'[r].leader = m
             /\ reader'[r].gen = reader[r].gen
  BY <1>2, <1>6
<1>7. CASE /\ reader' = [reader EXCEPT ![r].pc = "fetch", ![r].gen = generation,
                                       ![r].after = resets[AccountOf(r)]]
           /\ inflight' = inflight \cup {r}
  BY <1>0, <1>3, <1>7 DEF Moved
<1> QED
  BY <1>0, <1>4, <1>5, <1>6, <1>7 DEF Moved

LEMMA FetchMoves ==
  ASSUME Typed, NEW r \in Readers, FetchUsage(r)
  PROVE  /\ Alone(r) /\ SameRead(r) /\ SameFlight(r) /\ Goes(r, "fetch", "publish")
         /\ reader'[r].snap \in {None, Answer(r)}
         /\ UNCHANGED <<generation, cache, inflight, flight>>
<1>1. PICK snap \in {None, Answer(r)} : reader' = [reader EXCEPT ![r].pc = "publish", ![r].snap = snap]
  BY DEF FetchUsage, Answer
<1> HIDE DEF Answer
<1>2. reader \in [Readers -> ReaderStates] /\ reader[r] \in ReaderStates /\ reader[r].pc = "fetch"
  BY DEF Typed, TypeOK, FetchUsage
<1>3. reader'[r].snap = snap
  BY <1>1, <1>2 DEF ReaderStates
<1> QED
  BY <1>1, <1>2, <1>3 DEF FetchUsage, ReaderStates, Alone, SameRead, SameFlight, Goes

LEMMA PublishMoves ==
  ASSUME Typed, NEW r \in Readers, Publish(r)
  PROVE  /\ Alone(r) /\ SameRead(r) /\ SameFlight(r) /\ Goes(r, "publish", "done")
         /\ reader'[r].snap = reader[r].snap
         /\ inflight' \subseteq inflight \ {r} /\ UNCHANGED generation
         /\ flight' = [flight EXCEPT ![r] = [closed |-> TRUE, snap |-> reader[r].snap]]
BY DEF Typed, TypeOK, ReaderStates, Publish, Settle, Alone, SameRead, SameFlight, Goes

LEMMA FollowMoves ==
  ASSUME Typed, NEW r \in Readers, Follow(r)
  PROVE  /\ Alone(r) /\ SameRead(r) /\ SameFlight(r) /\ Goes(r, "wait", "done")
         /\ flight[reader[r].leader].closed /\ reader'[r].snap = flight[reader[r].leader].snap
         /\ UNCHANGED <<generation, cache, inflight, flight>>
<1>1. PICK snap \in {flight[reader[r].leader].snap} :
         reader' = [reader EXCEPT ![r].pc = "done", ![r].snap = snap]
  BY DEF Follow
<1>2. reader \in [Readers -> ReaderStates] /\ reader[r] \in ReaderStates
  BY DEF Typed, TypeOK
<1> QED
  BY <1>1, <1>2 DEF Follow, ReaderStates, Alone, SameRead, SameFlight, Goes

\* Steps that are no reader's leave the readers and the flights alone, but may
\* forget what is cached and in flight.
LEMMA OthersLeaveReaders ==
  ASSUME [Next]_vars,
         ~ \E r \in Readers : (\E c \in Credentials : Read(r, c)) \/ ReaderStep(r)
  PROVE  UNCHANGED <<reader, flight>> /\ (ClearQuotaState \/ UNCHANGED <<generation, cache, inflight>>)
<1>1. CASE Clear \/ Tick \/ UNCHANGED vars
  BY <1>1 DEF Clear, Tick, vars, quotaVars
<1>2. ASSUME NEW q \in Resetters,
             (\E c \in Credentials, k \in Keys : Ask(q, c, k)) \/ ResetterStep(q)
      PROVE  UNCHANGED <<reader, flight>> /\ (ClearQuotaState \/ UNCHANGED <<generation, cache, inflight>>)
  BY <1>2 DEF ResetterStep, Ask, BeginQuotaReset, ChooseCredit, Consume, ClearAfterReset,
             FinishQuotaReset, AwaitAttempt, quotaVars
<1> QED
  BY <1>1, <1>2 DEF Next

AtWork(l) == reader[l].pc \in {"fetch", "publish"}

\* What a waiting reader knows of the flight it joined.
Joined(r) == LET l == reader[r].leader
             IN  /\ l # r
                 /\ reader[l].cred = reader[r].cred
                 /\ flight[l].closed \/ AtWork(l)

\* Whose flights are in the map, settled, or joined.
FlightsLed ==
    /\ \A l \in inflight : AtWork(l)
    /\ \A l \in Readers : flight[l].closed => reader[l].pc = "done"
    /\ \A r \in Readers : reader[r].pc = "wait" => Joined(r)
    /\ \A r \in Readers : reader[r].pc \in {"idle", "lookup", "fetch", "publish"} => reader[r].leader = r

\* A leader that goes on with its fetch or settles it loses no follower.
LEMMA StillJoined ==
  ASSUME Typed, FlightsLed, NEW r \in Readers, Alone(r),
         reader[r].pc # "idle" => reader'[r].cred = reader[r].cred,
         \A l \in Readers : flight[l].closed => flight'[l].closed,
         AtWork(r) => AtWork(r)' \/ flight'[r].closed,
         NEW p \in Readers, p # r, reader[p].pc = "wait"
  PROVE  Joined(p)'
<1> DEFINE l == reader[p].leader
<1>1. reader'[p] = reader[p] /\ l \in Readers
  BY DEF Alone, Typed, TypeOK, ReaderStates
<1>2. /\ l # p /\ reader[l].cred = reader[p].cred
      /\ flight[l].closed \/ AtWork(l)
  BY DEF FlightsLed, Joined
<1>3. reader[l].pc # "idle"
  BY <1>1, <1>2 DEF FlightsLed, AtWork
<1>4. reader'[l].cred = reader[l].cred /\ (flight'[l].closed \/ AtWork(l)')
  BY <1>1, <1>2, <1>3 DEF Alone, AtWork
<1> QED
  BY <1>1, <1>2, <1>4 DEF Joined, AtWork

LEMMA FlightsStep ==
  ASSUME Typed, FlightsLed, [Next]_vars
  PROVE  FlightsLed'
<1>1. ASSUME NEW r \in Readers, NEW c \in Credentials, Read(r, c) PROVE FlightsLed'
  <2>1. /\ Alone(r) /\ Goes(r, "idle", "lookup") /\ SameFlight(r) /\ UNCHANGED <<inflight, flight>>
    BY <1>1, ReadMoves
  <2>2. \A p \in Readers : reader'[p].pc = "wait" => Joined(p)'
    BY <2>1, StillJoined DEF Goes, AtWork, Alone
  <2> QED
    BY <2>1, <2>2 DEF FlightsLed, AtWork, Alone, Goes, SameFlight, Typed, TypeOK
<1>2. ASSUME NEW r \in Readers, Lookup(r) PROVE FlightsLed'
  <2>1. /\ Alone(r) /\ SameRead(r) /\ UNCHANGED flight /\ reader[r].pc = "lookup"
        /\ inflight' \subseteq inflight \cup {r}
        /\ r \in inflight' => r \in inflight \/ reader'[r].pc = "fetch"
        /\ reader'[r].pc \in {"done", "wait", "fetch"}
    BY <1>2, LookupMoves DEF Goes
  <2>2. \A p \in Readers \ {r} : reader'[p].pc = "wait" => Joined(p)'
    BY <2>1, StillJoined DEF AtWork, Alone, SameRead
  <2>3. reader'[r].pc = "wait" => Joined(r)'
    <3>1. SUFFICES ASSUME reader'[r].pc = "wait" PROVE Joined(r)'
      OBVIOUS
    <3>2. PICK l \in Readers : Leads(l, r) /\ reader'[r].leader = l
      BY <1>2, <3>1, LookupMoves DEF Goes
    <3>3. AtWork(l) /\ l # r /\ reader[l].cred = reader[r].cred
      BY <2>1, <3>2 DEF Leads, FlightsLed, AtWork, Identity
    <3>4. reader'[l] = reader[l]
      BY <2>1, <3>3 DEF Alone
    <3> QED
      BY <2>1, <3>2, <3>3, <3>4 DEF Joined, AtWork, SameRead
  <2>4. \A l \in inflight' : AtWork(l)'
    BY <2>1 DEF FlightsLed, AtWork, Alone, Typed, TypeOK
  <2>5. \A l \in Readers : flight'[l].closed => reader'[l].pc = "done"
    BY <2>1 DEF FlightsLed, Alone
  <2>6. reader'[r].pc = "fetch" => reader'[r].leader = r
    BY <1>2, <2>1, LookupMoves DEF FlightsLed, Goes
  <2> QED
    BY <2>1, <2>2, <2>3, <2>4, <2>5, <2>6 DEF FlightsLed, Alone
<1>3. ASSUME NEW r \in Readers, FetchUsage(r) PROVE FlightsLed'
  <2>1. /\ Alone(r) /\ SameRead(r) /\ SameFlight(r) /\ Goes(r, "fetch", "publish")
        /\ UNCHANGED <<inflight, flight>>
    BY <1>3, FetchMoves
  <2>2. \A p \in Readers : reader'[p].pc = "wait" => Joined(p)'
    BY <2>1, StillJoined DEF Goes, AtWork, Alone, SameRead
  <2> QED
    BY <2>1, <2>2 DEF FlightsLed, AtWork, Alone, Goes, SameFlight, Typed, TypeOK
<1>4. ASSUME NEW r \in Readers, Publish(r) PROVE FlightsLed'
  <2>1. /\ Alone(r) /\ SameRead(r) /\ SameFlight(r) /\ Goes(r, "publish", "done")
        /\ inflight' \subseteq inflight \ {r}
    BY <1>4, PublishMoves
  <2>2. flight'[r].closed /\ \A l \in Readers \ {r} : flight'[l] = flight[l]
    BY <1>4, PublishMoves DEF Typed, TypeOK
  <2>3. \A p \in Readers : reader'[p].pc = "wait" => Joined(p)'
    BY <2>1, <2>2, StillJoined DEF Goes, Alone, SameRead
  <2> QED
    BY <2>1, <2>2, <2>3 DEF FlightsLed, AtWork, Alone, Goes, SameFlight, Typed, TypeOK
<1>5. ASSUME NEW r \in Readers, Follow(r) PROVE FlightsLed'
  <2>1. /\ Alone(r) /\ SameRead(r) /\ SameFlight(r) /\ Goes(r, "wait", "done")
        /\ UNCHANGED <<inflight, flight>>
    BY <1>5, FollowMoves
  <2>2. \A p \in Readers : reader'[p].pc = "wait" => Joined(p)'
    BY <2>1, StillJoined DEF Goes, AtWork, Alone, SameRead
  <2> QED
    BY <2>1, <2>2 DEF FlightsLed, AtWork, Alone, Goes, SameFlight, Typed, TypeOK
<1>6. CASE UNCHANGED <<reader, flight>> /\ (ClearQuotaState \/ UNCHANGED <<generation, cache, inflight>>)
  BY <1>6 DEF FlightsLed, AtWork, Joined, ClearQuotaState
<1> QED
  BY <1>1, <1>2, <1>3, <1>4, <1>5, <1>6, OthersLeaveReaders DEF ReaderStep

\* An attempt that gets no further is a settled one.
Led(l) == attempt[l].closed \/ InProgress(l)

LEMMA LedIsLed == AttemptsLed <=> /\ \A l \in attempts : Led(l)
                                  /\ \A q \in Resetters : resetter[q].pc = "wait" => Led(resetter[q].leader)
BY DEF AttemptsLed, Led

LEMMA StillLed ==
  ASSUME Typed, AttemptsLed, NEW q \in Resetters,
         \A p \in Resetters \ {q} : resetter'[p] = resetter[p],
         \A p \in Resetters : attempt[p].closed => attempt'[p].closed,
         InProgress(q) => InProgress(q)' \/ attempt'[q].closed,
         NEW p \in Resetters, Led(p)
  PROVE  Led(p)'
<1>1. CASE p = q
  BY <1>1 DEF Led
<1>2. CASE p # q
  BY <1>2 DEF Led, InProgress
<1> QED
  BY <1>1, <1>2

LEMMA AttemptsStep ==
  ASSUME Typed, AttemptsLed, [Next]_vars
  PROVE  AttemptsLed'
<1>t. /\ resetter \in [Resetters -> ResetterStates] /\ attempts \subseteq Resetters
      /\ attempt \in [Resetters -> Attempts]
      /\ \A q \in Resetters : resetter[q].leader \in Resetters
  BY DEF Typed, TypeOK, ResetterStates
<1>l. /\ \A l \in attempts : Led(l)
      /\ \A q \in Resetters : resetter[q].pc = "wait" => Led(resetter[q].leader)
  BY LedIsLed
<1>1. ASSUME NEW q \in Resetters, NEW c \in Credentials, NEW k \in Keys, Ask(q, c, k)
      PROVE  AttemptsLed'
  <2>1. /\ resetter'[q].pc = "begin" /\ resetter[q].pc = "idle" /\ UNCHANGED <<attempts, attempt>>
        /\ \A p \in Resetters \ {q} : resetter'[p] = resetter[p]
    BY <1>t, <1>1 DEF Ask, ResetterStates
  <2>2. \A p \in Resetters : Led(p) => Led(p)'
    BY <2>1, StillLed DEF InProgress
  <2> QED
    BY <1>t, <1>l, <2>1, <2>2 DEF AttemptsLed, Led
<1>2. ASSUME NEW q \in Resetters, BeginQuotaReset(q) PROVE AttemptsLed'
  <2> DEFINE Others == \A p \in Resetters \ {q} : resetter'[p] = resetter[p]
  <2>1. resetter[q].pc = "begin" /\ UNCHANGED attempt
    BY <1>2 DEF BeginQuotaReset
  <2>2. ASSUME NEW l, resetter' = [resetter EXCEPT ![q].pc = "wait", ![q].leader = l]
        PROVE  Others /\ resetter'[q].pc = "wait" /\ resetter'[q].leader = l
    BY <1>t, <2>2 DEF ResetterStates
  <2>3. ASSUME NEW why, resetter' = [resetter EXCEPT ![q].pc = "done", ![q].response = why]
        PROVE  Others /\ resetter'[q].pc = "done"
    BY <1>t, <2>3 DEF ResetterStates
  <2>4. ASSUME resetter' = [resetter EXCEPT ![q].pc = "credits"]
        PROVE  Others /\ resetter'[q].pc = "credits"
    BY <1>t, <2>4 DEF ResetterStates
  <2> HIDE DEF Others
  <2>5. /\ Others
        /\ \/ attempts' \subseteq attempts /\ resetter'[q].pc = "wait" /\ resetter'[q].leader \in attempts
           \/ attempts' \subseteq attempts /\ resetter'[q].pc = "done"
           \/ attempts' \subseteq attempts \cup {q} /\ resetter'[q].pc = "credits"
    <3>0. \A t : UnexpiredAttempts(t) \subseteq attempts
      BY DEF UnexpiredAttempts
    <3>1. \/ /\ attempts' \subseteq attempts
             /\ \E l \in attempts : resetter' = [resetter EXCEPT ![q].pc = "wait", ![q].leader = l]
          \/ /\ attempts' \subseteq attempts
             /\ \E why : resetter' = [resetter EXCEPT ![q].pc = "done", ![q].response = why]
          \/ attempts' \subseteq attempts \cup {q} /\ resetter' = [resetter EXCEPT ![q].pc = "credits"]
      BY <1>2, <3>0 DEF BeginQuotaReset
    <3> QED
      BY <2>2, <2>3, <2>4, <3>1
  <2>6. \A p \in Resetters : Led(p) => Led(p)'
    BY <2>1, <2>5, StillLed DEF InProgress, Others
  <2>7. ASSUME NEW l \in attempts' PROVE Led(l)'
    <3>1. CASE l \in attempts
      BY <1>t, <1>l, <2>6, <3>1
    <3>2. CASE l \notin attempts
      BY <2>5, <3>2 DEF Led, InProgress
    <3> QED
      BY <3>1, <3>2
  <2>8. \A p \in Resetters : resetter'[p].pc = "wait" => Led(resetter[p].leader)'
    <3>1. ASSUME NEW p \in Resetters \ {q}, resetter'[p].pc = "wait" PROVE Led(resetter[p].leader)'
      BY <1>t, <1>l, <2>5, <2>6, <3>1 DEF Others, Led, InProgress
    <3>2. resetter'[q].pc = "wait" => Led(resetter[q].leader)'
      BY <1>t, <1>l, <2>5, <2>6 DEF Led, InProgress
    <3> QED
      BY <3>1, <3>2
  <2> QED
    BY <2>7, <2>8 DEF AttemptsLed, Led
<1>3. ASSUME NEW q \in Resetters,
             ChooseCredit(q) \/ Consume(q) \/ ClearAfterReset(q) \/ FinishQuotaReset(q) \/ AwaitAttempt(q)
      PROVE  AttemptsLed'
  <2>1. /\ Moves(q, {"credits", "consume", "clear", "finish", "wait"},
                    {"consume", "clear", "finish", "done"})
        /\ InProgress(q) => InProgress(q)' \/ FinishQuotaReset(q)
    BY <1>3, ResetterMoves DEF Moves, InProgress
  <2>2. /\ \A p \in Resetters \ {q} : resetter'[p] = resetter[p]
        /\ resetter'[q].pc # "wait"
    BY <1>t, <2>1 DEF Moves
  <2>3. /\ UNCHANGED attempts
        /\ \/ UNCHANGED attempt /\ ~FinishQuotaReset(q)
           \/ attempt' = [attempt EXCEPT ![q] = [closed |-> TRUE, response |-> resetter[q].response,
                                                 expires |-> clock + AttemptTTL]]
    BY <1>3 DEF ChooseCredit, Consume, ClearAfterReset, FinishQuotaReset, AwaitAttempt
  <2>4. /\ \A p \in Resetters : attempt[p].closed => attempt'[p].closed
        /\ \/ UNCHANGED attempt /\ ~FinishQuotaReset(q)
           \/ attempt'[q].closed
    BY <1>t, <2>3
  <2>5. \A p \in Resetters : Led(p) => Led(p)'
    BY <2>1, <2>2, <2>4, StillLed
  <2> QED
    BY <1>t, <1>l, <2>2, <2>3, <2>5 DEF AttemptsLed, Led
<1>4. CASE UNCHANGED resetVars
  BY <1>4 DEF AttemptsLed, InProgress, resetVars
<1> QED
  BY <1>1, <1>2, <1>3, <1>4, OthersLeaveResets DEF ResetterStep

LEMMA AlwaysFlightsLed == Spec => []FlightsLed
<1>1. Init => FlightsLed
  BY DEF Init, FlightsLed, AtWork
<1>2. Typed /\ FlightsLed /\ [Next]_vars => FlightsLed'
  BY FlightsStep
<1> QED
  BY <1>1, <1>2, AlwaysTyped, PTL DEF Spec

LEMMA AlwaysAttemptsLed == Spec => []AttemptsLed
<1>1. Init => AttemptsLed
  BY DEF Init, AttemptsLed
<1>2. Typed /\ AttemptsLed /\ [Next]_vars => AttemptsLed'
  BY AttemptsStep
<1> QED
  BY <1>1, <1>2, AlwaysTyped, PTL DEF Spec

\* Whoever waits for a flight or an attempt, or finds the credential's account
\* held, waits for a request that is still at it or has left its answer; also
\* when the maps were cleared, the fetch failed or the attempt was evicted.
THEOREM NobodyAbandoned == Spec => []NoOneAbandoned
<1>1. FlightsLed /\ AttemptsLed /\ AccountsHeld => NoOneAbandoned
  BY DEF FlightsLed, Joined, AtWork, AttemptsLed, AccountsHeld, NoOneAbandoned
<1> QED
  BY <1>1, AlwaysFlightsLed, AlwaysAttemptsLed, AlwaysHeld, PTL
----------------------------------------------------------------------------
(***************************************************************************)
(* What readers are served.                                                *)
(***************************************************************************)
\* An entry of the cache after a step was there before, or r has published it.
LEMMA CacheMoves ==
  ASSUME Typed, [Next]_vars, NEW i \in Identities, cache'[i] # None
  PROVE  \/ cache'[i] = cache[i] /\ UNCHANGED generation
         \/ \E r \in Readers : /\ Publish(r) /\ Keeps(r) /\ i = reader[r].cred
                               /\ cache'[i] = [snap |-> reader[r].snap, expires |-> ExpiresAt(r)]
<1>t. cache \in [Identities -> Entries \cup {None}] /\ reader \in [Readers -> ReaderStates]
  BY DEF Typed, TypeOK
<1>1. CASE ClearQuotaState \/ UNCHANGED <<generation, cache, inflight>>
  BY <1>1 DEF ClearQuotaState
<1>2. ASSUME NEW r \in Readers, NEW c \in Credentials, Read(r, c)
      PROVE  UNCHANGED <<generation, cache>>
  BY <1>2 DEF Read
<1>3. ASSUME NEW r \in Readers, FetchUsage(r) \/ Follow(r) PROVE UNCHANGED <<generation, cache>>
  BY <1>3 DEF FetchUsage, Follow
<1>4. ASSUME NEW r \in Readers, Lookup(r)
      PROVE  cache'[i] = cache[i] /\ UNCHANGED generation
  BY <1>t, <1>4 DEF Lookup, Unexpired
<1>5. ASSUME NEW r \in Readers, Publish(r)
      PROVE  \/ cache'[i] = cache[i] /\ UNCHANGED generation
             \/ /\ Keeps(r) /\ i = reader[r].cred
                /\ cache'[i] = [snap |-> reader[r].snap, expires |-> ExpiresAt(r)]
  <2>1. UNCHANGED generation /\ (UNCHANGED cache \/ (Keeps(r) /\ Store(r)))
    BY <1>5 DEF Publish, Settle
  <2>2. CASE Keeps(r) /\ Store(r)
    <3> DEFINE id == reader[r].cred
               new == [snap |-> reader[r].snap, expires |-> ExpiresAt(r)]
    <3>1. PICK room \in Roomy : cache' = [room EXCEPT ![id] = new]
      BY <2>2 DEF Store, Identity
    <3>2. room = cache \/ \E j \in Oldest : room = [cache EXCEPT ![j] = None]
      BY <3>1 DEF Roomy
    <3>3. DOMAIN room = Identities
      BY <1>t, <3>2
    <3>4. id \in Identities
      BY <1>t, Identified DEF ReaderStates
    <3> HIDE DEF id, new
    <3>5. i # id => cache'[i] = room[i]
      BY <3>1, <3>3
    <3>6. i = id => cache'[i] = new
      BY <3>1, <3>3, <3>4
    <3>7. room[i] # None => room[i] = cache[i]
      BY <1>t, <3>2
    <3> QED
      BY <2>1, <2>2, <3>5, <3>6, <3>7 DEF id, new
  <2> QED
    BY <2>1, <2>2
<1> QED
  BY <1>1, <1>2, <1>3, <1>4, <1>5, OthersLeaveReaders DEF ReaderStep

LEMMA ClockForward ==
  ASSUME Typed, [Next]_vars
  PROVE  clock \in Nat /\ clock' \in Nat /\ clock' >= clock
<1>1. clock \in Nat
  BY DEF Typed, TypeOK
<1>2. clock' = clock \/ clock' = clock + 1
  <2>1. CASE Clear \/ Tick \/ UNCHANGED vars
    BY <2>1 DEF Clear, Tick, vars
  <2>2. ASSUME NEW r \in Readers, (\E c \in Credentials : Read(r, c)) \/ ReaderStep(r)
        PROVE  UNCHANGED clock
    BY <2>2 DEF ReaderStep, Read, Lookup, FetchUsage, Publish, Settle, Follow
  <2>3. ASSUME NEW q \in Resetters,
               (\E c \in Credentials, k \in Keys : Ask(q, c, k)) \/ ResetterStep(q)
        PROVE  UNCHANGED clock
    BY <2>3 DEF ResetterStep, Ask, BeginQuotaReset, ChooseCredit, Consume, ClearAfterReset,
               FinishQuotaReset, AwaitAttempt
  <2> QED
    BY <2>1, <2>2, <2>3 DEF Next
<1> QED
  BY <1>1, <1>2

\* Whose numbers the cache, the fetches and the flights hold, and how old they
\* are when they are served.
Cites(r, s) == s.account = AccountOf(r)
HonestEntry(i) == cache[i] # None => /\ cache[i].snap.account = i[2]
                                     /\ cache[i].expires <= cache[i].snap.readAt + CacheTTL
HonestReader(r) ==
    /\ reader[r].at <= clock
    /\ reader[r].pc = "publish" /\ reader[r].snap # None
         => Cites(r, reader[r].snap) /\ reader[r].snap.readAt >= reader[r].at
    /\ flight[r].closed /\ flight[r].snap # None => Cites(r, flight[r].snap)
    /\ Served(r) => /\ Cites(r, reader[r].snap)
                    /\ reader[r].leader = r => reader[r].snap.readAt + CacheTTL > reader[r].at
Honest == (\A i \in Identities : HonestEntry(i)) /\ (\A r \in Readers : HonestReader(r))

LEMMA EntriesStep ==
  ASSUME Typed, Honest, [Next]_vars, NEW i \in Identities
  PROVE  HonestEntry(i)'
<1>1. SUFFICES ASSUME cache'[i] # None
      PROVE  /\ cache'[i].snap.account = i[2]
             /\ cache'[i].expires <= cache'[i].snap.readAt + CacheTTL
  BY DEF HonestEntry
<1>2. CASE cache'[i] = cache[i]
  BY <1>1, <1>2 DEF Honest, HonestEntry
<1>3. ASSUME NEW r \in Readers, Publish(r), Keeps(r), i = reader[r].cred,
             cache'[i] = [snap |-> reader[r].snap, expires |-> ExpiresAt(r)]
      PROVE  /\ cache'[i].snap.account = i[2]
             /\ cache'[i].expires <= cache'[i].snap.readAt + CacheTTL
  <2>1. /\ reader[r].pc = "publish" /\ reader[r].snap # None
        /\ reader[r].at \in Nat /\ reader[r].snap.readAt \in Nat
    BY <1>3 DEF Publish, Keeps, Typed, TypeOK, ReaderStates, Snapshots
  <2>2. reader[r].snap.account = i[2] /\ reader[r].snap.readAt >= reader[r].at
    BY <1>3, <2>1 DEF Honest, HonestReader, Cites, AccountOf
  <2> QED
    BY <1>3, <2>1, <2>2 DEF ExpiresAt
<1> QED
  BY <1>1, <1>2, <1>3, CacheMoves

\* A reader that stands still stays honest when its flight does.
LEMMA StillHonest ==
  ASSUME Typed, Honest, [Next]_vars, NEW r \in Readers,
         reader'[r] = reader[r], flight'[r] = flight[r]
  PROVE  HonestReader(r)'
<1>1. reader[r].at \in Nat /\ clock \in Nat /\ clock' \in Nat /\ clock' >= clock
  BY ClockForward DEF Typed, TypeOK, ReaderStates
<1> QED
  BY <1>1 DEF Honest, HonestReader, Cites, Served, AccountOf

LEMMA HonestStep ==
  ASSUME Typed, FlightsLed, Honest, [Next]_vars, NEW r \in Readers
  PROVE  HonestReader(r)'
<1>r. /\ reader[r] \in ReaderStates /\ reader[r].at \in Nat
      /\ clock \in Nat /\ clock' \in Nat /\ clock' >= clock
  BY ClockForward DEF Typed, TypeOK, ReaderStates
<1>h. HonestReader(r)
  BY DEF Honest
<1>1. ASSUME NEW c \in Credentials, Read(r, c) PROVE HonestReader(r)'
  <2>1. Goes(r, "idle", "lookup") /\ reader'[r].at = clock /\ UNCHANGED flight /\ ~flight[r].closed
    BY <1>1, ReadMoves DEF FlightsLed, Goes
  <2> QED
    BY <1>r, <2>1 DEF HonestReader, Goes, Served
<1>2. ASSUME Lookup(r) PROVE HonestReader(r)'
  <2>1. /\ reader[r].pc = "lookup" /\ reader[r].leader = r /\ SameRead(r) /\ UNCHANGED flight
        /\ ~flight[r].closed
        /\ reader'[r].pc \in {"wait", "fetch"}
             \/ (reader'[r].pc = "done" /\ Hit(r) # None /\ reader'[r].snap = Hit(r).snap)
    BY <1>2, LookupMoves DEF FlightsLed, Goes
  <2>2. CASE reader'[r].pc \in {"wait", "fetch"}
    BY <1>r, <1>h, <2>1, <2>2 DEF HonestReader, SameRead, Served
  <2>3. CASE reader'[r].pc = "done" /\ Hit(r) # None /\ reader'[r].snap = Hit(r).snap
    <3> DEFINE i == reader[r].cred
    <3>1. i \in Identities
      BY <1>r, Identified DEF ReaderStates
    <3>2. cache[i] # None /\ Hit(r) = cache[i] /\ ~(cache[i].expires <= reader[r].at)
      BY <2>3, <3>1 DEF Hit, Unexpired, Identity
    <3>3. /\ cache[i].snap.account = i[2]
          /\ cache[i].expires <= cache[i].snap.readAt + CacheTTL
      BY <3>1, <3>2 DEF Honest, HonestEntry
    <3>4. cache[i].expires \in Nat /\ cache[i].snap.readAt \in Nat
      BY <3>1, <3>2 DEF Typed, TypeOK, Entries, Snapshots
    <3>5. cache[i].snap.readAt + CacheTTL > reader[r].at
      BY <1>r, <3>2, <3>3, <3>4
    <3> HIDE DEF i
    <3>6. reader'[r].snap = cache[i].snap /\ reader'[r].cred = i /\ reader'[r].at = reader[r].at
      BY <2>1, <2>3, <3>2 DEF i, SameRead
    <3> QED
      BY <1>r, <1>h, <2>1, <2>3, <3>3, <3>5, <3>6 DEF HonestReader, Served, Cites, AccountOf
  <2> QED
    BY <2>1, <2>2, <2>3
<1>3. ASSUME FetchUsage(r) PROVE HonestReader(r)'
  <2>1. /\ Goes(r, "fetch", "publish") /\ SameRead(r) /\ UNCHANGED flight /\ ~flight[r].closed
        /\ reader'[r].snap \in {None, Answer(r)}
    BY <1>3, FetchMoves DEF FlightsLed, Goes
  <2>2. Answer(r).account = AccountOf(r) /\ Answer(r).readAt = clock /\ reader[r].at <= clock
    BY <1>h DEF Answer, HonestReader
  <2> QED
    BY <1>r, <2>1, <2>2 DEF HonestReader, Goes, SameRead, Served, Cites, AccountOf
<1>4. ASSUME Publish(r) PROVE HonestReader(r)'
  <2>1. /\ Goes(r, "publish", "done") /\ SameRead(r)
        /\ reader'[r].snap = reader[r].snap /\ flight'[r].snap = reader[r].snap
    BY <1>4, PublishMoves DEF Typed, TypeOK
  <2>2. reader[r].snap # None => reader[r].snap.readAt \in Nat
    BY <1>r DEF ReaderStates, Snapshots
  <2> QED
    BY <1>r, <1>h, <2>1, <2>2 DEF HonestReader, Goes, SameRead, Served, Cites, AccountOf
<1>5. ASSUME Follow(r) PROVE HonestReader(r)'
  <2> DEFINE l == reader[r].leader
  <2>1. /\ Goes(r, "wait", "done") /\ SameRead(r) /\ SameFlight(r) /\ UNCHANGED flight
        /\ flight[l].closed /\ reader'[r].snap = flight[l].snap
    BY <1>5, FollowMoves
  <2>2. l \in Readers /\ l # r /\ reader[l].cred = reader[r].cred
    BY <1>r, <2>1 DEF ReaderStates, FlightsLed, Joined, Goes
  <2>3. flight[l].snap # None => flight[l].snap.account = AccountOf(r)
    BY <2>1, <2>2 DEF Honest, HonestReader, Cites, AccountOf
  <2> HIDE DEF l
  <2>4. reader'[r].leader = l /\ ~flight[r].closed
    BY <2>1 DEF l, SameFlight, FlightsLed, Goes
  <2> QED
    BY <1>r, <1>h, <2>1, <2>2, <2>3, <2>4 DEF HonestReader, Goes, SameRead, Served, Cites, AccountOf
<1>6. ASSUME NEW p \in Readers, p # r, (\E c \in Credentials : Read(p, c)) \/ ReaderStep(p)
      PROVE  HonestReader(r)'
  <2>1. Alone(p)
    BY <1>6, ReadMoves, LookupMoves, FetchMoves, PublishMoves, FollowMoves DEF ReaderStep
  <2>2. flight'[r] = flight[r]
    <3>1. UNCHANGED flight \/ flight' = [flight EXCEPT ![p] = [closed |-> TRUE, snap |-> reader[p].snap]]
      BY <1>6, ReadMoves, LookupMoves, FetchMoves, PublishMoves, FollowMoves DEF ReaderStep
    <3> QED
      BY <1>6, <3>1 DEF Typed, TypeOK
  <2> QED
    BY <1>6, <2>1, <2>2, StillHonest DEF Alone
<1>7. CASE UNCHANGED <<reader, flight>>
  BY <1>7, StillHonest
<1> QED
  BY <1>1, <1>2, <1>3, <1>4, <1>5, <1>6, <1>7, OthersLeaveReaders DEF ReaderStep

LEMMA AlwaysHonest == Spec => []Honest
<1>1. Init => Honest
  <2>1. SUFFICES ASSUME Init PROVE Honest
    OBVIOUS
  <2>2. \A i \in Identities : HonestEntry(i)
    BY <2>1 DEF Init, HonestEntry
  <2>3. \A r \in Readers : HonestReader(r)
    BY <2>1 DEF Init, HonestReader, Served
  <2> QED
    BY <2>2, <2>3 DEF Honest
<1>2. Typed /\ FlightsLed /\ Honest /\ [Next]_vars => Honest'
  BY EntriesStep, HonestStep, Identified DEF Honest, Identities
<1> QED
  BY <1>1, <1>2, AlwaysTyped, AlwaysFlightsLed, PTL DEF Spec

\* No request gets the numbers of an account its credential no longer holds,
\* from the cache, from a flight it joined, or from a fetch of its own.
THEOREM QuotaOfOwnAccount == Spec => []OwnQuota
<1>1. Honest => OwnQuota
  BY DEF Honest, HonestReader, Cites, OwnQuota
<1> QED
  BY <1>1, AlwaysHonest, PTL

\* The age of the numbers a request gets, unless it joined another's fetch.
THEOREM QuotaIsYoung == Spec => []ServedYoung
<1>1. Honest => ServedYoung
  BY DEF Honest, HonestReader, ServedYoung
<1> QED
  BY <1>1, AlwaysHonest, PTL
----------------------------------------------------------------------------
(***************************************************************************)
(* The quota of after a reset comes from a fetch of after it.              *)
(***************************************************************************)
\* A resetter that the upstream told of a reset, and one that has cleared the
\* cache since.
Told(q) == resetter[q].pc = "clear" \/ (resetter[q].pc = "finish" /\ resetter[q].response = "reset")
Cleared(q) == resetter[q].pc = "finish" /\ resetter[q].response = "reset"

\* What is known of resets never exceeds what the upstream has done.
Counted ==
    /\ \A a \in Accounts : known[a] <= resets[a]
    /\ \A q \in Resetters : Told(q) => resetter[q].seen <= resets[Spender(q)]

\* n resets of account a are all that a request was told of, or will be without
\* another clearing of the cache.
Covers(a, n) ==
    /\ n >= known[a]
    /\ \A q \in Resetters : Cleared(q) /\ Spender(q) = a => n >= resetter[q].seen

\* How a step changes what is known of an account.
LEMMA CountsMove ==
  ASSUME Typed, [Next]_vars
  PROVE  /\ \A a \in Accounts : resets'[a] >= resets[a] /\ known'[a] >= known[a]
         /\ \A a \in Accounts : \/ known'[a] = known[a]
                                \/ \E q \in Resetters : /\ Cleared(q) /\ Spender(q) = a
                                                        /\ known'[a] = resetter[q].seen
         /\ \A q \in Resetters :
              \/ ~Told(q)'
              \/ /\ Told(q) /\ Spender(q)' = Spender(q) /\ resetter'[q].seen = resetter[q].seen
                 /\ ~Cleared(q) /\ Cleared(q)' => \A i \in Identities : cache'[i] = None
                 /\ ~Cleared(q) /\ Cleared(q)' => generation' = generation + 1
              \/ /\ ~Cleared(q)' /\ Spender(q)' = Spender(q)
                 /\ resetter'[q].seen = resets'[Spender(q)]
<1>t. /\ resetter \in [Resetters -> ResetterStates]
      /\ resets \in [Accounts -> Nat] /\ known \in [Accounts -> Nat]
      /\ \A q \in Resetters : Spender(q) \in Accounts /\ resetter[q].seen \in Nat
  BY Identified DEF Typed, TypeOK, ResetterStates, Spender
<1> DEFINE Grow == \A a \in Accounts : resets'[a] >= resets[a] /\ known'[a] >= known[a]
           Learns(a) == \/ known'[a] = known[a]
                        \/ \E q \in Resetters : /\ Cleared(q) /\ Spender(q) = a
                                                /\ known'[a] = resetter[q].seen
           Same(q) == Spender(q)' = Spender(q) /\ resetter'[q].seen = resetter[q].seen
           Keep(q) == \/ ~Told(q)'
                      \/ /\ Told(q) /\ Same(q)
                         /\ ~Cleared(q) /\ Cleared(q)' => \A i \in Identities : cache'[i] = None
                         /\ ~Cleared(q) /\ Cleared(q)' => generation' = generation + 1
                      \/ /\ ~Cleared(q)' /\ Spender(q)' = Spender(q)
                         /\ resetter'[q].seen = resets'[Spender(q)]
           All == Grow /\ (\A a \in Accounts : Learns(a)) /\ (\A q \in Resetters : Keep(q))
<1>s. ASSUME UNCHANGED <<resets, known>> PROVE Grow /\ \A a \in Accounts : Learns(a)
  BY <1>t, <1>s
<1>u. ASSUME NEW q \in Resetters, resetter'[q] = resetter[q] PROVE Keep(q)
  BY <1>u DEF Told, Cleared, Spender
<1>1. CASE UNCHANGED <<resetVars, upstream, known>>
  <2>1. UNCHANGED <<resets, known, resetter>>
    BY <1>1 DEF resetVars, upstream
  <2> QED
    BY <2>1, <1>s, <1>u
<1>2. ASSUME NEW q \in Resetters, NEW c \in Credentials, NEW k \in Keys, Ask(q, c, k) PROVE All
  <2>1. /\ resetter'[q].pc = "begin" /\ UNCHANGED <<resets, known>>
        /\ \A p \in Resetters \ {q} : resetter'[p] = resetter[p]
    BY <1>t, <1>2 DEF Ask, ResetterStates, upstream
  <2>2. Keep(q)
    BY <2>1 DEF Told
  <2> QED
    BY <2>1, <2>2, <1>s, <1>u
<1>3. ASSUME NEW q \in Resetters, BeginQuotaReset(q) PROVE All
  <2> DEFINE Done == /\ resetter'[q].pc \in {"wait", "done", "credits"}
                     /\ \A p \in Resetters \ {q} : resetter'[p] = resetter[p]
  <2>1. ASSUME NEW l, resetter' = [resetter EXCEPT ![q].pc = "wait", ![q].leader = l] PROVE Done
    BY <1>t, <2>1 DEF ResetterStates
  <2>2. ASSUME NEW why, resetter' = [resetter EXCEPT ![q].pc = "done", ![q].response = why] PROVE Done
    BY <1>t, <2>2 DEF ResetterStates
  <2>3. ASSUME resetter' = [resetter EXCEPT ![q].pc = "credits"] PROVE Done
    BY <1>t, <2>3 DEF ResetterStates
  <2>4. \/ \E l : resetter' = [resetter EXCEPT ![q].pc = "wait", ![q].leader = l]
        \/ \E why : resetter' = [resetter EXCEPT ![q].pc = "done", ![q].response = why]
        \/ resetter' = [resetter EXCEPT ![q].pc = "credits"]
    BY <1>3 DEF BeginQuotaReset
  <2>5. Done
    <3> HIDE DEF Done
    <3> QED
      BY <2>1, <2>2, <2>3, <2>4
  <2>6. Keep(q)
    BY <2>5 DEF Told
  <2>7. UNCHANGED <<resets, known>>
    BY <1>3 DEF BeginQuotaReset, upstream
  <2> QED
    BY <2>5, <2>6, <2>7, <1>s, <1>u
<1>4. ASSUME NEW q \in Resetters, ChooseCredit(q) \/ AwaitAttempt(q) PROVE All
  <2>1. Moves(q, {"credits", "wait"}, {"consume", "finish", "done"}) /\ UNCHANGED <<resets, known>>
    BY <1>4, ResetterMoves DEF Moves, ChooseCredit, AwaitAttempt, upstream
  <2>2. \A p \in Resetters \ {q} : resetter'[p] = resetter[p]
    BY <1>t, <2>1 DEF Moves
  <2>3. ~Told(q)'
    <3>1. CASE AwaitAttempt(q)
      BY <3>1, ResetterMoves DEF Moves, Told
    <3>2. CASE ChooseCredit(q)
      <4>1. \A why : Finishing(q, why) => resetter'[q].response = why
        BY <1>t DEF Finishing, ResetterStates
      <4>2. ASSUME NEW n, resetter' = [resetter EXCEPT ![q].pc = "consume", ![q].credit = n]
            PROVE  resetter'[q].pc = "consume"
        BY <1>t, <4>2 DEF ResetterStates
      <4>3. resetter'[q].response \in {"upstream_failed", "no_credit"} \/ resetter'[q].pc = "consume"
        BY <3>2, <4>1, <4>2 DEF ChooseCredit
      <4>4. resetter'[q].pc \in {"consume", "finish"}
        BY <3>2, ResetterMoves DEF Moves
      <4> QED
        BY <4>3, <4>4 DEF Told
    <3> QED
      BY <1>4, <3>1, <3>2
  <2> QED
    BY <2>1, <2>2, <2>3, <1>s, <1>u
<1>5. ASSUME NEW q \in Resetters, Consume(q) PROVE All
  <2>1. Moves(q, {"consume"}, {"clear", "finish"}) /\ UNCHANGED known
    BY <1>5, ResetterMoves DEF Consume
  <2>2. resets' = resets \/ resets' = [resets EXCEPT ![Spender(q)] = @ + 1]
    BY <1>5 DEF Consume, upstream
  <2>3. \A a \in Accounts : resets'[a] >= resets[a]
    BY <1>t, <2>2
  <2>4. \A p \in Resetters \ {q} : resetter'[p] = resetter[p]
    BY <1>t, <2>1 DEF Moves
  <2>5. PICK code \in {"reset", "lost", "nothing_to_reset", "already_redeemed", "no_credit"} : Answered(q, code)
    BY <1>5 DEF Consume
  <2>6. /\ resetter'[q].seen = resets'[Spender(q)]
        /\ resetter'[q].pc = "finish" => resetter'[q].response # "reset"
    BY <1>t, <2>5 DEF Answered, ResetterStates
  <2>7. Keep(q)
    BY <2>1, <2>6 DEF Moves, Told, Cleared, Spender
  <2> QED
    BY <1>t, <2>1, <2>3, <2>4, <2>7, <1>u
<1>6. ASSUME NEW q \in Resetters, ClearAfterReset(q) PROVE All
  <2>1. /\ Moves(q, {"clear"}, {"finish"}) /\ UNCHANGED <<resets, known>> /\ ClearQuotaState
        /\ resetter'[q].seen = resetter[q].seen
    BY <1>t, <1>6, ResetterMoves DEF ClearAfterReset, upstream, ResetterStates
  <2>2. \A p \in Resetters \ {q} : resetter'[p] = resetter[p]
    BY <1>t, <2>1 DEF Moves
  <2>3. Keep(q)
    BY <2>1 DEF Moves, Told, Cleared, Spender, ClearQuotaState
  <2> QED
    BY <2>1, <2>2, <2>3, <1>s, <1>u
<1>7. ASSUME NEW q \in Resetters, FinishQuotaReset(q) PROVE All
  <2>1. Moves(q, {"finish"}, {"done"}) /\ UNCHANGED resets
    BY <1>7, ResetterMoves DEF FinishQuotaReset, upstream
  <2>2. \A p \in Resetters \ {q} : resetter'[p] = resetter[p]
    BY <1>t, <2>1 DEF Moves
  <2>3. /\ \A a \in Accounts \ {Spender(q)} : known'[a] = known[a]
        /\ \/ known'[Spender(q)] = known[Spender(q)]
           \/ /\ resetter[q].response = "reset" /\ resetter[q].seen > known[Spender(q)]
              /\ known'[Spender(q)] = resetter[q].seen
    BY <1>t, <1>7 DEF FinishQuotaReset
  <2>4. Keep(q)
    BY <2>1 DEF Moves, Told
  <2>5. Grow
    BY <1>t, <2>1, <2>3
  <2>6. ASSUME NEW a \in Accounts PROVE Learns(a)
    BY <2>1, <2>3 DEF Cleared, Moves
  <2> QED
    BY <2>2, <2>4, <2>5, <2>6, <1>u
<1> QED
  BY <1>1, <1>2, <1>3, <1>4, <1>5, <1>6, <1>7, OthersLeaveResets DEF ResetterStep

LEMMA CountedStep ==
  ASSUME Typed, Counted, [Next]_vars
  PROVE  Counted'
<1>t. /\ Typed' /\ resets \in [Accounts -> Nat] /\ resets' \in [Accounts -> Nat]
      /\ known \in [Accounts -> Nat]
      /\ \A q \in Resetters : Spender(q) \in Accounts /\ resetter[q].seen \in Nat
  BY TypedStep, Identified DEF Typed, TypeOK, ResetterStates, Spender
<1>1. ASSUME NEW a \in Accounts PROVE known'[a] <= resets'[a]
  <2>1. resets'[a] >= resets[a] /\ known[a] <= resets[a]
    BY CountsMove DEF Counted
  <2>2. CASE known'[a] = known[a]
    BY <1>t, <2>1, <2>2
  <2>3. ASSUME NEW q \in Resetters, Cleared(q), Spender(q) = a, known'[a] = resetter[q].seen
        PROVE  known'[a] <= resets'[a]
    BY <1>t, <2>1, <2>3 DEF Counted, Told, Cleared
  <2> QED
    BY <2>2, <2>3, CountsMove
<1>2. ASSUME NEW q \in Resetters, Told(q)' PROVE resetter'[q].seen <= resets'[Spender(q)']
  <2>1. CASE Told(q) /\ Spender(q)' = Spender(q) /\ resetter'[q].seen = resetter[q].seen
    BY <1>t, <2>1, CountsMove DEF Counted
  <2>2. CASE Spender(q)' = Spender(q) /\ resetter'[q].seen = resets'[Spender(q)]
    BY <1>t, <2>2
  <2> QED
    BY <1>2, <2>1, <2>2, CountsMove
<1> QED
  BY <1>1, <1>2 DEF Counted, Spender

\* Until the cache is cleared, what covers every known reset goes on to.
LEMMA StillCovers ==
  ASSUME Typed, [Next]_vars, UNCHANGED generation, NEW a \in Accounts, NEW n \in Nat, Covers(a, n)
  PROVE  Covers(a, n)'
<1>t. /\ generation \in Nat /\ known \in [Accounts -> Nat]
      /\ \A q \in Resetters : resetter[q].seen \in Nat
  BY DEF Typed, TypeOK, ResetterStates
<1>1. n >= known'[a]
  <2>1. CASE known'[a] = known[a]
    BY <2>1 DEF Covers
  <2>2. ASSUME NEW q \in Resetters, Cleared(q), Spender(q) = a, known'[a] = resetter[q].seen
        PROVE  n >= known'[a]
    BY <2>2 DEF Covers
  <2> QED
    BY <2>1, <2>2, CountsMove
<1>2. ASSUME NEW q \in Resetters, Cleared(q)', Spender(q)' = a
      PROVE  n >= resetter'[q].seen
  <2>1. Cleared(q)' => Told(q)'
    BY DEF Cleared, Told
  <2>2. Cleared(q) /\ Spender(q)' = Spender(q) /\ resetter'[q].seen = resetter[q].seen
    BY <1>t, <1>2, <2>1, CountsMove
  <2> QED
    BY <1>2, <2>2 DEF Covers
<1> QED
  BY <1>1, <1>2 DEF Covers, Spender

FreshReader(r) ==
    /\ reader[r].gen <= generation
    /\ reader[r].floor <= known[AccountOf(r)]
    /\ AtWork(r) => /\ reader[r].after >= reader[r].floor
                    /\ reader[r].gen = generation => Covers(AccountOf(r), reader[r].after)
    /\ reader[r].pc = "publish" /\ reader[r].snap # None => reader[r].snap.after = reader[r].after
    /\ reader[r].pc = "wait" =>
          LET l == reader[r].leader
          IN  /\ AtWork(l) => reader[l].after >= reader[r].floor
              /\ flight[l].closed /\ flight[l].snap # None => flight[l].snap.after >= reader[r].floor
    /\ Served(r) => reader[r].snap.after >= reader[r].floor

\* The fetches that filled the cache, that run for the current generation, or
\* that settled a flight, against what the requests they are for knew.
Fresh == /\ \A i \in Identities : cache[i] # None => Covers(i[2], cache[i].snap.after)
         /\ \A r \in Readers : FreshReader(r)

LEMMA FreshEntries ==
  ASSUME Typed, Fresh, [Next]_vars, NEW i \in Identities, cache'[i] # None
  PROVE  Covers(i[2], cache[i].snap.after)'
<1>a. i[2] \in Accounts
  BY Identified
<1>1. ASSUME NEW n \in Nat, UNCHANGED generation, Covers(i[2], n), cache'[i].snap.after = n
      PROVE  Covers(i[2], cache[i].snap.after)'
  <2>1. Covers(i[2], n)'
    BY <1>a, <1>1, StillCovers
  <2> QED
    BY <1>1, <2>1 DEF Covers
<1>2. CASE cache'[i] = cache[i] /\ UNCHANGED generation
  <2>1. cache[i].snap.after \in Nat /\ Covers(i[2], cache[i].snap.after)
    BY <1>2 DEF Fresh, Typed, TypeOK, Entries, Snapshots
  <2> QED
    BY <1>1, <1>2, <2>1
<1>3. ASSUME NEW r \in Readers, Publish(r), Keeps(r), i = reader[r].cred,
             cache'[i] = [snap |-> reader[r].snap, expires |-> ExpiresAt(r)]
      PROVE  Covers(i[2], cache[i].snap.after)'
  <2>1. /\ reader[r].snap.after = reader[r].after /\ reader[r].after \in Nat
        /\ Covers(AccountOf(r), reader[r].after) /\ UNCHANGED generation
    BY <1>3 DEF Publish, Keeps, Settle, Fresh, FreshReader, AtWork, Typed, TypeOK, ReaderStates
  <2>2. AccountOf(r) = i[2] /\ cache'[i].snap.after = reader[r].after
    BY <1>3, <2>1 DEF AccountOf
  <2> QED
    BY <1>1, <2>1, <2>2
<1> QED
  BY <1>2, <1>3, CacheMoves

LEMMA GenerationForward ==
  ASSUME Typed, [Next]_vars
  PROVE  /\ generation \in Nat /\ generation' \in {generation, generation + 1}
         /\ generation' # generation => UNCHANGED <<reader, flight>>
<1>1. generation \in Nat
  BY DEF Typed, TypeOK
<1>2. ASSUME NEW r \in Readers, (\E c \in Credentials : Read(r, c)) \/ ReaderStep(r)
      PROVE  UNCHANGED generation
  BY <1>2, ReadMoves, LookupMoves, FetchMoves, PublishMoves, FollowMoves DEF ReaderStep
<1> QED
  BY <1>1, <1>2, OthersLeaveReaders DEF ClearQuotaState

\* A fetch that begins now comes after every reset that is known.
LEMMA NowCovers ==
  ASSUME Typed, Counted, NEW a \in Accounts
  PROVE  resets[a] \in Nat /\ Covers(a, resets[a]) /\ resets[a] >= known[a]
BY DEF Covers, Counted, Told, Cleared, Typed, TypeOK

\* A reader that stands still stays fresh, whatever the leader it waits for does.
LEMMA StillFresh ==
  ASSUME Typed, FlightsLed, Fresh, [Next]_vars, NEW r \in Readers, reader'[r] = reader[r]
  PROVE  FreshReader(r)'
<1>t. /\ reader[r] \in ReaderStates /\ reader[r].gen \in Nat /\ reader[r].floor \in Nat
      /\ reader[r].after \in Nat
      /\ AccountOf(r) \in Accounts /\ AccountOf(r)' = AccountOf(r)
      /\ known \in [Accounts -> Nat] /\ known' \in [Accounts -> Nat]
  BY TypedStep, Identified DEF Typed, TypeOK, ReaderStates, AccountOf
<1>f. FreshReader(r)
  BY DEF Fresh
<1>1. reader[r].gen <= generation'
  BY <1>t, <1>f, GenerationForward DEF FreshReader
<1>2. reader[r].floor <= known'[AccountOf(r)]
  BY <1>t, <1>f, CountsMove DEF FreshReader
<1>3. ASSUME AtWork(r), reader[r].gen = generation' PROVE Covers(AccountOf(r), reader[r].after)'
  <2>1. UNCHANGED generation /\ Covers(AccountOf(r), reader[r].after)
    BY <1>t, <1>3, <1>f, GenerationForward DEF FreshReader
  <2>2. ASSUME NEW a \in Accounts, NEW n \in Nat, a = AccountOf(r), n = reader[r].after
        PROVE  Covers(a, n)'
    BY <2>1, <2>2, StillCovers
  <2> QED
    BY <1>t, <2>2 DEF Covers
<1>4. ASSUME reader[r].pc = "wait"
      PROVE  LET l == reader[r].leader
             IN  /\ reader'[l].pc \in {"fetch", "publish"} =>
                        reader'[l].after >= reader[r].floor
                 /\ flight'[l].closed /\ flight'[l].snap # None => flight'[l].snap.after >= reader[r].floor
  <2> DEFINE l == reader[r].leader
             Good == /\ reader'[l].pc \in {"fetch", "publish"} =>
                            reader'[l].after >= reader[r].floor
                     /\ flight'[l].closed /\ flight'[l].snap # None => flight'[l].snap.after >= reader[r].floor
  <2>1. l \in Readers /\ l # r /\ (flight[l].closed => ~AtWork(l)) /\ (flight[l].closed \/ AtWork(l))
    BY <1>t, <1>4 DEF ReaderStates, FlightsLed, Joined, AtWork
  <2>2. /\ AtWork(l) => reader[l].after >= reader[r].floor
        /\ flight[l].closed /\ flight[l].snap # None => flight[l].snap.after >= reader[r].floor
    BY <1>4, <1>f DEF FreshReader
  <2>3. FreshReader(l)
    BY <2>1 DEF Fresh
  <2> HIDE DEF l
  <2>4. ASSUME reader'[l] = reader[l], flight'[l] = flight[l] PROVE Good
    BY <2>2, <2>4 DEF AtWork
  <2>5. ASSUME FetchUsage(l) PROVE Good
    <3>1. AtWork(l) /\ reader'[l].after = reader[l].after /\ UNCHANGED flight
      BY <2>1, <2>5, FetchMoves DEF Goes, SameFlight, AtWork
    <3> QED
      BY <2>2, <3>1
  <2>6. ASSUME Publish(l) PROVE Good
    <3>1. /\ reader[l].pc = "publish" /\ reader'[l].pc = "done"
          /\ flight'[l].snap = reader[l].snap
      BY <2>1, <2>6, PublishMoves DEF Goes, Typed, TypeOK
    <3>2. /\ AtWork(l)
          /\ reader[l].snap # None => reader[l].snap.after = reader[l].after
      BY <2>3, <3>1 DEF FreshReader, AtWork
    <3> QED
      BY <2>2, <3>1, <3>2
  <2>7. ASSUME (\E c \in Credentials : Read(l, c)) \/ Lookup(l) \/ Follow(l) PROVE Good
    <3>1. reader[l].pc \in {"idle", "lookup", "wait"} /\ UNCHANGED flight
      BY <2>1, <2>7, ReadMoves, LookupMoves, FollowMoves DEF Goes
    <3>2. flight[l].closed => reader[l].pc = "done"
      BY <2>1 DEF FlightsLed
    <3> QED
      BY <2>1, <3>1, <3>2 DEF AtWork
  <2>8. ASSUME NEW p \in Readers, p # l, (\E c \in Credentials : Read(p, c)) \/ ReaderStep(p)
        PROVE  reader'[l] = reader[l] /\ flight'[l] = flight[l]
    <3>1. Alone(p)
      BY <2>8, ReadMoves, LookupMoves, FetchMoves, PublishMoves, FollowMoves DEF ReaderStep
    <3>2. UNCHANGED flight \/ flight' = [flight EXCEPT ![p] = [closed |-> TRUE, snap |-> reader[p].snap]]
      BY <2>8, ReadMoves, LookupMoves, FetchMoves, PublishMoves, FollowMoves DEF ReaderStep
    <3>3. flight \in [Readers -> Flights]
      BY DEF Typed, TypeOK
    <3>4. reader'[l] = reader[l]
      BY <2>1, <2>8, <3>1 DEF Alone
    <3> QED
      BY <2>1, <2>8, <3>2, <3>3, <3>4
  <2>9. Good
    <3> HIDE DEF Good
    <3>1. CASE reader'[l] = reader[l] /\ flight'[l] = flight[l]
      BY <2>4, <3>1 DEF Good
    <3>2. CASE UNCHANGED <<reader, flight>>
      BY <3>1, <3>2
    <3> QED
      BY <2>5, <2>6, <2>7, <2>8, <3>1, <3>2, OthersLeaveReaders DEF ReaderStep
  <2> QED
    BY <2>9 DEF l
<1>5. Served(r) => reader[r].snap.after >= reader[r].floor
  BY <1>f DEF FreshReader
<1>6. /\ AtWork(r) => reader[r].after >= reader[r].floor
      /\ reader[r].pc = "publish" /\ reader[r].snap # None => reader[r].snap.after = reader[r].after
  BY <1>f DEF FreshReader
<1>7. AtWork(r)' = AtWork(r) /\ Served(r)' = Served(r)
  BY DEF AtWork, Served
<1> QED
  BY <1>t, <1>1, <1>2, <1>3, <1>4, <1>5, <1>6, <1>7 DEF FreshReader, Covers, AtWork

LEMMA FreshStep ==
  ASSUME Typed, FlightsLed, Counted, Fresh, [Next]_vars, NEW r \in Readers
  PROVE  FreshReader(r)'
<1>t. /\ reader[r] \in ReaderStates /\ reader[r].gen \in Nat /\ reader[r].floor \in Nat
      /\ reader[r].after \in Nat
      /\ generation \in Nat /\ AccountOf(r) \in Accounts
      /\ known \in [Accounts -> Nat] /\ known' \in [Accounts -> Nat]
  BY TypedStep, Identified DEF Typed, TypeOK, ReaderStates, AccountOf
<1>f. FreshReader(r)
  BY DEF Fresh
<1>k. known'[AccountOf(r)] >= known[AccountOf(r)] /\ reader[r].floor <= known'[AccountOf(r)]
  BY <1>t, <1>f, CountsMove DEF FreshReader
<1>1. ASSUME NEW c \in Credentials, Read(r, c) PROVE FreshReader(r)'
  <2>1. /\ Goes(r, "idle", "lookup") /\ SameFlight(r) /\ UNCHANGED generation
        /\ reader'[r].cred = c /\ reader'[r].floor = known[c[2]] /\ c[2] \in Accounts
    BY <1>1, ReadMoves, Identified
  <2>2. known'[c[2]] >= known[c[2]]
    BY <2>1, CountsMove
  <2> QED
    BY <1>f, <2>1, <2>2 DEF FreshReader, Goes, SameFlight, Served, AccountOf, AtWork
<1>2. ASSUME Lookup(r) PROVE FreshReader(r)'
  <2>1. /\ Alone(r) /\ SameRead(r) /\ UNCHANGED <<generation, flight>> /\ reader[r].pc = "lookup"
        /\ reader'[r].gen <= generation'
    BY <1>t, <1>f, <1>2, LookupMoves DEF Goes, SameFlight, FreshReader
  <2>2. /\ reader'[r].floor = reader[r].floor /\ AccountOf(r)' = AccountOf(r)
    BY <2>1 DEF SameRead, AccountOf
  <2>3. CASE /\ reader'[r].pc = "done" /\ Hit(r) # None /\ reader'[r].snap = Hit(r).snap
    <3> DEFINE i == reader[r].cred
    <3>1. i \in Identities /\ i[2] = AccountOf(r)
      BY <1>t, Identified DEF ReaderStates, AccountOf
    <3>2. cache[i] # None /\ Hit(r) = cache[i]
      BY <2>3, <3>1 DEF Hit, Unexpired, Identity
    <3>3. Covers(AccountOf(r), cache[i].snap.after) /\ cache[i].snap.after \in Nat
      BY <3>1, <3>2 DEF Fresh, Typed, TypeOK, Entries, Snapshots
    <3> HIDE DEF i
    <3>4. reader'[r].snap.after >= reader[r].floor
      BY <1>t, <1>f, <2>3, <3>2, <3>3 DEF Covers, FreshReader
    <3> QED
      BY <1>k, <2>1, <2>2, <2>3, <3>4 DEF FreshReader, Served, AtWork
  <2>4. ASSUME NEW l \in Readers, Leads(l, r), reader'[r].pc = "wait", reader'[r].leader = l
        PROVE  FreshReader(r)'
    <3>1. /\ AtWork(l) /\ ~flight[l].closed /\ l # r /\ reader[l].gen = generation
          /\ AccountOf(l) = AccountOf(r)
      BY <2>1, <2>4 DEF Leads, FlightsLed, AtWork, Identity, AccountOf
    <3>2. reader'[l] = reader[l]
      BY <2>1, <3>1 DEF Alone
    <3>3. reader[l].after >= reader[r].floor
      <4>1. Covers(AccountOf(r), reader[l].after)
        BY <3>1 DEF Fresh, FreshReader
      <4>2. reader[l].after \in Nat
        BY DEF Typed, TypeOK, ReaderStates
      <4> QED
        BY <1>t, <1>f, <4>1, <4>2 DEF FreshReader, Covers
    <3> QED
      BY <1>k, <2>1, <2>2, <2>4, <3>1, <3>2, <3>3 DEF FreshReader, Served, AtWork
  <2>5. CASE reader'[r].pc = "fetch" /\ reader'[r].after = resets[AccountOf(r)]
    <3>1. /\ resets[AccountOf(r)] \in Nat /\ Covers(AccountOf(r), resets[AccountOf(r)])
          /\ resets[AccountOf(r)] >= reader[r].floor
      BY <1>t, <1>f, NowCovers DEF FreshReader
    <3>2. ASSUME NEW a \in Accounts, NEW n \in Nat, a = AccountOf(r), n = resets[AccountOf(r)]
          PROVE  Covers(a, n)'
      BY <2>1, <3>1, <3>2, StillCovers
    <3>3. Covers(AccountOf(r), reader[r].after)'
      BY <1>t, <2>2, <2>5, <3>1, <3>2 DEF Covers
    <3> QED
      BY <1>k, <2>1, <2>2, <2>5, <3>1, <3>3 DEF FreshReader, Served
  <2> QED
    BY <1>2, <2>3, <2>4, <2>5, LookupMoves DEF Goes
<1>3. ASSUME FetchUsage(r) PROVE FreshReader(r)'
  <2>1. /\ SameRead(r) /\ SameFlight(r) /\ Goes(r, "fetch", "publish")
        /\ reader'[r].snap \in {None, Answer(r)} /\ UNCHANGED generation
    BY <1>3, FetchMoves
  <2>2. AtWork(r) /\ AccountOf(r)' = AccountOf(r) /\ reader'[r].after = reader[r].after
    BY <2>1 DEF AtWork, Goes, SameRead, SameFlight, AccountOf
  <2>3. reader'[r].snap # None => reader'[r].snap.after = reader[r].after
    BY <2>1 DEF Answer
  <2>4. ASSUME NEW a \in Accounts, NEW n \in Nat, Covers(a, n) PROVE Covers(a, n)'
    BY <2>1, <2>4, StillCovers
  <2>5. reader[r].gen = generation => Covers(AccountOf(r), reader[r].after)'
    BY <1>t, <1>f, <2>2, <2>4 DEF FreshReader, Covers
  <2> QED
    BY <1>f, <1>k, <2>1, <2>2, <2>3, <2>5 DEF FreshReader, SameRead, SameFlight, Goes, Served
<1>4. ASSUME Publish(r) PROVE FreshReader(r)'
  <2>1. /\ SameRead(r) /\ SameFlight(r) /\ Goes(r, "publish", "done")
        /\ reader'[r].snap = reader[r].snap /\ UNCHANGED generation
    BY <1>4, PublishMoves
  <2> QED
    BY <1>f, <1>k, <2>1 DEF FreshReader, SameRead, SameFlight, Goes, Served, AccountOf, AtWork
<1>5. ASSUME Follow(r) PROVE FreshReader(r)'
  <2>1. /\ SameRead(r) /\ SameFlight(r) /\ Goes(r, "wait", "done")
        /\ flight[reader[r].leader].closed /\ reader'[r].snap = flight[reader[r].leader].snap
        /\ UNCHANGED generation
    BY <1>5, FollowMoves
  <2> QED
    BY <1>f, <1>k, <2>1 DEF FreshReader, SameRead, SameFlight, Goes, Served, AccountOf, AtWork
<1>6. CASE reader'[r] = reader[r]
  BY <1>6, StillFresh
<1>7. ASSUME NEW p \in Readers, p # r, (\E c \in Credentials : Read(p, c)) \/ ReaderStep(p)
      PROVE  reader'[r] = reader[r]
  BY <1>7, ReadMoves, LookupMoves, FetchMoves, PublishMoves, FollowMoves DEF ReaderStep, Alone
<1> QED
  BY <1>1, <1>2, <1>3, <1>4, <1>5, <1>6, <1>7, OthersLeaveReaders DEF ReaderStep

LEMMA AlwaysFresh == Spec => [](Counted /\ Fresh)
<1>1. Init => Counted /\ Fresh
  <2>1. SUFFICES ASSUME Init PROVE Counted /\ Fresh
    OBVIOUS
  <2>2. Counted
    BY <2>1 DEF Init, Counted, Told
  <2>3. ASSUME NEW r \in Readers PROVE FreshReader(r)
    <3>1. AccountOf(r) \in Accounts
      BY <2>1, TypedInit, Identified DEF Typed, TypeOK, ReaderStates, AccountOf
    <3> QED
      BY <2>1, <3>1 DEF Init, FreshReader, Served, AtWork
  <2>4. \A i \in Identities : cache[i] = None
    BY <2>1 DEF Init
  <2> QED
    BY <2>2, <2>3, <2>4 DEF Fresh
<1>2. Typed /\ FlightsLed /\ Counted /\ Fresh /\ [Next]_vars => Counted' /\ Fresh'
  <2>1. SUFFICES ASSUME Typed, FlightsLed, Counted, Fresh, [Next]_vars PROVE Counted' /\ Fresh'
    OBVIOUS
  <2>2. \A i \in Identities : cache'[i] # None => Covers(i[2], cache[i].snap.after)'
    BY <2>1, FreshEntries
  <2>3. \A r \in Readers : FreshReader(r)'
    BY <2>1, FreshStep
  <2> QED
    BY <2>1, <2>2, <2>3, CountedStep DEF Fresh, Identities
<1> QED
  BY <1>1, <1>2, AlwaysTyped, AlwaysFlightsLed, PTL DEF Spec

\* Whoever asks for the quota after a reset was answered is served from a fetch
\* that began after the upstream had applied it, although older fetches may yet
\* be stored or joined.
THEOREM FetchesFollowResets == Spec => []FetchedAfterReset
<1>1. Fresh => FetchedAfterReset
  BY DEF Fresh, FreshReader, FetchedAfterReset
<1> QED
  BY <1>1, AlwaysFresh, PTL
=============================================================================
