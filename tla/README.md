# A TLA+ model of cpa-key-policy

`cpa-key-policy` is a plugin of the CLIProxyAPI (CPA) host. It owns downstream API
keys, decides which requests they may make, picks the upstream target and the
credential that serves a request, bills it, and lets a key's user look at (and
reset) the quota of the credential the key is bound to. It is one process: the
host calls it on goroutines of its own, administrators call it through a
management API, a background goroutine writes usage to a JSON state file, and
the host reconfigures and unloads it at any time.

This directory holds the specification of its stateful parts. Every definition
is translated from the source; `PROJECT.json` maps each one to its lines, lists
the hazards it is there for, and the findings.

- [Inventory](#inventory)
- [Modules](#modules)
- [Runs](#runs)
- [Proofs](#proofs)
- [Findings](#findings)
- [What is not modelled](#what-is-not-modelled)
- [Plan](#plan)

## Inventory

Paths are relative to `src/internal/` unless they start with another directory.

| Part | State | Operations | What is hard | What makes it correct |
|---|---|---|---|---|
| Key registry and state file (`policy/store.go`, `config.go`) | `Store.keys` under `mu`; `updateMu` serialises whole requests; the state file under `persistMu` | create, patch, rotate, delete, `Configure`, first boot, `Shutdown` | snapshots leave `mu` before they are written; PATCH reads before it takes `updateMu`; I/O fails; the process dies; `NewApp` configures once before the host does | a revoked secret stays revoked, in memory and across restarts; the file and memory agree unless a write failed |
| Usage flusher (`policy/store.go:1297-1410`) | a goroutine, `stopCh`, `doneCh` | start, tick, flush, stop and wait | `Configure` waits for it while it holds `updateMu`; the flush rewrites the file beside management requests | no deadlock, no lost ledger, keys in the file untouched |
| Dispatch (`policy/store.go:254-500`) | `pendingPicks`, `rrCounters`, a key's `Models` | `Authenticate`, `Route`, `ResponseAlias`, edits of aliases and keys | the host makes up to three calls for a request and hands over nothing that relates them | the target routed to is the one the request was authenticated for; fresh and of the key's own; fair rotation |
| Classification and scheduler (`plugin/app.go:290-490`, `policy/classify.go`) | classify rules under `mu`; `classifyCache` under `classifyMu` | edit, reorder, reconfigure, `scheduler.pick`, catalogue, quota binding | rules are read and their verdict stored under different locks, with a clearing in between | a request pinned to a group is served by an auth file of the group or fails |
| Rate limiter (`policy/limiter.go`) | a bucket per key | `Allow`, `Reset` | the clock is read before the mutex | a bound on requests per minute |
| Usage ledger and budgets (`policy/usage.go`) | daily, weekly and per-alias windows per key | `RecordCost`, `Summary`, `OverLimit`, `resetUsage` | the clock again; check and charge far apart; two kinds of windows | totals are what was spent; a spent limit admits nobody |
| Billing (`policy/cost.go`, `store.go:545-650`, `plugin/app.go`) | bills in progress; the ledger's entries, their `ByAlias` maps, snapshots of them | `usage.handle`, `RecordUsage`, `ComputeCacheCostBreakdown`, `snapshot`, marshalling, `DeleteKey` | provider-dependent cache semantics, computed in two places; bills of keys that are gone; snapshots that share maps with the ledger | every token is charged once, and counters match the charge; a key has no usage of another |
| Alias table and configuration (`policy/config.go`, `store.go:1067-1141`) | `Store.aliases`, `Store.classifyRules`, references from keys and the models derived from them | normalise, migrate, upsert, delete, reorder, flush, load | precedence of `config.yaml` over the file; references; PATCH races; models are stripped from the file and derived again | what was saved loads again and means the same |
| Quota cache (`plugin/quota.go`) | `quotaCache`, `quotaInflight`, `quotaGeneration` | cached snapshot, single flight, eviction, clearing | a flight that outlives a clearing or a reset | nothing fetched before a reset, expired or foreign is served; nobody waits for ever |
| Quota reset (`plugin/quota_reset.go`) | `quotaResetAttempts`, `quotaResetAccounts` | begin, perform, replay by idempotency key | lost replies, retries, expiry and eviction of attempts | one credit per idempotency key, one reset at a time |
| Key secrets, request fields (`policy/keys.go`, `models.go`) | none | hashing, extraction | | pure |
| Management API (`plugin/app.go:519-936`, `mapping_handlers.go`) | none of its own | one handler per route | PATCH's read-modify-write | see the parts it changes |
| Host bridge (`src/cmd/cpa-key-policy/`) | buffers across cgo | | memory ownership | |
| Web UI (`src/web/src/`) | React state, local storage, messages with the surrounding panel | | late answers, two sources of truth | |

How they meet: `Authenticate` (host call) consults keys, dispatch, limiter and
ledger in this order and stamps the target's group into the request's metadata;
`Route` takes the remembered target; `scheduler.pick` reads the group back and
chooses the auth file; `usage.handle` charges the ledger afterwards. The quota
endpoints find the auth file of a key's group through the same classify rules. A
change of the rules calls back into the App, which clears the classification
cache and the quota state. `Configure` replaces everything at once.

## Modules

| Module | Models | State ↔ code | Actions ↔ code |
|---|---|---|---|
| `KeyRegistry` | what the key store promises | memory, file, and whether they agree | edit, persist, reload, boot, blank file, restart |
| `PolicyStore` | keys, state file, flusher, lifecycle | `keys`, `usage`, `flusher` are fields of `Store`; `disk` the state file; `updateMu` its holder; `admin`, `host`, `loop`, `bill` the program counters of a management request, the host's lifecycle call, the flusher's goroutine and a billing call | a critical section under `mu`, or one write of the file, per action |
| `PolicyStoreProofs` | theorems about `PolicyStore` | | |
| `Tables` | keys' references and models, alias table, classify rules, the file that keeps them | `keys`, `table`, `rules` are `Store.keys`, `aliases`, `classifyRules`; `file` the state file; `patch` the copies that PATCH requests hold | an edit with its write is one action, because it holds `updateMu` throughout; PATCH is two; flush, `Configure`, crash |
| `Billing` | what a request costs, where it is booked, how bookings reach the file | `rule` is what a key's models say of an alias; `ledger` is `usageLedger.entries`; `bill` a `RecordUsage` call, `save` a writer of the file with its snapshot | one per critical section, and one for each map entry that marshalling reads |
| `BillingProofs` | theorems about `Billing` | | |
| `Dispatch` | the three host calls of a request | `table`, `rr`, `picks` are `aliases`, `rrCounters`, `pendingPicks`; `models` is `KeyConfig.Models` | one per critical section of `Authenticate`, `Route`, `ResponseAlias`; edits; the passing of time |
| `Classify` | rules, cache, scheduler, and the two other classifiers | `rules`, `cache` as in the code; `admin`, `host` between a change and its clearing | one per critical section: change, clear, save; look up, snapshot, store, choose |
| `Limits` | limiter and ledger of a key | `bucket`, `entry` | every clock reading and every critical section is an action |
| `Quota` | quota cache, resets, and the upstream they use | `cache`, `inflight`, `attempts`, `accounts` as in the code; `resets`, `credits`, `redeemed` are upstream's | one per critical section and one per upstream call |
| `TablesProofs`, `DispatchProofs`, `ClassifyProofs`, `LimitsProofs`, `QuotaProofs` | theorems about the module of that name | | |
| `Lists` | the loops over a slice that keep what passes a test, in the editors of the classify rules | none; used by `Tables` and `Classify` | |
| `ListProofs` | lemmas about folds, flattening and `Kept`, for `TablesProofs` and `ClassifyProofs` | | |

`KeyRegistry` is the abstract specification; `PolicyStore` is shown to implement it
with `INSTANCE KeyRegistry WITH ...`, both by TLC and by proof. `Quota` composes two
components and an external service, `Billing` the biller, the ledger and the writers
of the state file. The others stand alone: what they would share
(keys, rules) is quantified over, so that each holds whatever the others do.

Abstractions, by module:

- A key is the version of its secret and whether it is enabled; a cost is one unit;
  the state file is three fields. Hashing is equality. A file operation is atomic,
  which `atomicWriteStateFile`'s rename provides, and may fail. A crash loses memory.
- `Shared` in `PolicyStore` says whether the `state_file` of config.yaml is the file
  that `NewApp` opens by default, as in the README's example configuration.
- In `Tables` a price stands for the four price fields and the billing mode of an
  entry, a target for provider, upstream model and group, an empty sequence for a nil or
  empty list; names are compared by equality, the lower-casing having been done. The maps
  and loops of the code are functions and folds here. The checks of single fields (blank
  names, negative prices, invalid patterns) are left out: what they refuse leaves no trace.
  One is not, because references depend on it: an alias without targets is refused
  (`LeadSomewhere`). The state of keys' secrets is `PolicyStore`'s.
- `Billing` has one window per figure, since none expires there (`Limits` has the
  expiry), integer prices per token and no rounding. A provider is the way it counts
  cache hits: inside the input tokens or beside them. A snapshot's `ByAlias` map is
  `Live` until marshalling has read it, for `snapshot` copies the states and shares
  their maps. The dollars due and the tokens of the prompt are carried along as history
  (`due`, `prompt`); `fits` says whether the provider that served a request counts hits as
  the alias's first target does, by which the code bills. `late` remembers usage that
  came back after its key was deleted.
- `Dispatch` has one alias and no authentication failures other than those that
  matter to the queue of selections. An alias's list may name a target twice, as the code
  allows, so selections are counted by place. Time passes in units of the TTL's resolution.
- A classify rule is a field and the set of its values the pattern matches; invalid
  patterns never get into the store. A group is a pair, so that a custom group never
  equals a built-in one, which is what the prefix is for. `Lower` is what `ToLower` and
  `TrimSpace` do to a provider's, a plan's or a tier's name, where the code calls them: the
  built-in groups and the quota page see a plan in lower case, the scheduler's rules do not.
- A snapshot of the quota is the account it was read from, when it was read, and how many
  resets the upstream had applied before the fetch began. Whether it shows them is left
  open: `src/README.md:203` gives the upstream a minute to publish what a reset did.

Variables that a comment marks as history are written by actions and read by
properties only. They record, for instance, which secrets were revoked or whether a
pick's rules were overtaken.

## Runs

All runs are `MC*.cfg` over `MC<Module>.tla`; every definition of the model is used as
it stands. Threads that end are not an error, so deadlock checking is off: in every
module the bounds on requests, edits and ticks end all behaviours. Where waiting for
one another is a hazard, a property is about it (`LifecycleEnds`, `NoOneAbandoned`).

| Run | Shows |
|---|---|
| `policy_store` | 740 thousand states. With two requests, two lifecycle calls and two faults: a revoked secret is neither in memory nor in the file (`RevokedStaysRevoked`); who writes keys holds the lock and current keys (`WritersHoldCurrentKeys`); the store implements the registry (`ImplementsRegistry`); a reload loses no cost that was in the ledger (`UsageSurvivesReload`); lifecycle calls end (`LifecycleEnds`); costs reach the file (`LedgerReachesDisk`) |
| `dispatch` | 1.3 million states. Requests that nothing disturbs go where they were authenticated for (`AlignedUndisturbed`), no expired selection is used (`FreshPicks`), nor one the key never had (`OwnTargets`), and selections rotate evenly (`RotationBalanced`) |
| `classify` | 1.9 million states. `StaleOnlyByRace`, `PickIsRight`; the quota page and the model picker agree with the scheduler, but for rules to which they show a file differently (`QuotaOfServingFile`, `CatalogIsServed`) |
| `limits` | 2.4 million states. No minute sees more than two buckets, and two more for each reading that came late (`TwoBucketsAMinute`); a day's total is never more than its requests cost, and just that unless a reading came late (`DayIsExact`), so is each alias's (`AliasesAreExact`); a spent limit admits nobody (`SpentIsSpent`), that of the week when the week before was idle |
| `quota` | 960 thousand states. Whoever asks after a reset was answered is served from a fetch that began after it (`FetchedAfterReset`), nothing older than the TTL is served (`ServedYoung`), nothing of another account (`OwnQuota`), one reset at a time for a credential (`OneResetPerCredential`), one credit for an idempotency key (`OneCreditPerKey`), and nobody waits for a flight or attempt nobody will settle (`NoOneAbandoned`) |
| `tables` | 560 thousand states. A key's references lead somewhere (`RefsResolve`); what it routes and bills by is what references and table say (`ModelsFollowTable`); an edit that was acknowledged is in effect after a restart, and the file loads (`RestartChangesNothing`); a target that was removed does not come back by itself (`RemovedStaysRemoved`); a request about one key changes no other key and no price (`KeyWritesArePrivate`); the migration of an old file takes nothing from a key (`MigrationLosesNothing`) |
| `billing` | 1.9 million states. The two splits of a prompt agree with each other and with the provider, in every figure kept anywhere (`ChargedOnce`); the aliases' figures account for a key's whole figure, in memory and in a file written while requests are booked (`AliasesCoverTotal`); a key that is created under the id of a deleted one has none of its usage (`InheritsNothing`) |
| `patch_resurrects`, `seed_lost`, `misrouted`, `stale_groups`, `migration_lost` | expected violations, see [Findings](#findings) |

### Bounds, and why they are enough

Each module names its bounds (`Max...`); they only cap how many requests, edits,
faults or ticks there are.

- `policy_store`: one key id with three secrets is what revoking, reusing and
  reviving a secret takes; two management requests race one another, one billing
  call the flusher, two lifecycle calls one after the other reach every leftover of the
  first in the second, and two faults allow a failed write followed by a crash. The same
  properties hold with a state file of its own (`Shared = FALSE`, one fault).
- `dispatch`: two requests of one key exchange selections, a third of another key
  shares the counter; a queue of two overflows; one event suffices to expire or
  remove what a request holds, and the run starts with every choice of keys that refer to
  the alias. One of the lists an edit may install names a target twice. `TTL = 0` makes any
  tick an expiry. The same properties hold for two requests and three events (12 million
  states).
- `classify`: two picks and one change make every race between a pick and a change
  (a second change only ends the effect of the first, for it clears the cache); a
  cache of two entries overflows with three files, one of which changes its plan. One plan is
  spelled with a capital, and a rule matches it as spelled.
- `limits`: a minute, a day and a week of three ticks each put a boundary of each kind
  between any two steps; they differ in where they begin: a minute with a request, a week
  with a cost, a day at midnight. Three requests suffice for an exhausted bucket, a
  bucket that a late reading restarts, and two costs around a boundary, one of them late.
  From day one to the last tick there are seven: for a cost, an idle week, and a week whose
  limit is spent. Costs of
  one and two against limits of two let a limit be met exactly and be overrun. The five
  properties hold with a minute and a day of two ticks as well.
- `quota`: two readers make a flight and a follower, three resetters an attempt, its
  duplicate and a rival; two keys, two credits; tables of one and two entries overflow;
  one tick is a lifetime. The same properties hold with four requests (13 million states).
- `tables`: two keys, aliases, targets and rules; three edits of keys and aliases are
  enough for a reference, the removal of its target and a write of a stale copy, one
  rule edit for a reorder; bodies of aliases include an empty list; two loads, with a silent config.yaml, one with a table and one with a
  key in the old form, over no file or a file in the old form whose keys disagree; one
  failed write.
- `billing`: one id with two creations, two aliases with rules of each kind and one that is
  paid by call; two requests, two edits and one tick of the flusher interleave with each
  other's marshalling and with one failed write or crash. Reports have hits inside the
  input, and more hits than input.

### Fairness

Only `policy_store` has liveness properties. Its fairness is that of goroutines: one
that can take a step eventually does (`WF` of a management request's, a billing call's,
a lifecycle call's and the flusher's steps). The flusher's goroutine gets strong fairness
for leaving its loop: Go's `select` picks among ready channels at random, so a
ticker that is always ready does not hide a closed `stopCh` for ever. Nothing is assumed
about arrivals, ticks, faults or the host's calls. `LedgerReachesDisk` needs that a
flusher runs; it excludes the interval after a lifecycle call that failed, in which
none does (see the [smaller observations](#smaller-observations)).

### Mutants

Each property of a passing run is broken by at least one mutated definition, which
stands beside the original under a comment that begins with "Defect:". They are bugs
this code could have had: a snapshot of before the edit, a cache key without the plan, a
count that stays in a copy, a redemption id drawn anew for each attempt.

## Proofs

Every invariant and every action property that a passing run checks is a theorem, for
every value of the constants that satisfies the module's assumptions. The assumptions are
named where the constants are declared and evaluated in every run; they say what a constant
is (bounds are naturals, a null value is no record, threads differ) unless noted below.

Few of the properties are inductive. Each subsection names the conjuncts that had to be
added and what they rule out. The proof modules have one lemma for each action or group of
actions, one for the step as a whole, and end in the theorem.

### `PolicyStoreProofs`

| Theorem | |
|---|---|
| `TypeCorrect` | `Spec => []TypeOK` |
| `RevocationHolds` | `Spec => []RevokedStaysRevoked` |
| `WritersStayCurrent` | `Spec => []WritersHoldCurrentKeys` |
| `StoreImplementsRegistry` | `Spec => ImplementsRegistry` |
| `CleanStoreIsOnDisk` | the registry's own promise, that memory and file agree when the flag says so, holds of the store |
| `ReloadKeepsUsage` | `Spec => UsageSurvivesReload` |

`RevokedStaysRevoked` is not inductive. A management request writes a snapshot it took
earlier: one that revokes a credential does so in memory first, and the file lets the
credential in until the write. The inductive invariant `IInv` is the conjunction of

- `TypeOK`;
- `WritersHoldCurrentKeys`: whoever is about to write holds `updateMu` and a snapshot
  equal to `keys`, so a write can only move the file to what memory already is;
- `PatchesExempt`: what a PATCH in progress may grant back is not among the firmly
  revoked credentials;
- `SeedOnlyBeforeRevocations`: config.yaml's keys are installed only while there is no
  state file, and then no request was ever acknowledged;
- `RevokedStaysRevoked` itself.

`InvInit`, one lemma for each group of actions and `InvNext` establish it; the
refinement proof uses it to map each step (`MapsArrive`, `MapsProceed`, `MapsFlush`,
`MapsLifecycle`).

`ReloadKeepsUsage` adds `FlushKept`: once `Configure` has waited, no flusher's goroutine is left to
write an older ledger (`FlusherEnds`), and its own snapshot, and then the file, holds at
least what it saw in the ledger when it got the lock (`ReloadCovers`). That nobody resets an entry
meanwhile is `WritersHoldCurrentKeys` again: the requests that do need `updateMu`.

### `TablesProofs`

For all keys, aliases, targets, prices, rules, requests, old files and configurations:

| Theorem | |
|---|---|
| `TypeCorrect` | `Spec => []TypeOK` |
| `ReferencesResolve` | `Spec => []RefsResolve` |
| `KeysFollowTable` | `Spec => []ModelsFollowTable` |
| `RestartIsExact` | `Spec => []RestartChangesNothing` |
| `RemovedIsGone` | `Spec => []RemovedStaysRemoved` |
| `KeyWritesStayPrivate` | `Spec => KeyWritesArePrivate` |
| `MigrationIsKind` | `Spec => MigrationLosesNothing` |

One assumption is about a value and not its type: `ConfigsAreValid`, that a configuration
the host offers normalises to a valid one, for `NormalizeConfig` runs before anything is
installed.

`Inv` says that memory is typed, keys' references name each alias once and aliases of
the table, every alias has a target (`LeadSomewhere`), and the file, when the last write
succeeded, normalises to what memory is (`Mirrored`). `RestartIsExact` follows, since loading
a file that mirrors a valid memory heals nothing. `Gone` adds all the places a removed target
could come back from: the table, the keys' models, the copies that PATCH requests hold,
the normalised file. `Rest` and `Counted` are the types of the remaining variables.

The loops of the code are folds, and the induction theorems of the library cannot be applied to
them. The proofs state instead that a function of the position exists that holds what
each iteration leaves (`FoldExists`, `FoldSteps`, then `MissingSteps`, `FirstOfEachSteps`,
`HealSteps`, `KeptSteps`), and reason about its first position with some property
(`Least`, `Greatest` in `ListProofs`).

### `DispatchProofs`

For all keys, requests, targets and lists, also those that name a target twice, any
length of the queue and any lifetime of a selection:

| Theorem | |
|---|---|
| `TypeCorrect` | `Spec => []TypeOK`: no queue outgrows its limit |
| `RoutedToOwn` | `Spec => []OwnTargets` |
| `RoutedInTime` | `Spec => []FreshPicks` |
| `RoutedAsSelected` | `Spec => []AlignedUndisturbed` |
| `RotationIsFair` | `Spec => []RotationBalanced` |

`Rightful` follows a target wherever it may be: in a key's models (`OwnKey`), in the queue, in a
request (`OwnRequest`), with the time it was put there (`InTime`). `Undisturbed` is stronger than what
the property says of a routed request: the queue's only entry is the request's own
from its authentication on (`Held`). `Rotation` is about the counter of the list: in the cyclic
order that starts after the place taken last, places have been taken no less often the later they come, and the
first and the last differ by one at most.

### `ClassifyProofs`

For all auth files, rules, candidates and any size of the cache:

| Theorem | |
|---|---|
| `TypeCorrect` | `Spec => []TypeOK` |
| `StaleByRaceAlone` | `Spec => []StaleOnlyByRace` |
| `RightFile` | `Spec => []PickIsRight` |
| `QuotaOfThatFile` | `Spec => []QuotaOfServingFile` |
| `OfferedIsServed` | `Spec => []CatalogIsServed` |
| `CacheIsBounded` | the cache never exceeds its capacity |

Assumed, besides types: the host lists an auth file once among the candidates of a pick
(`OneOfEachFile`).

The inductive invariant says where a cache entry that contradicts the rules can come from
(`StaleOnlyByRace`: a pick that a change overtook, or a change that has yet to clear the cache);
that no clearing is pending when a pick counts as undisturbed (`Quiet`); and of such a pick, that
what it has matched so far, with the candidates it has yet to look at, is the group under the rules
(`Right`). `Bounded` is the size of the cache, and `Shaped` the types and that one
request at a time edits (`OneUpdater`). `QuotaOfServingFile` and `CatalogIsServed` compare three
classifiers in the code, and follow from what each computes. Both except the rules to which the
classifiers show a file differently: the first, rules on the tier and on the provider, and on the
plan when the host spells a candidate's plan with capitals (`SameForPage`); the second, rules on a
provider so spelled. For those the statements are false of the code, see the
[smaller observations](#smaller-observations).

### `QuotaProofs`

For all credentials, requests, idempotency keys, lifetimes, capacities and any answers of
the upstream:

| Theorem | |
|---|---|
| `TypeCorrect` | `Spec => []TypeOK`: cache and attempts stay within their capacities |
| `ResetsExclude` | `Spec => []OneResetPerCredential` |
| `CreditsSpentOnce` | `Spec => []OneCreditPerKey` |
| `NobodyAbandoned` | `Spec => []NoOneAbandoned` |
| `QuotaOfOwnAccount` | `Spec => []OwnQuota` |
| `QuotaIsYoung` | `Spec => []ServedYoung` |
| `FetchesFollowResets` | `Spec => []FetchedAfterReset` |

Assumed, besides types: tables hold at least one entry and entries last at least one tick, as
the constants of the code do.

`AccountsHeld` ties `quotaResetAccounts` to the request that is at work; `PaidOnce` relates credits
spent to redemption ids the upstream has seen; `FlightsLed` and `AttemptsLed` say that an unfinished
flight or attempt has a request that will settle it, also after it was forgotten by the maps;
`Honest` that a snapshot, wherever it is (cache, flight, request), is of the account and time it
is kept under. `FetchedAfterReset` needs the most. A fetch covers a reset when it began after
the upstream had applied it (`Covers`). `Fresh` says that a snapshot in the cache, or in a flight that
may still be stored or joined, covers every reset that a request was told of and has cleared the
caches for, and `Counted` that what was told never exceeds what upstream did. The theorem is about
the order of fetching, storing and clearing. It does not say that the user sees the reset: the
upstream may publish the new window up to a minute later (`src/README.md:203`), and then a fetch
that began after the reset brings the old one, which the cache keeps for one lifetime more
(`ServedYoung`).

### `LimitsProofs`

For any number of requests and aliases, all limits and positive costs, and minutes, days and
weeks of any lengths in that order:

| Theorem | |
|---|---|
| `TypeCorrect` | `Spec => []TypeOK` |
| `MinutesAreBounded` | `Spec => []TwoBucketsAMinute` |
| `DayTotals` | `Spec => []DayIsExact` |
| `RowTotals` | `Spec => []AliasesAreExact` |
| `SpentAdmitsNobody` | `Spec => []SpentIsSpent` |

`InOrder` orders the readings of the clock that requests hold. `Bucketed` relates the bucket to the
requests it let pass since it last went back in time (`run`), and `RunsBefore` bounds what passed
before by two buckets for each time it did. `DaysExact` relates the windows to what was recorded,
and leaves out days that a late reading voided; `NeverMore` covers those too, for what a window
holds was recorded on its day.

The week is the harder one, because a window that ends drops all its costs, those of the last minute
too. `Keeps` says what is still in a window: no reading of after its end has been recorded, and
one of its start has; and what was spent within a week of any moment in the window is in the window,
if the week before that week was idle. That is because a cost the window dropped belongs to an
earlier window, which began with a cost less than a week before it: either both are more than a
week old, or the week before was not idle (`WindowOver`, `KeepsCharge`). `Remembers` ties to it what
a request in its check has seen spent, and `Within` what a request that is served had seen.
The attempt to prove `SpentIsSpent` showed an exception no one had thought of: between the check's reading
of the clock and its lock, another request may roll the weekly window over. The check then compares
with the new week, to which its reading does not belong. The property excepts it.

### `BillingProofs`

For every set of ids and reports, every finite set of aliases, all prices, any number of
billers and every bound:

| Theorem | |
|---|---|
| `TypeCorrect` | `Spec => []TypeOK`: no difference of tokens or dollars is negative |
| `ChargesAreFair` | `Spec => []ChargedOnce` |
| `NothingInherited` | `Spec => []InheritsNothing` |
| `AliasesAccountForAll` | `Spec => []AliasesCoverTotal` |

The first two are one argument. `Typed(C)` says that every figure in a bill, the ledger,
a snapshot or the file belongs to the set `C`; `Closed(C)` says that `C` has the zero, every
charge the biller computes, and the sum of any two members. `TypedStep` proves that a step
preserves `Typed(C)` for any closed `C`; `CountersClosed` and `FairCountersClosed` are
the arithmetic: that the price of a report is a natural, and that hits and fresh tokens,
which `cost.go` and `store.go` compute apart, add up to the prompt, priced as due
(`SplitsAgree`, `ChargeIsFair`, `PlusIsFair`).

`InheritsNothing` is not inductive: the request that creates a key does not look at the
ledger, and between `DeleteKey`'s edit and its reset the old usage is still there.
`Accounted` adds what makes the entry empty by then: every creation whose requests an
entry counts is the present one, or is known to be late, or its `DeleteKey` has yet to
reset the entry (`Resetting`); and while it has, the id is vacant, for a new key
needs `updateMu`, which `DeleteKey` holds until it has written.

`AliasesCoverTotal` is about a snapshot that shares its `ByAlias` map with the ledger until
marshalling reads it. `Covering` therefore speaks of what a reader of the snapshot would see now
(`Seen`): cells already read, and the ledger's for those that are still `Live`. Those only grow, so a
booking that comes in the middle raises the sum of the aliases and never the snapshot's total.
What a sum over a finite set does when a member grows is proved by induction on the set's size
(`SumExists`, `SumGrows`, `TotalGrows`).

### Only model-checked

`LifecycleEnds` and `LedgerReachesDisk`: liveness under fairness and `ENABLED` are beyond the
proof system. The expected violations need no proof, a counterexample being one.


## Findings

Expected violations, each a disagreement between the code and what the repository says
of it (quoted in `PROJECT.json`):

- `patch_resurrects`: PATCH copies a key outside `updateMu` and installs the copy later;
  a rotation or deletion acknowledged in between is undone.
- `seed_lost`: with the README's `state_file`, `NewApp` writes an empty state file and
  the keys of config.yaml are never read.
- `misrouted`: two requests of one key and alias swap their selections.
- `stale_groups`: a pick that read the rules before a change stores its verdict after
  the clearing; later requests land on an auth file outside their group.
- `migration_lost`: a state file whose keys have models is migrated in memory only. The next
  flush strips the models from the keys in the file, which has no references for
  them yet; after the next `Configure` or restart the keys lead nowhere.

### Smaller observations

They have no run of their own. About keys, tables and configuration:

- After a `Configure` that fails no flusher runs, while the plugin keeps serving and
  recording; what is recorded reaches the file with the next edit only.
- config.yaml's table and rules, if any, take precedence over the state file's at every
  `Configure`, as the comment at `config.go:282` says and `src/README.md:135` does not: aliases
  made in the UI vanish, or `Configure` fails because a key refers to one. In `Tables` this
  is what `RestartChangesNothing` and `RemovedStaysRemoved` except.
- A PATCH with references only cannot add or drop any: it sends the copied models
  along, and references are reconciled with those. A PATCH with an empty `models` only
  drops none, where the comment at `config.go:338-341` says it drops all.
- A PATCH that copied its key before a target was removed puts the target back.
- When a key's models add a target to an alias, other keys of the alias do not see
  it before the next edit of an alias or restart.
- `ReorderClassifyRules` stores a name that is listed twice as two rules, after which
  writes of keys and of rules are rejected and the state file does not load.
- The comment on `rrCounters` says that editing a key resets them, which nothing does;
  `GroupsForCredential` says it uses "the same semantics as the runtime scheduler" but
  matches a rule on `provider` in lower case.
- The quota page puts an auth file's plan in lower case before the rules see it (`quota.go:113`),
  the scheduler matches it as the host spells it (`app.go:455`). With a rule on the plan "Team" and
  one on a file name into the same group, the page finds one file of the group and shows, or
  resets, its quota, while the scheduler may use the other.

About requests and money:

- An alias of several targets is billed by its first target's way of counting cache
  hits, whichever served (`fits`).
- `snapshot`, "a deep copy" (`usage.go:49`), shares the `ByAlias` maps with the
  ledger, so a file may hold aliases' figures that are ahead of the key's (`AliasesCoverTotal`
  allows it), and Go's runtime may stop the process when it sees the map written and
  read at once (a crash in `Billing`).
- Failed requests that report tokens are charged in token mode; a report of nothing but cache
  hits is free.
- The precharge of image and video requests that are paid by call (`Authenticate`) is
  charged before the request runs, and a host that reports usage for it as well charges twice.
- The ledger's row of an alias is the client's spelling of it, while prices are found
  whatever the case.
- A "rolling" week drops its whole total when it ends, so a key may spend twice its limit
  within seven days. `SpentIsSpent` speaks of the week's limit only where the week before was idle.
- A clock reading taken before the mutex and used after it voids the day that has just begun: what
  it had cost by then is forgotten, and its limit may be spent again. `DayIsExact` says no more of
  such a day (`lateDays`) than that it is not shown above its cost. A reading older than a limiter's
  bucket restarts the bucket (`lateAllows`); `TwoBucketsAMinute` bounds what each lets through.
- The `ResponseAlias` call of an unstreamed answer takes a selection of its own, so that
  an alias of two targets can serve two requests from one.
- Two auth files of one account are two identities, so two resets of the account can run at
  once.

## What is not modelled

Parsing, hashing, JSON and redaction (pure conversions), and with them floating-point
rounding of dollars; `ParseTokenUsage` and `ComputeCost`, which no path that bills uses;
the C ABI of the host bridge; embedded files; the web UI. Retries of what the host does
after an error. The upstream is assumed to apply a redemption id once and to answer
truthfully or not at all; it is marked external. When its usage endpoint shows a reset is not
modelled, and no property depends on it.

## Plan

Done, in the order of importance: keys and their persistence, dispatch, quota,
classification, limits, tables, billing; proofs of every invariant and action property the
passing runs check. What is left:

1. `SelfQuota`: the page's request generation and the session synchronisation of the web UI.
2. The aggregation of catalogue entries and `classify-preview`, in `Classify`.
3. Abstract specifications of more parts, as `KeyRegistry` is of the store: a ledger of which
   `Limits` and `Billing` are two views, and a quota service without cache and flights that
   `Quota` implements.
