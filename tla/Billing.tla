------------------------------ MODULE Billing ------------------------------
(***************************************************************************)
(* What a finished request costs, where the cost is booked, and how the    *)
(* bookings reach the state file (Store.RecordUsage of                     *)
(* internal/policy/store.go, cost.go, and the ledger's RecordCost,         *)
(* snapshot and resetUsage of usage.go).                                   *)
(*                                                                         *)
(* A window is what it accumulates; Limits has its expiry, and here none   *)
(* expires, so that the daily and the weekly one agree and one stands for  *)
(* both.  Dollars are integers: prices per token, sums without rounding.   *)
(* Counters carry, beside what the code counts, what it should have        *)
(* counted: these history fields decide nothing.                           *)
(***************************************************************************)
EXTENDS Naturals, FiniteSets, FiniteSetsExt

CONSTANTS
    Ids, Aliases,
    Billers,        \* RecordUsage calls that can be in progress at once
    Details,        \* the token counts upstreams report
    RuleBodies,     \* what an alias may lead to and cost
    FirstRules,     \* the alias table at first
    NoRule, NoEntry, NoBill, NoSave, NoOne, Live,
    MaxBills, MaxOps, MaxTicks, MaxFaults       \* bounds

\* How a provider counts cache hits: inside its input tokens, or beside them.
Kinds == {"subset", "additive"}

\* UsageDetail, and the first ModelRule of an alias with the kinds of the others.
DetailRecords == [input : Nat, output : Nat, read : Nat, cached : Nat, creation : Nat]
RuleRecords == [perCall : BOOLEAN, first : Kinds, others : SUBSET Kinds,
                in : Nat, out : Nat, cache : Nat, call : Nat]

ASSUME DetailsAreDetails == Details \subseteq DetailRecords
ASSUME RuleBodiesAreRules == RuleBodies \subseteq RuleRecords
ASSUME FirstRulesAreRules == FirstRules \in [Aliases -> RuleBodies \cup {NoRule}]
ASSUME NoRuleIsNone == NoRule \notin RuleRecords
ASSUME BoundsAreNaturals == {MaxBills, MaxOps, MaxTicks, MaxFaults} \subseteq Nat

\* UsageWindow; prompt, due and fits are history.
Counters == [usd : Nat, cacheUsd : Nat, hits : Nat, fresh : Nat, output : Nat, calls : Nat,
             prompt : Nat, due : Nat, fits : BOOLEAN]
Zero == [usd |-> 0, cacheUsd |-> 0, hits |-> 0, fresh |-> 0, output |-> 0, calls |-> 0,
         prompt |-> 0, due |-> 0, fits |-> TRUE]
Plus(c, d) == [usd |-> c.usd + d.usd, cacheUsd |-> c.cacheUsd + d.cacheUsd,
               hits |-> c.hits + d.hits, fresh |-> c.fresh + d.fresh,
               output |-> c.output + d.output, calls |-> c.calls + d.calls,
               prompt |-> c.prompt + d.prompt, due |-> c.due + d.due, fits |-> c.fits /\ d.fits]
----------------------------------------------------------------------------
(***************************************************************************)
(* The biller.                                                             *)
(***************************************************************************)
\* isCacheAdditiveProvider
Additive(kind) == kind = "additive"

\* The cache hits of a record, in whichever field the upstream reports them.
Hits(d) == IF d.read = 0 THEN d.cached ELSE d.read

\* Defect: hits are believed, whatever the input.
BilledHitsUnclamped(r, d) == Hits(d)

\* ComputeCacheCostBreakdown: hits inside the input cannot be more than it.
BilledHits(r, d) == IF Additive(r.first) \/ Hits(d) <= d.input THEN Hits(d) ELSE d.input

InputToBill(r, d) == IF Additive(r.first) THEN d.input + d.creation ELSE d.input - BilledHits(r, d)
CachePrice(r) == IF r.cache = 0 THEN r.in ELSE r.cache
Cost(r, d) == InputToBill(r, d) * r.in + BilledHits(r, d) * CachePrice(r) + d.output * r.out
CachePortion(r, d) == IF r.cache = 0 THEN 0 ELSE BilledHits(r, d) * CachePrice(r)

\* Defect: the tokens written to the cache are forgotten.
NonCacheInputWithoutCreation(r, d) ==
    IF Additive(r.first) THEN d.input
    ELSE d.input - (IF Hits(d) > d.input THEN d.input ELSE Hits(d))

\* RecordUsage splits the input a second time, for the hit rate.
NonCacheInput(r, d) ==
    IF Additive(r.first) THEN d.input + d.creation
    ELSE d.input - (IF Hits(d) > d.input THEN d.input ELSE Hits(d))

\* What the provider that served the request counts as prompt and as cached,
\* and what these cost: not computed by the code.
Prompt(kind, d) == IF Additive(kind) THEN d.input + Hits(d) + d.creation ELSE d.input
Cached(kind, d) == IF Additive(kind) \/ Hits(d) <= d.input THEN Hits(d) ELSE d.input
Due(kind, r, d) == (Prompt(kind, d) - Cached(kind, d)) * r.in
                   + Cached(kind, d) * (IF r.cache = 0 THEN r.in ELSE r.cache) + d.output * r.out

\* A request is charged if its alias has a rule and it succeeded, which token
\* billing sees by tokens.
Charged(r, d, failed) == IF r.perCall THEN ~failed ELSE d.input > 0 \/ d.output > 0

\* What RecordUsage hands to RecordCost.
Charge(r, served, d) ==
    IF r.perCall
    THEN [Zero EXCEPT !.usd = r.call, !.calls = 1, !.due = r.call]
    ELSE [usd |-> Cost(r, d), cacheUsd |-> CachePortion(r, d), hits |-> BilledHits(r, d),
          fresh |-> NonCacheInput(r, d), output |-> d.output, calls |-> 1,
          prompt |-> Prompt(served, d), due |-> Due(served, r, d), fits |-> served = r.first]
----------------------------------------------------------------------------
VARIABLES
    rule,           \* per alias, the first rule a key's models have for it
    keys,           \* which creation of the id is there, 0 when none is
    born,           \* history: how often the id was created
    ledger,         \* usageLedger.entries
    bill,           \* per RecordUsage call, what it will record
    save,           \* per writer of the state file, the snapshot it will write
    persistMu,      \* the writer that is marshalling
    file,           \* the state file
    late,           \* history: usage that came back after its key was deleted
    bills, ops, ticks, faults

bounds == <<bills, ops, ticks, faults>>
vars == <<rule, keys, born, ledger, bill, save, persistMu, file, late, bounds>>

\* A management request, which holds updateMu throughout, and the flusher.
Writers == {"admin", "flusher"}

\* The creations of an id are numbered from 1.
Births == Nat \ {0}

\* UsageState: one figure for the key, one per alias (those not in ByAlias are
\* zero), and, as history, whose requests they count.
Entries(C) == [all : C, by : [Aliases -> C], gens : SUBSET Births]
Ledgers(C) == [Ids -> Entries(C) \cup {NoEntry}]
NoUsage == [id \in Ids |-> NoEntry]

\* A snapshot's entry has the key's figure and the ledger's own ByAlias map,
\* Live as far as it is not marshalled.
Snapshots(C) == [Ids -> [all : C, by : [Aliases -> C \cup {Live}], gens : SUBSET Births] \cup {NoEntry}]
Saves(C) == [pc : {"reset", "write"}, id : Ids, usage : Snapshots(C)]

ASSUME NoSaveIsNone == NoSave \notin Saves(Counters)
ASSUME NoEntryIsNone == NoEntry \notin Entries(Counters)
ASSUME LiveIsNone == Live \notin Counters
ASSUME AliasesAreFinite == IsFiniteSet(Aliases)

\* Every figure, wherever it is, is one of C.
Typed(C) ==
    /\ rule \in [Aliases -> RuleBodies \cup {NoRule}]
    /\ keys \in [Ids -> Nat] /\ born \in [Ids -> Nat]
    /\ ledger \in Ledgers(C)
    /\ bill \in [Billers -> [id : Ids, alias : Aliases, gen : Births, charge : C] \cup {NoBill}]
    /\ save \in [Writers -> Saves(C) \cup {NoSave}]
    /\ persistMu \in Writers \cup {NoOne}
    /\ file \in [rule : [Aliases -> RuleBodies \cup {NoRule}], keys : [Ids -> Nat], usage : Ledgers(C)]
    /\ late \in SUBSET (Ids \X Nat)
    /\ bills \in 0..MaxBills /\ ops \in 0..MaxOps
    /\ ticks \in 0..MaxTicks /\ faults \in 0..MaxFaults

TypeOK == Typed(Counters)

\* The host has configured the plugin: config.yaml's keys and table are saved.
Init ==
    /\ rule = FirstRules
    /\ keys = [id \in Ids |-> 1] /\ born = [id \in Ids |-> 1]
    /\ ledger = NoUsage
    /\ bill = [b \in Billers |-> NoBill]
    /\ save = [w \in Writers |-> NoSave]
    /\ persistMu = NoOne
    /\ file = [rule |-> rule, keys |-> keys, usage |-> NoUsage]
    /\ late = {}
    /\ bills = 0 /\ ops = 0 /\ ticks = 0 /\ faults = 0
----------------------------------------------------------------------------
\* RecordUsage, for the host's usage.handle or, on image and video endpoints that
\* are paid by call, for Authenticate: copies the key, with its models, and
\* computes from the copy.
FindKey(b, id, a, d, failed, served) ==
    /\ bill[b] = NoBill
    /\ bills < MaxBills
    /\ keys[id] # 0
    /\ rule[a] # NoRule
    /\ served \in {rule[a].first} \cup rule[a].others
    /\ Charged(rule[a], d, failed)
    /\ bill' = [bill EXCEPT ![b] = [id |-> id, alias |-> a, gen |-> keys[id],
                                    charge |-> Charge(rule[a], served, d)]]
    /\ bills' = bills + 1
    /\ UNCHANGED <<rule, keys, born, ledger, save, persistMu, file, late, ops, ticks, faults>>

\* entryLocked
EntryOf(id) == IF ledger[id] = NoEntry
               THEN [all |-> Zero, by |-> [a \in Aliases |-> Zero], gens |-> {}]
               ELSE ledger[id]

\* Defect: a charge of nothing is not booked for the alias.
BookPaidOnly(e, m) ==
    [all |-> Plus(e.all, m.charge), gens |-> e.gens \cup {m.gen},
     by |-> [e.by EXCEPT ![m.alias] = IF m.charge.usd = 0 THEN @ ELSE Plus(@, m.charge)]]

Book(e, m) ==
    [all |-> Plus(e.all, m.charge), gens |-> e.gens \cup {m.gen},
     by |-> [e.by EXCEPT ![m.alias] = Plus(@, m.charge)]]

\* RecordCost, under the ledger's mutex, whatever became of the key since.
RecordCost(b) ==
    /\ bill[b] # NoBill
    /\ LET m == bill[b]
       IN  /\ ledger' = [ledger EXCEPT ![m.id] = Book(EntryOf(m.id), m)]
           /\ late' = IF keys[m.id] = m.gen THEN late ELSE late \cup {<<m.id, m.gen>>}
    /\ bill' = [bill EXCEPT ![b] = NoBill]
    /\ UNCHANGED <<rule, keys, born, save, persistMu, file, bounds>>
----------------------------------------------------------------------------
\* usageLedger.snapshot: copies the states but not the maps in them.
Snapshot == [id \in Ids |-> IF ledger[id] = NoEntry THEN NoEntry
                            ELSE [ledger[id] EXCEPT !.by = [a \in Aliases |-> Live]]]

\* What the map of an entry holds now.
Cell(id, a) == IF ledger[id] = NoEntry THEN Zero ELSE ledger[id].by[a]

\* An edit, under updateMu, ends with its snapshot.
Edit(id, pc) ==
    /\ save["admin"] = NoSave
    /\ ops < MaxOps
    /\ ops' = ops + 1
    /\ save' = [save EXCEPT !["admin"] = [pc |-> pc, id |-> id, usage |-> Snapshot]]
    /\ UNCHANGED <<ledger, bill, persistMu, file, late, bills, ticks, faults>>

\* UpsertAlias: the requests that are not billed yet are billed anew.
UpsertAlias(a, r) ==
    /\ rule' = [rule EXCEPT ![a] = r]
    /\ \E id \in Ids : Edit(id, "write")
    /\ UNCHANGED <<keys, born>>

\* UpsertKey, of an id that is not there.
CreateKey(id) ==
    /\ keys[id] = 0
    /\ keys' = [keys EXCEPT ![id] = born[id] + 1]
    /\ born' = [born EXCEPT ![id] = @ + 1]
    /\ Edit(id, "write")
    /\ UNCHANGED rule

\* DeleteKey takes its snapshot, and then ...
DeleteKey(id) ==
    /\ keys[id] # 0
    /\ keys' = [keys EXCEPT ![id] = 0]
    /\ Edit(id, "reset")
    /\ UNCHANGED <<rule, born>>

\* Defect: ... goes on to the write.
ForgetReset ==
    /\ save["admin"] # NoSave /\ save["admin"].pc = "reset"
    /\ save' = [save EXCEPT !["admin"].pc = "write"]
    /\ UNCHANGED <<rule, keys, born, ledger, bill, persistMu, file, late, bounds>>

\* What a snapshot still shares with the entry is out of RecordCost's reach now.
Frozen(usage, id) ==
    IF usage[id] = NoEntry THEN usage
    ELSE [usage EXCEPT ![id].by = [a \in Aliases |-> IF @[a] = Live THEN Cell(id, a) ELSE @[a]]]

\* ... resetUsage removes the entry from the ledger.
ResetUsage ==
    /\ save["admin"] # NoSave /\ save["admin"].pc = "reset"
    /\ LET id == save["admin"].id
       IN  /\ ledger' = [ledger EXCEPT ![id] = NoEntry]
           /\ save' = [w \in Writers |->
                         IF save[w] = NoSave THEN NoSave
                         ELSE [save[w] EXCEPT !.pc = "write", !.usage = Frozen(@, id)]]
    /\ UNCHANGED <<rule, keys, born, bill, persistMu, file, late, bounds>>

\* A tick of the flusher: FlushUsage.
Tick ==
    /\ save["flusher"] = NoSave
    /\ ticks < MaxTicks
    /\ ticks' = ticks + 1
    /\ \E id \in Ids : save' = [save EXCEPT !["flusher"] = [pc |-> "write", id |-> id, usage |-> Snapshot]]
    /\ UNCHANGED <<rule, keys, born, ledger, bill, persistMu, file, late, bills, ops, faults>>

\* json.MarshalIndent reads the maps alias by alias, without the ledger's mutex.
Marshal(w, id, a) ==
    /\ save[w] # NoSave /\ save[w].pc = "write"
    /\ persistMu \in {NoOne, w}
    /\ persistMu' = w
    /\ save[w].usage[id] # NoEntry /\ save[w].usage[id].by[a] = Live
    /\ save' = [save EXCEPT ![w].usage[id].by[a] = Cell(id, a)]
    /\ UNCHANGED <<rule, keys, born, ledger, bill, file, late, bounds>>

Marshalled(usage) == \A id \in Ids : usage[id] # NoEntry => \A a \in Aliases : usage[id].by[a] # Live

\* SaveState writes the tables as well, SaveUsageOnly keeps the file's.  The
\* write may fail, and the file stays.
Write(w) ==
    /\ save[w] # NoSave /\ save[w].pc = "write"
    /\ persistMu \in {NoOne, w}
    /\ Marshalled(save[w].usage)
    /\ \/ /\ file' = IF w = "admin" THEN [rule |-> rule, keys |-> keys, usage |-> save[w].usage]
                     ELSE [file EXCEPT !.usage = save[w].usage]
          /\ UNCHANGED faults
       \/ /\ faults < MaxFaults /\ faults' = faults + 1
          /\ UNCHANGED file
    /\ save' = [save EXCEPT ![w] = NoSave]
    /\ persistMu' = NoOne
    /\ UNCHANGED <<rule, keys, born, ledger, bill, late, bills, ops, ticks>>

\* A crash, also by the runtime's own hand when it sees a map read and written
\* at once, and the next Configure.
Restart ==
    /\ faults < MaxFaults /\ faults' = faults + 1
    /\ rule' = file.rule /\ keys' = file.keys /\ ledger' = file.usage
    /\ late' = late \cup UNION {{id} \X (file.usage[id].gens \ {file.keys[id]}) :
                                    id \in {i \in Ids : file.usage[i] # NoEntry}}
    /\ bill' = [b \in Billers |-> NoBill]
    /\ save' = [w \in Writers |-> NoSave]
    /\ persistMu' = NoOne
    /\ UNCHANGED <<born, file, bills, ops, ticks>>

Requests == \E b \in Billers : \/ RecordCost(b)
                               \/ \E id \in Ids, a \in Aliases, d \in Details, failed \in BOOLEAN,
                                     served \in Kinds : FindKey(b, id, a, d, failed, served)
Administration == \/ \E a \in Aliases, r \in RuleBodies : UpsertAlias(a, r)
                  \/ \E id \in Ids : CreateKey(id) \/ DeleteKey(id)
                  \/ ResetUsage
Saving == \/ Tick
          \/ \E w \in Writers : Write(w) \/ \E id \in Ids, a \in Aliases : Marshal(w, id, a)

Next == Requests \/ Administration \/ Saving \/ Restart
Spec == Init /\ [][Next]_vars
----------------------------------------------------------------------------
\* A figure is right if the tokens it counts as read from the cache and as fresh
\* are the prompts' together, and its dollars what they are worth, provided that
\* every provider reported hits the way the first target's kind does.
Fair(c) == /\ c.cacheUsd <= c.usd
           /\ c.fits => c.hits + c.fresh = c.prompt /\ c.usd = c.due
FairCounters == {c \in Counters : Fair(c)}

\* The two places that split a prompt into hits and fresh tokens (cost.go for the
\* bill, store.go for the hit rate) agree with each other and with the provider,
\* in every figure of the ledger, of a snapshot and of the file.
ChargedOnce == Typed(FairCounters)

Fields == {"usd", "cacheUsd", "hits", "fresh", "output", "calls"}
Sum(e, f) == MapThenSumSet(LAMBDA a : e.by[a][f], Aliases)
Booked(e) == e # NoEntry => \A f \in Fields : e.all[f] <= Sum(e, f)

\* The aliases' figures account for the whole of a key's figure, in memory and in
\* the file, though the file's may be read while requests are booked.  They can
\* be ahead of it, never behind.
AliasesCoverTotal == \A id \in Ids : Booked(ledger[id]) /\ Booked(file.usage[id])

\* A key that is created under the id of a deleted one has no part of that one's
\* usage, unless a request of the old key was booked after the deletion, or a
\* crash came before the usage had left the file.
InheritsNothing ==
    \A id \in Ids : keys[id] # 0 /\ ledger[id] # NoEntry =>
      \A g \in ledger[id].gens \ {keys[id]} : <<id, g>> \in late
=============================================================================
