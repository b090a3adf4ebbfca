------------------------------- MODULE Tables -------------------------------
(***************************************************************************)
(* The tables an administrator edits and the state file that keeps them:   *)
(* the keys with their references to aliases, the global alias table and   *)
(* the list of classification rules (internal/policy/store.go, config.go   *)
(* and the handlers of internal/plugin/app.go, mapping_handlers.go).       *)
(*                                                                         *)
(* Every edit holds Store.updateMu from its first look at the tables to    *)
(* the end of its write, so it is one action; PATCH /keys copies the key   *)
(* before it asks for the mutex, and is two.  A price stands for the four  *)
(* price fields and the billing mode of an entry, a target for provider,   *)
(* model and group.  The secrets of keys are PolicyStore's subject, usage  *)
(* is Billing's.                                                           *)
(***************************************************************************)
EXTENDS Naturals, FiniteSets, Lists

CONSTANTS
    IdOrder,        \* the ids of keys, in the order in which a file lists them
    Aliases,        \* names in the global table
    Targets,        \* where an alias can lead to
    Prices,
    Rules,          \* names of classification rules
    Patchers,       \* PATCH requests that can be in progress at once
    Unset,          \* a reference without a price override
    Absent,         \* a field that a request leaves out
    NoFile, NoPatch,
    KeyBodies,      \* the refs and models that requests about keys carry
    AliasBodies,    \* the target lists that POST /aliases carries
    Configs,        \* the config.yaml files the host may pass
    OldFiles,       \* what may lie at the state file's path at first
    MaxEdits, MaxRuleEdits, MaxLoads, MaxFaults     \* bounds

Ids == ToSet(IdOrder)

ASSUME BoundsAreNaturals == {MaxEdits, MaxRuleEdits, MaxLoads, MaxFaults} \subseteq Nat
ASSUME IdsAreListed == IdOrder \in Seq(Ids)

\* KeyAliasRef, ModelRule, AliasMapping.
Refs == [alias : Aliases, price : Prices \cup {Unset}]
ModelRules == [alias : Aliases, target : Targets, price : Prices]
Keys == [refs : Seq(Refs), models : Seq(ModelRules)]
Entries == [targets : Seq(Targets), price : Prices]

\* Keys by their ids and entries by their names are maps.
Nothing == [x \in {} |-> x]
With(f, x, v) == [y \in DOMAIN f \cup {x} |-> IF y = x THEN v ELSE f[y]]
Without(f, x) == [y \in DOMAIN f \ {x} |-> f[y]]

VARIABLES
    keys,           \* Store.keys
    table,          \* Store.aliases
    rules,          \* Store.classifyRules
    up,             \* the host has configured this process
    file,           \* the state file
    patch,          \* per PATCH request, the key it will write
    synced,         \* history: the file holds what memory holds
    removed,        \* history: <<alias, target>> pairs whose removal was acknowledged
    edits, ruleEdits, loads, faults

memory == <<keys, table, rules>>
bounds == <<edits, ruleEdits, loads, faults>>
vars == <<memory, up, file, patch, synced, removed, bounds>>

IsKeys(ks) == DOMAIN ks \subseteq Ids /\ ks \in [DOMAIN ks -> Keys]
IsTable(tab) == DOMAIN tab \subseteq Aliases /\ tab \in [DOMAIN tab -> Entries]
IsTables(ks, tab, rs) == IsKeys(ks) /\ IsTable(tab) /\ rs \in Seq(Rules)

\* JSON and YAML of the types of the code.
ASSUME FilesAreTyped ==
    \A c \in Configs \cup (OldFiles \ {NoFile}) :
      c = [keys |-> c.keys, table |-> c.table, rules |-> c.rules] /\ IsTables(c.keys, c.table, c.rules)
ASSUME RequestsAreTyped ==
    /\ AliasBodies \subseteq Seq(Targets)
    /\ KeyBodies \subseteq [refs : Seq(Refs) \cup {Absent}, models : Seq(ModelRules) \cup {Absent}]

TypeOK ==
    /\ IsTables(keys, table, rules)
    /\ up \in BOOLEAN
    /\ file = NoFile \/ IsTables(file.keys, file.table, file.rules)
    /\ \A p \in Patchers : patch[p] = NoPatch \/ (patch[p].id \in Ids /\ patch[p].key \in Keys)
    /\ synced \in BOOLEAN
    /\ removed \in SUBSET (Aliases \X Targets)
    /\ edits \in 0..MaxEdits /\ ruleEdits \in 0..MaxRuleEdits
    /\ loads \in 0..MaxLoads /\ faults \in 0..MaxFaults
----------------------------------------------------------------------------
(***************************************************************************)
(* normalizeConfig: old keys are migrated, references checked.             *)
(***************************************************************************)
AliasesOf(s) == {s[i].alias : i \in DOMAIN s}

\* mergeAliasTarget, model by model: the targets that alias a does not have yet.
Missing(a, targets, models) ==
    FoldLeft(LAMBDA acc, m : IF m.alias # a \/ Contains(targets \o acc, m.target) THEN acc
                             ELSE Append(acc, m.target),
             <<>>, models)

\* An alias that the models create, at the price of its first.
NewEntry(a, models) ==
    [targets |-> Missing(a, <<>>, models),
     price |-> models[SelectInSeq(models, LAMBDA m : m.alias = a)].price]

\* Defect: an alias that exists takes the price of the model promoted into it.
PromoteAtItsPrice(tab, models) ==
    [a \in DOMAIN tab \cup AliasesOf(models) |->
       IF a \notin DOMAIN tab THEN NewEntry(a, models)
       ELSE [targets |-> tab[a].targets \o Missing(a, tab[a].targets, models),
             price |-> IF a \in AliasesOf(models) THEN NewEntry(a, models).price ELSE tab[a].price]]

\* Defect: an alias that exists is reused as it is.
PromoteWholesale(tab, models) ==
    [a \in DOMAIN tab \cup AliasesOf(models) |->
       IF a \in DOMAIN tab THEN tab[a]
       ELSE [NewEntry(a, models) EXCEPT !.targets = <<@[1]>>]]

\* Models go into the aliases of their names.  One that exists keeps its price,
\* and its targets in their order.
Promote(tab, models) ==
    [a \in DOMAIN tab \cup AliasesOf(models) |->
       IF a \notin DOMAIN tab THEN NewEntry(a, models)
       ELSE [tab[a] EXCEPT !.targets = @ \o Missing(a, @, models)]]

\* The first entry of each of the aliases named.
FirstOfEach(s, names) ==
    FoldLeft(LAMBDA acc, e : IF e.alias \in names \ AliasesOf(acc) THEN Append(acc, e) ELSE acc,
             <<>>, s)

\* The references a key with models ends up with: those that its models name,
\* then one for each alias that is new.
Reconcile(refs, models) ==
    LET new == [i \in DOMAIN models |-> [alias |-> models[i].alias, price |-> Unset]]
    IN  FirstOfEach(refs \o new, AliasesOf(models))

\* A second reference to an alias lends its override to the first.
Heal(refs) ==
    LET Lend(acc, r) ==
          IF r.alias \notin AliasesOf(acc) THEN Append(acc, r)
          ELSE [i \in DOMAIN acc |-> IF acc[i].alias = r.alias /\ acc[i].price = Unset
                                     THEN r ELSE acc[i]]
    IN  FoldLeft(Lend, <<>>, refs)

\* migrateModelsToAliases for one key, and the key's references put in order.
Migrate(k) == [refs |-> Heal(IF k.models = <<>> THEN k.refs ELSE Reconcile(k.refs, k.models)),
               models |-> <<>>]

\* The tables a configuration amounts to.
Normalize(c) ==
    LET old == FlattenSeq([i \in DOMAIN IdOrder |->
                 IF IdOrder[i] \in DOMAIN c.keys THEN c.keys[IdOrder[i]].models ELSE <<>>])
    IN  [keys |-> [id \in DOMAIN c.keys |-> Migrate(c.keys[id])],
         table |-> Promote(c.table, old),
         rules |-> c.rules]

LeadSomewhere(tab) == \A a \in DOMAIN tab : tab[a].targets # <<>>
NoRepeats(s) == Cardinality(ToSet(s)) = Len(s)

\* What makes normalizeConfig return an error: an alias that leads nowhere, a
\* rule's name used twice, or a reference to an alias that is not in the table.
Valid(n) ==
    /\ LeadSomewhere(n.table)
    /\ NoRepeats(n.rules)
    /\ \A id \in DOMAIN n.keys : AliasesOf(n.keys[id].refs) \subseteq DOMAIN n.table

\* Configure refuses a config.yaml that is not valid before all else.
ASSUME ConfigsAreValid == \A c \in Configs : Valid(Normalize(c))

\* Defect: the override of the reference is taken even where there is none.
ResolveAtOverride(refs, tab) ==
    FlattenSeq([i \in DOMAIN refs |->
      LET e == tab[refs[i].alias]
      IN  [j \in DOMAIN e.targets |->
             [alias |-> refs[i].alias, target |-> e.targets[j], price |-> refs[i].price]]])

\* resolveAliasRefsToModels
Resolve(refs, tab) ==
    FlattenSeq([i \in DOMAIN refs |->
      LET e == tab[refs[i].alias]
      IN  [j \in DOMAIN e.targets |->
             [alias |-> refs[i].alias, target |-> e.targets[j],
              price |-> IF refs[i].price = Unset THEN e.price ELSE refs[i].price]]])

\* A key without references keeps the models it has, which are none.
Resolved(k, tab) ==
    IF k.refs = <<>> THEN k ELSE [k EXCEPT !.models = Resolve(k.refs, tab)]
ResolveAll(ks, tab) == [id \in DOMAIN ks |-> Resolved(ks[id], tab)]
----------------------------------------------------------------------------
(***************************************************************************)
(* Writing the state file, at the end of every edit.                       *)
(***************************************************************************)
Pairs(tab) == {p \in (DOMAIN tab) \X Targets : Contains(tab[p[1]].targets, p[2])}
PairsOf(models) == {<<models[i].alias, models[i].target>> : i \in DOMAIN models}
Held == UNION {PairsOf(patch[p].key.models) : p \in {q \in Patchers : patch[q] # NoPatch}}

\* SaveState leaves the derived models out.
Stripped(ks) == [id \in DOMAIN ks |-> [ks[id] EXCEPT !.models = <<>>]]

\* Defect: the snapshots are taken before the edit.
SaveStateOfBefore ==
    file' = [keys |-> Stripped(keys), table |-> table, rules |-> rules]

SaveState ==
    file' = [keys |-> Stripped(keys'), table |-> table', rules |-> rules']

\* The write is the last thing an edit does, and its answer is the request's.
\* What the edit grants may be there again; a pair it takes away is removed
\* for good if the write succeeds and no PATCH in progress holds a copy.
Save(grants, revokes) ==
    \/ /\ SaveState
       /\ synced' = TRUE
       /\ removed' = (removed \ grants) \cup (revokes \ Held)
       /\ UNCHANGED faults
    \/ /\ faults < MaxFaults
       /\ faults' = faults + 1
       /\ synced' = FALSE
       /\ removed' = removed \ grants
       /\ UNCHANGED file
----------------------------------------------------------------------------
Init ==
    /\ keys = Nothing /\ table = Nothing /\ rules = <<>>
    /\ up = FALSE
    /\ file \in OldFiles
    /\ patch = [p \in Patchers |-> NoPatch]
    /\ synced = FALSE
    /\ removed = {}
    /\ edits = 0 /\ ruleEdits = 0 /\ loads = 0 /\ faults = 0

Edit == up /\ edits < MaxEdits /\ edits' = edits + 1
RuleEdit == up /\ ruleEdits < MaxRuleEdits /\ ruleEdits' = ruleEdits + 1

\* Defect: the keys keep the models they had.
UpsertAliasOnly(a, targets, price) ==
    /\ Edit
    /\ targets # <<>>
    /\ table' = With(table, a, [targets |-> targets, price |-> price])
    /\ UNCHANGED <<keys, rules, up, patch, ruleEdits, loads>>
    /\ Save({a} \X ToSet(targets), Pairs(table) \ Pairs(table'))

\* UpsertAlias: the entry replaces the one of its name, unless it leads nowhere.
\* Every key's models are derived anew.
UpsertAlias(a, targets, price) ==
    /\ Edit
    /\ targets # <<>>
    /\ table' = With(table, a, [targets |-> targets, price |-> price])
    /\ keys' = ResolveAll(keys, table')
    /\ UNCHANGED <<rules, up, patch, ruleEdits, loads>>
    /\ Save({a} \X ToSet(targets), Pairs(table) \ Pairs(table'))

\* Defect: the references are looked up in the file.
ReferencedInFile(a) ==
    file # NoFile /\ \E id \in DOMAIN file.keys : a \in AliasesOf(file.keys[id].refs)

\* Some key refers to the alias.
Referenced(a) == \E id \in DOMAIN keys : a \in AliasesOf(keys[id].refs)

\* DeleteAlias is refused while a key refers to the alias.
DeleteAlias(a) ==
    /\ Edit
    /\ ~Referenced(a)
    /\ table' = Without(table, a)
    /\ UNCHANGED <<keys, rules, up, patch, ruleEdits, loads>>
    /\ Save({}, Pairs(table) \ Pairs(table'))

\* UpsertKey's check of one key against the tables there are.
Checked(id, k) == Normalize([keys |-> With(Nothing, id, k), table |-> table, rules |-> rules])

\* The key is installed, and the aliases its models were promoted into.
InstallKey(id, k, grants) ==
    LET n == Checked(id, k)
    IN  /\ Valid(n)
        /\ keys' = With(keys, id, Resolved(n.keys[id], n.table))
        /\ table' = n.table
        /\ UNCHANGED <<rules, up>>
        /\ Save(grants, {})

OrElse(field, default) == IF field = Absent THEN default ELSE field
Granted(body) == IF body.models = Absent THEN {} ELSE PairsOf(body.models)

\* POST /keys: UpsertKey, also in the place of a key of that id.
CreateKey(id, body) ==
    /\ Edit
    /\ InstallKey(id, [refs |-> OrElse(body.refs, <<>>), models |-> OrElse(body.models, <<>>)],
                  Granted(body))
    /\ UNCHANGED <<patch, ruleEdits, loads>>

\* PATCH /keys: the handler copies the key, derived models included, and puts
\* the fields of the request into the copy ...
PatchRead(p, id, body) ==
    /\ patch[p] = NoPatch
    /\ Edit
    /\ id \in DOMAIN keys
    /\ patch' = [patch EXCEPT ![p] =
                   [id |-> id, key |-> [refs |-> OrElse(body.refs, keys[id].refs),
                                        models |-> OrElse(body.models, keys[id].models)]]]
    /\ removed' = removed \ Granted(body)
    /\ UNCHANGED <<memory, up, file, synced, ruleEdits, loads, faults>>

\* ... and hands it to UpsertKey, which may find the tables changed and refuse.
PatchWrite(p) ==
    /\ patch[p] # NoPatch
    /\ patch' = [patch EXCEPT ![p] = NoPatch]
    /\ \/ InstallKey(patch[p].id, patch[p].key, {})
       \/ /\ ~Valid(Checked(patch[p].id, patch[p].key))
          /\ UNCHANGED <<memory, up, file, synced, removed, faults>>
    /\ UNCHANGED <<edits, ruleEdits, loads>>

DeleteKey(id) ==
    /\ Edit
    /\ id \in DOMAIN keys
    /\ keys' = Without(keys, id)
    /\ UNCHANGED <<table, rules, up, patch, ruleEdits, loads>>
    /\ Save({}, {})
----------------------------------------------------------------------------
\* UpsertClassifyRule: what else a rule says is not modelled, so replacing the
\* first rule of a name leaves the list as it is.
UpsertClassifyRule(r) ==
    /\ RuleEdit
    /\ LET new == IF Contains(rules, r) THEN rules ELSE Append(rules, r)
       IN  /\ NoRepeats(new)
           /\ rules' = new
    /\ UNCHANGED <<keys, table, up, patch, edits, loads>>
    /\ Save({}, {})

DeleteClassifyRule(r) ==
    /\ RuleEdit
    /\ rules' = Kept(rules, Rules \ {r})
    /\ UNCHANGED <<keys, table, up, patch, edits, loads>>
    /\ Save({}, {})

\* The rules named, as often as they are, then the others.
Reordered(names) == Kept(names, ToSet(rules)) \o Kept(rules, Rules \ ToSet(names))

ReorderClassifyRules(names) ==
    /\ RuleEdit
    /\ rules' = Reordered(names)
    /\ UNCHANGED <<keys, table, up, patch, edits, loads>>
    /\ Save({}, {})
----------------------------------------------------------------------------
\* SaveUsageOnly writes the file's own tables back, but no models.
WithUsage(f) ==
    IF f = NoFile THEN [keys |-> Nothing, table |-> Nothing, rules |-> <<>>]
    ELSE [f EXCEPT !.keys = Stripped(@)]

\* The file is, or is no longer, what memory holds: a flush of an old file says
\* less than memory does until an edit is saved.
SyncedWith(found) == synced /\ Normalize(found) = Normalize(file)

\* The flusher's tick.  If the write fails, nothing happens.
FlushUsage ==
    /\ up
    /\ file' = WithUsage(file)
    /\ synced' = SyncedWith(file')
    /\ UNCHANGED <<memory, up, patch, removed, bounds>>

\* What Configure makes of config.yaml and the state file: the keys are the
\* file's; the table and the rules are config.yaml's unless it has none.
Loaded(c, f) ==
    LET n == Normalize(c)
    IN  Normalize([keys |-> f.keys,
                   table |-> IF n.table = Nothing THEN f.table ELSE n.table,
                   rules |-> IF n.rules = <<>> THEN f.rules ELSE n.rules])

Install(n) ==
    /\ keys' = ResolveAll(n.keys, n.table)
    /\ table' = n.table
    /\ rules' = n.rules
    /\ up' = TRUE

\* Without a state file all is config.yaml's, and is saved.
FirstBoot(c) ==
    /\ Install(Normalize(c))
    /\ Save(Pairs(table'), {})

Reload(c, found) ==
    /\ Valid(Loaded(c, found))
    /\ Install(Loaded(c, found))
    /\ file' = found
    /\ synced' = (Loaded(c, found) = Normalize(found))
    /\ removed' = removed \ Pairs(Normalize(c).table)
    /\ UNCHANGED faults

\* An error: memory stays as it was.
ReloadRefused(c, found) ==
    /\ ~Valid(Loaded(c, found))
    /\ file' = found
    /\ synced' = SyncedWith(found)
    /\ UNCHANGED <<memory, up, removed, faults>>

\* A running process flushes once more before it loads, and does not mind if
\* that fails.  A new one knows no path to flush to.
Found == IF up THEN {file, WithUsage(file)} ELSE {file}

\* Store.Configure, in a new process or a running one.
Configure(c) ==
    /\ loads < MaxLoads
    /\ loads' = loads + 1
    /\ UNCHANGED <<patch, edits, ruleEdits>>
    /\ \E found \in Found : \/ found = NoFile /\ FirstBoot(c)
                            \/ found # NoFile /\ Reload(c, found)
                            \/ found # NoFile /\ ReloadRefused(c, found)

Crash ==
    /\ up
    /\ up' = FALSE
    /\ keys' = Nothing /\ table' = Nothing /\ rules' = <<>>
    /\ patch' = [p \in Patchers |-> NoPatch]
    /\ synced' = FALSE
    /\ UNCHANGED <<file, removed, bounds>>

EditTables == \E a \in Aliases : \/ DeleteAlias(a)
                                 \/ \E ts \in AliasBodies, p \in Prices : UpsertAlias(a, ts, p)
EditRules == \/ \E r \in Rules : UpsertClassifyRule(r) \/ DeleteClassifyRule(r)
             \/ \E names \in BoundedSeq(Rules, 2) : ReorderClassifyRules(names)

\* A write of key id by a request about that key.
KeyWrite(id) == \/ \E body \in KeyBodies : CreateKey(id, body)
                \/ \E p \in Patchers : patch[p] # NoPatch /\ patch[p].id = id /\ PatchWrite(p)
EditKeys == \E id \in Ids : \/ KeyWrite(id)
                            \/ DeleteKey(id)
                            \/ \E p \in Patchers, body \in KeyBodies : PatchRead(p, id, body)

Next == \/ EditTables \/ EditRules \/ EditKeys
        \/ FlushUsage \/ Crash \/ \E c \in Configs : Configure(c)
Spec == Init /\ [][Next]_vars
----------------------------------------------------------------------------
\* A reference leads somewhere: whatever was created, patched, migrated,
\* deleted and reloaded in between, DeleteAlias never takes an entry that a key
\* in memory refers to, and Configure installs no such key.
RefsResolve == \A id \in DOMAIN keys : AliasesOf(keys[id].refs) \subseteq DOMAIN table

\* What a key routes and bills by is what its references and the table say: for
\* each reference, targets of the alias in the table's order at the override's or
\* the table's price, and nothing else.  The list may end early, when another
\* key's models added targets to the alias since: only an edit of an alias, a
\* write of the key or a reload derives it anew.
ModelsFollowTable ==
    \A id \in DOMAIN keys :
      LET k == keys[id]
      IN  /\ AliasesOf(k.models) \subseteq AliasesOf(k.refs)
          /\ \A i \in DOMAIN k.refs :
               LET r == k.refs[i]
                   ms == Kept(k.models, {m \in ModelRules : m.alias = r.alias})
                   e == table[r.alias]
               IN  /\ ms # <<>>
                   /\ IsPrefix([j \in DOMAIN ms |-> ms[j].target], e.targets)
                   /\ \A j \in DOMAIN ms : ms[j].price = IF r.price = Unset THEN e.price ELSE r.price

\* Once an edit has answered 200, a restart with a config.yaml that only names
\* the file finds the same references, table and rules; and the file can be
\* loaded at all unless a reorder request listed a rule twice.
RestartChangesNothing ==
    synced =>
      LET n == Loaded([keys |-> Nothing, table |-> Nothing, rules |-> <<>>], file)
      IN  /\ Valid(n) <=> NoRepeats(rules)
          /\ n.table = table /\ n.rules = rules
          /\ DOMAIN n.keys = DOMAIN keys
          /\ \A id \in DOMAIN keys : n.keys[id].refs = keys[id].refs

\* A target that an edit took out of an alias, or a whole alias, does not come
\* back by itself: not by the PATCH of a key whose derived models still name it,
\* not by a crash or a reload.  It may come back if someone asks for it, if
\* config.yaml has it, or with a PATCH that copied its key before the edit.
RemovedStaysRemoved ==
    /\ removed \cap Pairs(table) = {}
    /\ file # NoFile => removed \cap Pairs(Normalize(file).table) = {}

\* A request about one key leaves the other keys alone, and an alias that exists
\* keeps its price and its targets, to which the key's models may be added.
KeyWritesArePrivate ==
    [][\A id \in Ids : KeyWrite(id) =>
         /\ (DOMAIN keys') \ {id} = (DOMAIN keys) \ {id}
         /\ \A other \in DOMAIN keys \ {id} : keys'[other] = keys[other]
         /\ \A a \in DOMAIN table :
              /\ a \in DOMAIN table'
              /\ table'[a].price = table[a].price
              /\ IsPrefix(table[a].targets, table'[a].targets)]_vars

\* Migrating an old state file takes nothing from a key: every target that its
\* models listed it still reaches under the alias it had, in the process that
\* loads the file first.
MigrationLosesNothing ==
    [][~up /\ up' /\ file # NoFile =>
         \A id \in DOMAIN file.keys :
           PairsOf(file.keys[id].models) \subseteq PairsOf(keys'[id].models)]_vars

\* And it is for good: Configure "auto-migrates any state keys still using
\* per-key Models" (store.go), and a flush keeps "the key list already on disk"
\* (config.go).  So a key that nobody edits leads where it did, however often the
\* host configures the plugin.
MigratedKeysStay ==
    [][edits' = 0 /\ up' =>
         \A id \in DOMAIN keys :
           /\ id \in DOMAIN keys'
           /\ PairsOf(keys[id].models) \subseteq PairsOf(keys'[id].models)]_vars
=============================================================================
