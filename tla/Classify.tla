------------------------------ MODULE Classify ------------------------------
(***************************************************************************)
(* Which auth file may serve a request (internal/plugin/app.go and         *)
(* internal/policy/classify.go).  Administrators edit the classify rules;  *)
(* each edit clears the App's cache of classifications through a callback. *)
(* Meanwhile the host asks scheduler.pick, on goroutines of its own, which *)
(* of several auth files serves a request that was pinned to a group.      *)
(*                                                                         *)
(* The rules are under Store.mu, the cache under classifyMu, and a pick    *)
(* takes neither for longer than one look: every critical section is one   *)
(* action.  The specification starts after the host's first Configure,     *)
(* which loads the rules and registers the callback before it returns.     *)
(***************************************************************************)
EXTENDS Integers, FiniteSets, Lists

CONSTANTS
    Offers,         \* what the host can say of an auth file: records of
                    \* id, provider, plan, tier, priority and usable
    RuleSpace,      \* classify rules: records of name, enabled, field, values, group
    ConfigRules,    \* what config.yaml can hold: sequences of rules
    Candidates,     \* the lists of candidates the host can send: sequences of offers
    Pinned,         \* the groups requests are pinned to, NoGroup included
    Lower,          \* strings.ToLower and TrimSpace, on names of providers, plans and tiers
    Admins,         \* management requests
    Pickers,        \* calls of scheduler.pick
    NoOne, None,
    NotFound, Delegated,    \* a pick that fails, and one left to the host
    Capacity,       \* classifyCacheCapacity
    MaxChanges,     \* bound: edits and reconfigurations
    MaxPicks        \* bound: picks

ASSUME RulesAreRules == ConfigRules \subseteq Seq(RuleSpace)
ASSUME OffersAreRecords ==
    /\ Offers \subseteq [id : Nat, provider : DOMAIN Lower, plan : DOMAIN Lower,
                         tier : DOMAIN Lower, priority : Int, usable : BOOLEAN]
    /\ NotFound \notin {o.id : o \in Offers}
ASSUME OneOfEachFile == \A list \in Candidates :
    /\ list \in Seq(Offers)
    /\ \A i, j \in DOMAIN list : list[i].id = list[j].id => i = j
ASSUME BoundsAreNatural == {MaxChanges, MaxPicks} \subseteq Nat /\ Capacity \in Nat \ {0}
ASSUME NoOneIsNoAdmin == NoOne \notin Admins

Names == {r.name : r \in RuleSpace}
Members(list) == {list[i] : i \in DOMAIN list}
NoDuplicates(list) == \A i, j \in DOMAIN list : list[i].name = list[j].name => i = j

\* A rule's group gets a prefix and never meets a built-in one.
Custom(g) == <<"classify", g>>
Builtin(t) == <<"tier", t>>
NoGroup == <<"none", "">>
NoClaim == ""
ASSUME LowerIsLower ==
    /\ \A n \in DOMAIN Lower : Lower[n] \in DOMAIN Lower /\ Lower[Lower[n]] = Lower[n]
    /\ NoClaim \in DOMAIN Lower /\ Lower[NoClaim] = NoClaim
Groups == {Custom(r.group) : r \in RuleSpace} \cup
          {Builtin(t) : t \in {"supported"} \cup
                               UNION {{Lower[o.plan], Lower[o.tier]} \ {NoClaim} : o \in Offers}}

\* The value of a rule's field for a credential, as the host spells it: none,
\* or one.  Of the attributes a rule may name, the offers have the plan and
\* the tier.  Ids have no spaces around them; the group of a rule is lower
\* case already.
FieldValue(o, field) == CASE field = "filename" -> {o.id}
                          [] field = "provider" -> {o.provider}
                          [] field = "plan_type" -> {o.plan} \ {NoClaim}
                          [] field = "tier" -> {o.tier} \ {NoClaim}
                          [] OTHER -> {}
Matches(r, o) == FieldValue(o, r.field) \cap r.values # {}

\* Built-in groups, unlike rules, go by the claims in lower case.
PlanOrTier(o) == IF Lower[o.plan] # NoClaim THEN Lower[o.plan] ELSE Lower[o.tier]
BuiltInGroup(o) == Builtin(IF PlanOrTier(o) = NoClaim THEN "supported" ELSE PlanOrTier(o))

CustomGroups(o, rs) == {Custom(r.group) : r \in {r \in rs : r.enabled /\ Matches(r, o)}}
CandidateGroups(o, rs) ==
    IF CustomGroups(o, rs) # {} THEN CustomGroups(o, rs) ELSE {BuiltInGroup(o)}

\* Defect: classifications are kept by file, whatever its plan is by now.
KeyByID(o) == <<o.id, o.provider>>
CacheKey(o) == <<o.id, o.provider, o.plan, o.tier>>
CacheKeys == {CacheKey(o) : o \in Offers}

VARIABLES
    rules,      \* Store.classifyRules
    stored,     \* the rules in the state file
    updater,    \* the request that holds Store.updateMu
    admin,      \* where each management request is
    host,       \* where the host's Configure is: it clears after it let go of updateMu
    cache,      \* App.classifyCache: entries or None
    picker,
    changes, picks

vars == <<rules, stored, updater, admin, host, cache, picker, changes, picks>>

\* raced, here and in a pick: the rules changed after they were read for it.
Entries == [groups : SUBSET Groups, raced : BOOLEAN]
Cached == {k \in CacheKeys : cache[k] # None}

Idle == [pc |-> "idle", group |-> NoGroup, cands |-> {}, todo |-> <<>>, snap |-> {},
         matched |-> {}, result |-> None, raced |-> FALSE, steady |-> FALSE,
         tainted |-> FALSE]

TypeOK ==
    /\ {rules, stored} \subseteq Seq(RuleSpace)
    /\ updater \in Admins \cup {NoOne}
    /\ \A a \in Admins : (admin[a] # "idle") <=> updater = a
    /\ host \in {"idle", "installed"}
    /\ cache \in [CacheKeys -> Entries \cup {None}]
    /\ Cardinality(Cached) <= Capacity
    /\ \A p \in Pickers : /\ picker[p].matched \cup Members(picker[p].todo) \subseteq picker[p].cands
                          /\ picker[p].cands \subseteq Offers

Init ==
    /\ rules \in ConfigRules /\ NoDuplicates(rules)
    /\ stored = rules
    /\ updater = NoOne
    /\ admin = [a \in Admins |-> "idle"]
    /\ host = "idle"
    /\ cache = [k \in CacheKeys |-> None]
    /\ picker = [p \in Pickers |-> Idle]
    /\ changes = 0 /\ picks = 0

(***************************************************************************)
(* Editing the rules.                                                      *)
(***************************************************************************)
\* Every pick that holds rules now holds old ones, and nothing is steady.
Overtaken == [p \in Pickers |->
                 [picker[p] EXCEPT !.raced = picker[p].pc = "store", !.steady = FALSE]]

\* Defect: only rules that were added or edited clear the cache.
ClearsIfGrown(new) == IF Len(new) >= Len(rules) THEN "changed" ELSE "cleared"
NextStepAfter(new) == "changed"

\* The critical section in which a management request replaces the rules.
SetRules(a, new) ==
    /\ admin[a] = "idle" /\ updater = NoOne /\ changes < MaxChanges
    /\ rules' = new
    /\ updater' = a /\ admin' = [admin EXCEPT ![a] = NextStepAfter(new)]
    /\ changes' = changes + 1
    /\ picker' = Overtaken
    /\ UNCHANGED <<stored, host, cache, picks>>

\* The first rule of that name is replaced, or the rule is appended; what
\* normalizeConfig rejects changes nothing.
UpsertClassifyRule(a) == \E r \in RuleSpace :
    LET same == {i \in DOMAIN rules : rules[i].name = r.name}
        new == IF same = {} THEN Append(rules, r)
               ELSE [rules EXCEPT ![CHOOSE i \in same : \A j \in same : i <= j] = r]
    IN  NoDuplicates(new) /\ SetRules(a, new)

Without(n) == Kept(rules, {r \in RuleSpace : r.name # n})
DeleteClassifyRule(a) == \E n \in Names : SetRules(a, Without(n))

\* The listed names that exist, in the order of the list and as often as they
\* are listed; then the others.  A map from name to rule keeps the last of a name.
Reordered(list) ==
    LET known == Kept(list, {r.name : r \in Members(rules)})
        Of(n) == rules[CHOOSE i \in DOMAIN rules : /\ rules[i].name = n
                    /\ \A j \in DOMAIN rules : rules[j].name = n => j <= i]
    IN  [i \in DOMAIN known |-> Of(known[i])]
        \o Kept(rules, {r \in RuleSpace : r.name \notin Members(list)})

ReorderClassifyRules(a) == \E list \in UNION {[1..n -> Names] : n \in 1..2} :
    SetRules(a, Reordered(list))

EmptyCache == [k \in CacheKeys |-> None]

\* callClassifyRulesChanged, after mu was released and with updateMu still held.
CallClassifyRulesChanged(a) ==
    /\ admin[a] = "changed"
    /\ cache' = EmptyCache
    /\ admin' = [admin EXCEPT ![a] = "cleared"]
    /\ UNCHANGED <<rules, stored, updater, host, picker, changes, picks>>

\* saveState writes the rules or fails; either way the request lets go of updateMu.
SaveRules(a) ==
    /\ admin[a] = "cleared"
    /\ stored' \in {rules, stored}
    /\ updater' = NoOne /\ admin' = [admin EXCEPT ![a] = "idle"]
    /\ UNCHANGED <<rules, host, cache, picker, changes, picks>>

(***************************************************************************)
(* The host reconfigures the plugin: rules in config.yaml replace those of *)
(* the state file, and rules that do not pass leave everything as it was.  *)
(* The cache is cleared once Configure has returned.                       *)
(***************************************************************************)
Configure ==
    /\ host = "idle" /\ updater = NoOne /\ changes < MaxChanges
    /\ \E config \in ConfigRules :
           LET loaded == IF config # <<>> THEN config ELSE stored
           IN  NoDuplicates(loaded) /\ rules' = loaded
    /\ host' = "installed" /\ changes' = changes + 1
    /\ picker' = Overtaken
    /\ UNCHANGED <<stored, updater, admin, cache, picks>>

ClearClassifyCache ==
    /\ host = "installed"
    /\ cache' = EmptyCache
    /\ host' = "idle"
    /\ UNCHANGED <<rules, stored, updater, admin, picker, changes, picks>>

(***************************************************************************)
(* scheduler.pick                                                          *)
(***************************************************************************)
ClearPending == host = "installed" \/ \E a \in Admins : admin[a] = "changed"

Usable(c) == c.usable

\* Without a group, or without candidates, the choice is left to the host.
PickScheduler(p) ==
    /\ picker[p].pc \in {"idle", "done"} /\ picks < MaxPicks
    /\ \E list \in Candidates, g \in Pinned :
           picker' = [picker EXCEPT ![p] =
               IF g = NoGroup \/ list = <<>>
               THEN [Idle EXCEPT !.pc = "done", !.result = Delegated]
               ELSE [Idle EXCEPT !.pc = "lookup", !.group = g, !.cands = Members(list),
                                 !.todo = list, !.steady = ~ClearPending]]
    /\ picks' = picks + 1
    /\ UNCHANGED <<rules, stored, updater, admin, host, cache, changes>>

Skip(p) ==
    /\ picker[p].pc = "lookup" /\ picker[p].todo # <<>> /\ ~Usable(Head(picker[p].todo))
    /\ picker' = [picker EXCEPT ![p].todo = Tail(@)]
    /\ UNCHANGED <<rules, stored, updater, admin, host, cache, changes, picks>>

\* What the classification of the next candidate contributes to p's choice.
Classified(p, groups) ==
    [picker[p] EXCEPT !.pc = "lookup", !.todo = Tail(@), !.snap = {}, !.raced = FALSE,
                      !.matched = IF picker[p].group \in groups THEN @ \cup {Head(picker[p].todo)} ELSE @]

Lookup(p) ==
    /\ picker[p].pc = "lookup" /\ picker[p].todo # <<>> /\ Usable(Head(picker[p].todo))
    /\ LET e == cache[CacheKey(Head(picker[p].todo))]
       IN  picker' = [picker EXCEPT ![p] =
               IF e = None THEN [picker[p] EXCEPT !.pc = "classify"]
               ELSE [Classified(p, e.groups) EXCEPT !.tainted = @ \/ e.raced]]
    /\ UNCHANGED <<rules, stored, updater, admin, host, cache, changes, picks>>

\* ClassifyRulesSnapshot
SnapshotRules(p) ==
    /\ picker[p].pc = "classify"
    /\ picker' = [picker EXCEPT ![p].pc = "store", ![p].snap = Members(rules)]
    /\ UNCHANGED <<rules, stored, updater, admin, host, cache, changes, picks>>

\* Defect: the cache is full at one entry more.
Overfull == Cardinality(Cached) > Capacity
Full == Cardinality(Cached) >= Capacity

\* The rules are evaluated and the groups stored; a full cache starts anew.
StoreGroups(p) ==
    /\ picker[p].pc = "store"
    /\ LET c == Head(picker[p].todo)
           groups == CandidateGroups(c, picker[p].snap)
           kept == IF Full THEN EmptyCache ELSE cache
       IN  /\ cache' = [kept EXCEPT ![CacheKey(c)] = [groups |-> groups, raced |-> picker[p].raced]]
           /\ picker' = [picker EXCEPT ![p] = Classified(p, groups)]
    /\ UNCHANGED <<rules, stored, updater, admin, host, changes, picks>>

\* The highest priority, and the lowest id among equals.
Better(c, d) == c.priority > d.priority \/ (c.priority = d.priority /\ c.id < d.id)
Best(cands) == CHOOSE c \in cands : \A d \in cands : d = c \/ Better(c, d)
Outcome(cands) == IF cands = {} THEN NotFound ELSE Best(cands).id

Choose(p) ==
    /\ picker[p].pc = "lookup" /\ picker[p].todo = <<>>
    /\ picker' = [picker EXCEPT ![p].pc = "done", ![p].matched = {},
                                ![p].result = Outcome(picker[p].matched)]
    /\ UNCHANGED <<rules, stored, updater, admin, host, cache, changes, picks>>

Pick(p) == \/ PickScheduler(p) \/ Skip(p) \/ Lookup(p) \/ SnapshotRules(p)
           \/ StoreGroups(p) \/ Choose(p)
Edit(a) == \/ UpsertClassifyRule(a) \/ DeleteClassifyRule(a) \/ ReorderClassifyRules(a)
           \/ CallClassifyRulesChanged(a) \/ SaveRules(a)

Next == Configure \/ ClearClassifyCache \/ (\E a \in Admins : Edit(a)) \/ (\E p \in Pickers : Pick(p))

Spec == Init /\ [][Next]_vars

(***************************************************************************)
(* The other places that classify.  The model picker's catalogue keeps     *)
(* providers without tiers flat, and the self-service quota page looks for *)
(* the one Codex auth file a group names, of which the host tells it the   *)
(* plan, as the account type, and nothing else; it puts the plan in lower  *)
(* case before the rules see it, where the scheduler does not.             *)
(***************************************************************************)
TierProviders == {"codex", "antigravity"}

\* Defect: the catalogue counts disabled rules.
GroupsOfAnyRule(o, list) ==
    LET c == [o EXCEPT !.provider = Lower[@]]
        custom == {Custom(r.group) : r \in {r \in Members(list) : Matches(r, c)}}
    IN  IF custom # {} THEN custom ELSE {NoGroup}
GroupsForCredential(o, list) ==
    LET c == [o EXCEPT !.provider = Lower[@]]
        custom == CustomGroups(c, Members(list))
    IN  CASE custom # {} -> custom
          [] custom = {} /\ PlanOrTier(c) # NoClaim -> {Builtin(PlanOrTier(c))}
          [] OTHER -> {IF c.provider \in TierProviders THEN Builtin("supported") ELSE NoGroup}

\* Defect: the page passes no attribute on.
QuotaViewBare(o) == [o EXCEPT !.tier = NoClaim, !.plan = NoClaim]
QuotaView(o) == [o EXCEPT !.tier = NoClaim, !.plan = Lower[@]]

\* The auth files, of those listed, that the page finds in a group.
QuotaMatches(files, g) ==
    {o \in files : Lower[o.provider] = "codex" /\ g \in GroupsForCredential(QuotaView(o), rules)}

-----------------------------------------------------------------------------
\* Once the clearing after a change is done, an entry that does not say what
\* the rules say was stored by a pick that read the rules before the change.
StaleOnlyByRace == ~ClearPending => \A o \in Offers :
    LET e == cache[CacheKey(o)]
    IN  e # None => e.raced \/ e.groups = CandidateGroups(o, Members(rules))

\* A pick during which the rules stayed the same, and which met no such entry,
\* chooses the best usable candidate of its group; if there is none it fails
\* instead of letting another group serve the request.
PickIsRight == \A p \in Pickers :
    LET k == picker[p]
        own == {c \in k.cands : c.usable /\ k.group \in CandidateGroups(c, Members(rules))}
    IN  k.pc = "done" /\ k.steady /\ ~k.tainted =>
            k.result = IF own = {} THEN NotFound
                       ELSE (CHOOSE c \in own : \A d \in own : ~Better(d, c)).id

\* When the quota page finds one auth file for the group, the Codex requests
\* pinned to the group are served by it: the account whose quota is shown, and
\* whose credits a reset spends, is the one the key uses.  Rules on fields the
\* page does not know, and on providers, are left out, and so are rules on
\* plans when the host spells a candidate's plan in capitals: the page shows
\* the rule the plan in lower case, the scheduler as it is, and each may find
\* another file.
SameForPage(r, files) ==
    /\ r.field \notin {"tier", "provider"}
    /\ r.field = "plan_type" => \A c \in files : Lower[c.plan] = c.plan
QuotaOfServingFile ==
    \A p \in Pickers :
        LET k == picker[p]
        IN  /\ k.pc = "done" /\ k.steady /\ ~k.tainted /\ k.group[1] = "classify"
            /\ \A r \in Members(rules) : r.enabled => SameForPage(r, k.cands)
            =>  \A o \in QuotaMatches(k.cands, k.group), c \in k.cands :
                    /\ Cardinality(QuotaMatches(k.cands, k.group)) = 1
                    /\ k.result = c.id /\ Lower[c.provider] = "codex"
                    => c = o

\* A group the model picker offers for an auth file is one the scheduler
\* accepts it for, unless a rule looks at a provider's capital letters.
CatalogIsServed == \A o \in Offers :
    (\A r \in Members(rules) : r.enabled /\ r.field = "provider" => Lower[o.provider] = o.provider)
        => GroupsForCredential(o, rules) \ {NoGroup} \subseteq CandidateGroups(o, Members(rules))

\* README.md:24 says that a request pinned to a group "never lands on the wrong
\* auth file".  A pick that begins when all is quiet and ends before the next
\* change may still do so, from an entry stored after the cache was cleared.
NeverTheWrongFile == \A p \in Pickers :
    LET k == picker[p]
    IN  k.pc = "done" /\ k.steady =>
            \A c \in k.cands : k.result = c.id => k.group \in CandidateGroups(c, Members(rules))
=============================================================================
