--------------------------- MODULE BillingProofs ---------------------------
(***************************************************************************)
(* What is proved of Billing for every table, every price, every report of *)
(* tokens and any number of keys, requests, writes and crashes: all that   *)
(* its run checks on a small instance.                                     *)
(*                                                                         *)
(* Types, and that the two splits of a prompt agree in every figure, are   *)
(* statements about the set that all figures belong to.  A set             *)
(* that has Zero and every charge and is closed under Plus keeps them, by  *)
(* one induction over the steps; that Counters and FairCounters are such   *)
(* sets is arithmetic.                                                     *)
(***************************************************************************)
EXTENDS Billing, FiniteSetTheorems, NaturalsInduction, WellFoundedInduction, TLAPS

----------------------------------------------------------------------------
(***************************************************************************)
(* The arithmetic of the biller.                                           *)
(***************************************************************************)
LEMMA ProductNat == \A x, y \in Nat : x * y \in Nat
  BY SMT

\* The bill's split: hits and the rest of the input are natural numbers.
LEMMA SplitNat ==
  ASSUME NEW r \in RuleRecords, NEW d \in DetailRecords
  PROVE  /\ Hits(d) \in Nat
         /\ BilledHits(r, d) \in Nat
         /\ InputToBill(r, d) \in Nat
         /\ CachePrice(r) \in Nat
  BY DEF RuleRecords, DetailRecords, Hits, BilledHits, InputToBill, CachePrice, Additive

\* The second split gives what the first does, and both give the prompt.
LEMMA SplitsAgree ==
  ASSUME NEW r \in RuleRecords, NEW d \in DetailRecords
  PROVE  /\ NonCacheInput(r, d) = InputToBill(r, d)
         /\ Cached(r.first, d) = BilledHits(r, d)
         /\ Prompt(r.first, d) \in Nat
         /\ BilledHits(r, d) + InputToBill(r, d) = Prompt(r.first, d)
         /\ Prompt(r.first, d) - Cached(r.first, d) = InputToBill(r, d)
  BY DEF RuleRecords, DetailRecords, Hits, BilledHits, InputToBill, NonCacheInput, Prompt, Cached,
         Additive, Kinds

LEMMA CostNat ==
  ASSUME NEW r \in RuleRecords, NEW d \in DetailRecords
  PROVE  /\ Cost(r, d) \in Nat
         /\ CachePortion(r, d) \in Nat
         /\ CachePortion(r, d) <= Cost(r, d)
<1> DEFINE x == InputToBill(r, d) * r.in
           y == BilledHits(r, d) * CachePrice(r)
           z == d.output * r.out
<1>1. /\ r.in \in Nat /\ r.out \in Nat /\ r.cache \in Nat /\ d.output \in Nat
  BY DEF RuleRecords, DetailRecords
<1>2. x \in Nat /\ y \in Nat /\ z \in Nat
  BY <1>1, SplitNat, ProductNat
<1>3. Cost(r, d) = x + y + z /\ CachePortion(r, d) = IF r.cache = 0 THEN 0 ELSE y
  BY DEF Cost, CachePortion
<1> HIDE DEF x, y, z
<1> QED
  BY <1>2, <1>3

\* What a provider's prompt is worth at the prices of a rule.
LEMMA DueNat ==
  ASSUME NEW r \in RuleRecords, NEW d \in DetailRecords, NEW kind \in Kinds
  PROVE  Prompt(kind, d) \in Nat /\ Due(kind, r, d) \in Nat
<1> DEFINE fresh == Prompt(kind, d) - Cached(kind, d)
           price == IF r.cache = 0 THEN r.in ELSE r.cache
<1>1. /\ Prompt(kind, d) \in Nat /\ Cached(kind, d) \in Nat /\ fresh \in Nat
  BY DEF DetailRecords, Prompt, Cached, Hits, Additive
<1>2. r.in \in Nat /\ r.out \in Nat /\ price \in Nat /\ d.output \in Nat
  BY DEF RuleRecords, DetailRecords
<1>3. fresh * r.in \in Nat /\ Cached(kind, d) * price \in Nat /\ d.output * r.out \in Nat
  BY <1>1, <1>2, ProductNat
<1> QED
  BY <1>1, <1>3 DEF Due

LEMMA ChargeIsCounters ==
  ASSUME NEW r \in RuleRecords, NEW d \in DetailRecords, NEW kind \in Kinds
  PROVE  Charge(r, kind, d) \in Counters
<1>1. r.call \in Nat /\ r.perCall \in BOOLEAN /\ d.output \in Nat
  BY DEF RuleRecords, DetailRecords
<1>2. NonCacheInput(r, d) \in Nat
  BY SplitNat, SplitsAgree
<1> QED
  BY <1>1, <1>2, SplitNat, CostNat, DueNat DEF Charge, Counters, Zero

LEMMA ChargeIsFair ==
  ASSUME NEW r \in RuleRecords, NEW d \in DetailRecords, NEW kind \in Kinds
  PROVE  Charge(r, kind, d) \in FairCounters
<1>1. CASE r.perCall
  <2>1. r.call \in Nat
    BY DEF RuleRecords
  <2>2. Charge(r, kind, d) = [usd |-> r.call, cacheUsd |-> 0, hits |-> 0, fresh |-> 0,
                              output |-> 0, calls |-> 1, prompt |-> 0, due |-> r.call, fits |-> TRUE]
    BY <1>1, <2>1 DEF Charge, Zero
  <2>3. Fair(Charge(r, kind, d))
    BY <2>1, <2>2 DEF Fair
  <2> QED
    BY <2>3, ChargeIsCounters DEF FairCounters
<1>2. CASE ~r.perCall
  <2> DEFINE c == Charge(r, kind, d)
  <2>1. /\ c.usd = Cost(r, d) /\ c.cacheUsd = CachePortion(r, d)
        /\ c.hits = BilledHits(r, d) /\ c.fresh = NonCacheInput(r, d)
        /\ c.prompt = Prompt(kind, d) /\ c.due = Due(kind, r, d)
        /\ c.fits = (kind = r.first)
    BY <1>2 DEF Charge
  <2>2. kind = r.first => c.hits + c.fresh = c.prompt
    BY <2>1, SplitsAgree
  <2>3. kind = r.first => c.usd = c.due
    BY <2>1, SplitsAgree DEF Cost, Due, CachePrice
  <2> QED
    BY <2>1, <2>2, <2>3, CostNat, ChargeIsCounters DEF FairCounters, Fair
<1> QED
  BY <1>1, <1>2

LEMMA ZeroIsFair == Zero \in Counters /\ Zero \in FairCounters
  BY DEF Zero, Counters, FairCounters, Fair

LEMMA PlusIsCounters ==
  ASSUME NEW c \in Counters, NEW d \in Counters
  PROVE  Plus(c, d) \in Counters
  BY DEF Counters, Plus

LEMMA PlusIsFair ==
  ASSUME NEW c \in FairCounters, NEW d \in FairCounters
  PROVE  Plus(c, d) \in FairCounters
<1>1. c \in Counters /\ d \in Counters /\ Fair(c) /\ Fair(d)
  BY DEF FairCounters
<1>2. Plus(c, d) \in Counters
  BY <1>1, PlusIsCounters
<1>3. Fair(Plus(c, d))
  BY <1>1 DEF Fair, Plus, Counters
<1> QED
  BY <1>2, <1>3 DEF FairCounters
----------------------------------------------------------------------------
(***************************************************************************)
(* The induction, for a set C of figures that the charges do not leave.    *)
(***************************************************************************)
Closed(C) ==
    /\ Zero \in C
    /\ \A c, d \in C : Plus(c, d) \in C
    /\ \A r \in RuleRecords, d \in DetailRecords, kind \in Kinds : Charge(r, kind, d) \in C

LEMMA CountersClosed == Closed(Counters)
  BY ZeroIsFair, PlusIsCounters, ChargeIsCounters DEF Closed

LEMMA FairCountersClosed == Closed(FairCounters)
  BY ZeroIsFair, PlusIsFair, ChargeIsFair DEF Closed

LEMMA TypedInit ==
  ASSUME NEW C, Closed(C), Init
  PROVE  Typed(C)
<1>1. ledger \in Ledgers(C) /\ NoUsage \in Ledgers(C)
  BY DEF Init, NoUsage, Ledgers
<1>2. 0 \in 0..MaxBills /\ 0 \in 0..MaxOps /\ 0 \in 0..MaxTicks /\ 0 \in 0..MaxFaults
  BY BoundsAreNaturals
<1> QED
  BY <1>1, <1>2, FirstRulesAreRules DEF Init, Typed

\* The ledger's own entry, or a new one.
LEMMA EntryOfTyped ==
  ASSUME NEW C, Closed(C), Typed(C), NEW id \in Ids
  PROVE  /\ EntryOf(id) \in Entries(C)
         /\ \A a \in Aliases : Cell(id, a) \in C
  BY DEF Closed, Typed, Ledgers, Entries, EntryOf, Cell

LEMMA BookTyped ==
  ASSUME NEW C, Closed(C), NEW e \in Entries(C),
         NEW m \in [id : Ids, alias : Aliases, gen : Births, charge : C]
  PROVE  Book(e, m) \in Entries(C)
<1>1. /\ e.all \in C /\ e.by \in [Aliases -> C] /\ e.gens \in SUBSET Births
      /\ m.alias \in Aliases /\ m.gen \in Births /\ m.charge \in C
  BY DEF Entries
<1>2. Plus(e.all, m.charge) \in C /\ Plus(e.by[m.alias], m.charge) \in C
  BY <1>1 DEF Closed
<1> QED
  BY <1>1, <1>2 DEF Book, Entries

LEMMA SnapshotTyped ==
  ASSUME NEW C, Typed(C)
  PROVE  Snapshot \in Snapshots(C)
<1>1. ASSUME NEW id \in Ids, ledger[id] # NoEntry
      PROVE  [ledger[id] EXCEPT !.by = [a \in Aliases |-> Live]]
               \in [all : C, by : [Aliases -> C \cup {Live}], gens : SUBSET Births]
  BY <1>1 DEF Typed, Ledgers, Entries
<1> QED
  BY <1>1 DEF Snapshot, Snapshots

LEMMA FrozenTyped ==
  ASSUME NEW C, Closed(C), Typed(C), NEW usage \in Snapshots(C), NEW id \in Ids
  PROVE  Frozen(usage, id) \in Snapshots(C)
<1>1. CASE usage[id] = NoEntry
  BY <1>1 DEF Frozen
<1>2. CASE usage[id] # NoEntry
  <2> DEFINE by == [a \in Aliases |-> IF usage[id].by[a] = Live THEN Cell(id, a) ELSE usage[id].by[a]]
             e == [usage[id] EXCEPT !.by = by]
  <2>1. usage[id] \in [all : C, by : [Aliases -> C \cup {Live}], gens : SUBSET Births]
    BY <1>2 DEF Snapshots
  <2>2. by \in [Aliases -> C \cup {Live}]
    BY <2>1, EntryOfTyped
  <2>3. e \in [all : C, by : [Aliases -> C \cup {Live}], gens : SUBSET Births]
    BY <2>1, <2>2
  <2>4. Frozen(usage, id) = [usage EXCEPT ![id] = e]
    BY <1>2 DEF Frozen, Snapshots
  <2> QED
    BY <2>3, <2>4 DEF Snapshots
<1> QED
  BY <1>1, <1>2

\* A snapshot without live cells is a ledger.
LEMMA MarshalledTyped ==
  ASSUME NEW C, NEW usage \in Snapshots(C), Marshalled(usage)
  PROVE  usage \in Ledgers(C)
<1>1. ASSUME NEW id \in Ids, usage[id] # NoEntry
      PROVE  usage[id] \in Entries(C)
  BY <1>1 DEF Snapshots, Marshalled, Entries
<1> QED
  BY <1>1 DEF Snapshots, Ledgers

\* Requests: a charge is booked for the key's figure and for the alias's.
LEMMA RequestsTyped ==
  ASSUME NEW C, Closed(C), Typed(C), Requests
  PROVE  Typed(C)'
<1>1. ASSUME NEW b \in Billers, NEW id \in Ids, NEW a \in Aliases, NEW d \in Details,
             NEW failed \in BOOLEAN, NEW served \in Kinds, FindKey(b, id, a, d, failed, served)
      PROVE  Typed(C)'
  <2>1. rule[a] \in RuleRecords /\ d \in DetailRecords
    BY <1>1, RuleBodiesAreRules, DetailsAreDetails DEF FindKey, Typed
  <2>2. Charge(rule[a], served, d) \in C
    BY <2>1 DEF Closed
  <2>3. bill' \in [Billers -> [id : Ids, alias : Aliases, gen : Births, charge : C] \cup {NoBill}]
    BY <1>1, <2>2 DEF FindKey, Typed, Births
  <2>4. bills' \in 0..MaxBills
    BY <1>1, BoundsAreNaturals DEF FindKey, Typed
  <2> QED
    BY <1>1, <2>3, <2>4 DEF FindKey, Typed
<1>2. ASSUME NEW b \in Billers, RecordCost(b)
      PROVE  Typed(C)'
  <2> DEFINE m == bill[b]
  <2>1. m \in [id : Ids, alias : Aliases, gen : Births, charge : C]
    BY <1>2 DEF RecordCost, Typed
  <2>2. m.id \in Ids /\ m.gen \in Nat
    BY <2>1 DEF Births
  <2>3. Book(EntryOf(m.id), m) \in Entries(C)
    BY <2>1, <2>2, EntryOfTyped, BookTyped
  <2>4. ledger' \in Ledgers(C)
    BY <1>2, <2>2, <2>3 DEF RecordCost, Typed, Ledgers
  <2>5. late' \in SUBSET (Ids \X Nat)
    BY <1>2, <2>2 DEF RecordCost, Typed
  <2>6. bill' \in [Billers -> [id : Ids, alias : Aliases, gen : Births, charge : C] \cup {NoBill}]
    BY <1>2 DEF RecordCost, Typed
  <2> QED
    BY <1>2, <2>4, <2>5, <2>6 DEF RecordCost, Typed, bounds
<1> QED
  BY <1>1, <1>2 DEF Requests

LEMMA EditTyped ==
  ASSUME NEW C, Typed(C), NEW id \in Ids, NEW pc \in {"reset", "write"}, Edit(id, pc)
  PROVE  /\ ops' \in 0..MaxOps
         /\ save' \in [Writers -> Saves(C) \cup {NoSave}]
         /\ UNCHANGED <<ledger, bill, persistMu, file, late, bills, ticks, faults>>
  BY SnapshotTyped, BoundsAreNaturals DEF Edit, Typed, Saves, Writers

\* Administration: edits of the tables, and the reset of a deleted key's usage.
LEMMA AdministrationTyped ==
  ASSUME NEW C, Closed(C), Typed(C), Administration
  PROVE  Typed(C)'
<1>1. ASSUME NEW a \in Aliases, NEW r \in RuleBodies, UpsertAlias(a, r)
      PROVE  Typed(C)'
  <2>1. rule' \in [Aliases -> RuleBodies \cup {NoRule}]
    BY <1>1 DEF UpsertAlias, Typed
  <2>2. PICK id \in Ids : Edit(id, "write")
    BY <1>1 DEF UpsertAlias
  <2> QED
    BY <1>1, <2>1, <2>2, EditTyped DEF UpsertAlias, Typed, Saves
<1>2. ASSUME NEW id \in Ids, CreateKey(id)
      PROVE  Typed(C)'
  <2>1. keys' \in [Ids -> Nat] /\ born' \in [Ids -> Nat]
    BY <1>2 DEF CreateKey, Typed
  <2> QED
    BY <1>2, <2>1, EditTyped DEF CreateKey, Typed, Saves
<1>3. ASSUME NEW id \in Ids, DeleteKey(id)
      PROVE  Typed(C)'
  <2>1. keys' \in [Ids -> Nat]
    BY <1>3 DEF DeleteKey, Typed
  <2> QED
    BY <1>3, <2>1, EditTyped DEF DeleteKey, Typed, Saves
<1>4. ASSUME ResetUsage
      PROVE  Typed(C)'
  <2> DEFINE id == save["admin"].id
  <2>1. id \in Ids
    BY <1>4 DEF ResetUsage, Typed, Writers, Saves
  <2>2. ledger' \in Ledgers(C)
    BY <1>4, <2>1 DEF ResetUsage, Typed, Ledgers
  <2>3. ASSUME NEW w \in Writers, save[w] # NoSave
        PROVE  [save[w] EXCEPT !.pc = "write", !.usage = Frozen(@, id)] \in Saves(C)
    <3>1. save[w] \in [pc : {"reset", "write"}, id : Ids, usage : Snapshots(C)]
      BY <2>3 DEF Typed, Saves
    <3>2. Frozen(save[w].usage, id) \in Snapshots(C)
      BY <2>1, <3>1, FrozenTyped
    <3> QED
      BY <3>1, <3>2 DEF Saves
  <2>4. save' \in [Writers -> Saves(C) \cup {NoSave}]
    BY <1>4, <2>3 DEF ResetUsage, Saves
  <2> QED
    BY <1>4, <2>2, <2>4 DEF ResetUsage, Typed, Saves, bounds
<1> QED
  BY <1>1, <1>2, <1>3, <1>4 DEF Administration

\* Saving: snapshots, their marshalling and their writes.
LEMMA SavingTyped ==
  ASSUME NEW C, Closed(C), Typed(C), Saving
  PROVE  Typed(C)'
<1>1. ASSUME Tick
      PROVE  Typed(C)'
  <2>1. save' \in [Writers -> Saves(C) \cup {NoSave}]
    BY <1>1, SnapshotTyped DEF Tick, Typed, Saves, Writers
  <2>2. ticks' \in 0..MaxTicks
    BY <1>1, BoundsAreNaturals DEF Tick, Typed
  <2> QED
    BY <1>1, <2>1, <2>2 DEF Tick, Typed, Saves
<1>2. ASSUME NEW w \in Writers, Write(w)
      PROVE  Typed(C)'
  <2>1. save[w].usage \in Ledgers(C)
    BY <1>2, MarshalledTyped DEF Write, Typed, Saves
  <2>2. file' \in [rule : [Aliases -> RuleBodies \cup {NoRule}], keys : [Ids -> Nat],
                   usage : Ledgers(C)]
    BY <1>2, <2>1 DEF Write, Typed
  <2>3. faults' \in 0..MaxFaults
    BY <1>2, BoundsAreNaturals DEF Write, Typed
  <2>4. save' \in [Writers -> Saves(C) \cup {NoSave}] /\ persistMu' \in Writers \cup {NoOne}
    BY <1>2 DEF Write, Typed, Saves
  <2> QED
    BY <1>2, <2>2, <2>3, <2>4 DEF Write, Typed, Saves
<1>3. ASSUME NEW w \in Writers, NEW id \in Ids, NEW a \in Aliases, Marshal(w, id, a)
      PROVE  Typed(C)'
  <2> DEFINE E == [all : C, by : [Aliases -> C \cup {Live}], gens : SUBSET Births]
             u == save[w].usage
  <2>1. /\ save[w] \in [pc : {"reset", "write"}, id : Ids, usage : Snapshots(C)]
        /\ u[id] # NoEntry
    BY <1>3 DEF Marshal, Typed, Saves
  <2>2. u \in Snapshots(C) /\ u[id] \in E
    BY <2>1 DEF Snapshots
  <2>3. [u[id] EXCEPT !.by[a] = Cell(id, a)] \in E
    BY <2>2, EntryOfTyped
  <2>4. [u EXCEPT ![id].by[a] = Cell(id, a)] \in Snapshots(C)
    BY <2>2, <2>3 DEF Snapshots
  <2>5. save' \in [Writers -> Saves(C) \cup {NoSave}]
    <3>1. save' = [save EXCEPT ![w].usage = [u EXCEPT ![id].by[a] = Cell(id, a)]]
      BY <1>3 DEF Marshal
    <3> HIDE DEF u
    <3> QED
      BY <2>1, <2>4, <3>1 DEF Typed, Saves
  <2>6. persistMu' \in Writers \cup {NoOne}
    BY <1>3 DEF Marshal
  <2> QED
    BY <1>3, <2>5, <2>6 DEF Marshal, Typed, Saves, bounds
<1> QED
  BY <1>1, <1>2, <1>3 DEF Saving

\* A restart finds in memory what the file holds.
LEMMA RestartTyped ==
  ASSUME NEW C, Typed(C), Restart
  PROVE  Typed(C)'
<1>1. /\ file.rule \in [Aliases -> RuleBodies \cup {NoRule}]
      /\ file.keys \in [Ids -> Nat] /\ file.usage \in Ledgers(C)
  BY DEF Typed
<1>2. late' \in SUBSET (Ids \X Nat)
  <2>1. ASSUME NEW id \in Ids, file.usage[id] # NoEntry
        PROVE  {id} \X (file.usage[id].gens \ {file.keys[id]}) \in SUBSET (Ids \X Nat)
    <3>1. file.usage[id].gens \in SUBSET Nat
      BY <1>1, <2>1 DEF Ledgers, Entries, Births
    <3> QED
      BY <3>1
  <2> QED
    BY <2>1 DEF Restart, Typed
<1>3. faults' \in 0..MaxFaults
  BY BoundsAreNaturals DEF Restart, Typed
<1>4. /\ bill' \in [Billers -> [id : Ids, alias : Aliases, gen : Births, charge : C] \cup {NoBill}]
      /\ save' \in [Writers -> Saves(C) \cup {NoSave}]
      /\ persistMu' \in Writers \cup {NoOne}
  BY DEF Restart, Saves
<1> QED
  BY <1>1, <1>2, <1>3, <1>4 DEF Restart, Typed, Saves

LEMMA TypedStep ==
  ASSUME NEW C, Closed(C), Typed(C), [Next]_vars
  PROVE  Typed(C)'
<1>1. CASE UNCHANGED vars
  BY <1>1 DEF vars, bounds, Typed
<1> QED
  BY <1>1, RequestsTyped, AdministrationTyped, SavingTyped, RestartTyped DEF Next
----------------------------------------------------------------------------
\* Types: no figure is ever negative, also those that are differences.
THEOREM TypeCorrect == Spec => []TypeOK
<1>1. Init => TypeOK
  BY TypedInit, CountersClosed DEF TypeOK
<1>2. TypeOK /\ [Next]_vars => TypeOK'
  BY TypedStep, CountersClosed DEF TypeOK
<1> QED
  BY <1>1, <1>2, PTL DEF Spec

\* ChargedOnce, for all prices, providers and reports of tokens: whatever is
\* in a ledger, a snapshot or a file, hits and fresh tokens add up to the
\* prompts and the dollars are the prompts' worth.
THEOREM ChargesAreFair == Spec => []ChargedOnce
<1>1. Init => ChargedOnce
  BY TypedInit, FairCountersClosed DEF ChargedOnce
<1>2. ChargedOnce /\ [Next]_vars => ChargedOnce'
  BY TypedStep, FairCountersClosed DEF ChargedOnce
<1> QED
  BY <1>1, <1>2, PTL DEF Spec
----------------------------------------------------------------------------
(***************************************************************************)
(* InheritsNothing is not inductive: between DeleteKey's edit and its      *)
(* reset the deleted key's usage is still in the ledger.  No key can be    *)
(* created then, because the edit holds updateMu until it has written.     *)
(***************************************************************************)
Resetting(id) == save["admin"] # NoSave /\ save["admin"].pc = "reset" /\ save["admin"].id = id

Accounted ==
    /\ \A id \in Ids : ledger[id] # NoEntry =>
         \A g \in ledger[id].gens : g = keys[id] \/ <<id, g>> \in late \/ Resetting(id)
    /\ \A id \in Ids : Resetting(id) => keys[id] = 0

LEMMA SavingOf ==
  ASSUME TypeOK, NEW w \in Writers, save[w] # NoSave
  PROVE  save[w] \in Saves(Counters)
  BY DEF TypeOK, Typed

\* An edit that has just taken its snapshot.
LEMMA EditSaves ==
  ASSUME TypeOK, NEW id \in Ids, NEW pc \in {"reset", "write"}, Edit(id, pc)
  PROVE  /\ save["admin"] = NoSave
         /\ save'["admin"] # NoSave /\ save'["admin"].pc = pc /\ save'["admin"].id = id
<1>1. save'["admin"] = [pc |-> pc, id |-> id, usage |-> Snapshot] /\ save["admin"] = NoSave
  BY DEF Edit, TypeOK, Typed, Writers, Saves
<1>2. save'["admin"] \in Saves(Counters)
  BY <1>1, SnapshotTyped DEF TypeOK, Saves
<1> QED
  BY <1>1, <1>2, NoSaveIsNone

LEMMA AccountedStep ==
  ASSUME TypeOK, Accounted, [Next]_vars
  PROVE  Accounted'
<1> USE DEF TypeOK
<1>1. ASSUME NEW b \in Billers, NEW id \in Ids, NEW a \in Aliases, NEW d \in Details,
             NEW failed \in BOOLEAN, NEW served \in Kinds, FindKey(b, id, a, d, failed, served)
      PROVE  Accounted'
  BY <1>1 DEF FindKey, Accounted, Resetting
<1>2. ASSUME NEW b \in Billers, RecordCost(b)
      PROVE  Accounted'
  <2> DEFINE m == bill[b]
  <2>1. m.id \in Ids
    BY <1>2 DEF RecordCost, Typed
  <2>2. ledger' = [ledger EXCEPT ![m.id] = Book(EntryOf(m.id), m)]
    BY <1>2 DEF RecordCost
  <2>3. /\ \A p \in late : p \in late'
        /\ m.gen = keys[m.id] \/ <<m.id, m.gen>> \in late'
        /\ UNCHANGED <<keys, save>>
    BY <1>2 DEF RecordCost
  <2>4. Book(EntryOf(m.id), m).gens = EntryOf(m.id).gens \cup {m.gen}
    BY DEF Book
  <2>5. ASSUME NEW id \in Ids, ledger'[id] # NoEntry, NEW g \in ledger'[id].gens
        PROVE  g = keys[id] \/ <<id, g>> \in late' \/ Resetting(id)
    <3>1. CASE id = m.id
      <4>1. ledger'[id].gens = EntryOf(id).gens \cup {m.gen}
        BY <2>1, <2>2, <2>4, <3>1 DEF Typed, Ledgers
      <4>2. CASE g = m.gen
        BY <2>3, <3>1, <4>2
      <4>3. CASE g \in EntryOf(id).gens
        <5>1. ledger[id] # NoEntry /\ g \in ledger[id].gens
          BY <4>3 DEF EntryOf
        <5> QED
          BY <2>3, <5>1 DEF Accounted
      <4> QED
        BY <2>5, <4>1, <4>2, <4>3
    <3>2. CASE id # m.id
      <4>1. ledger'[id] = ledger[id]
        BY <2>1, <2>2, <3>2 DEF Typed, Ledgers
      <4> QED
        BY <2>3, <2>5, <4>1 DEF Accounted
    <3> QED
      BY <3>1, <3>2
  <2> QED
    BY <2>3, <2>5 DEF Accounted, Resetting
<1>3. ASSUME NEW a \in Aliases, NEW r \in RuleBodies, UpsertAlias(a, r)
      PROVE  Accounted'
  <2>1. PICK id \in Ids : Edit(id, "write")
    BY <1>3 DEF UpsertAlias
  <2>2. \A i \in Ids : ~Resetting(i) /\ ~Resetting(i)'
    BY <2>1, EditSaves DEF Resetting
  <2>3. UNCHANGED <<keys, ledger, late>>
    BY <1>3, <2>1 DEF UpsertAlias, Edit
  <2> QED
    BY <2>2, <2>3 DEF Accounted
\* Nothing is being reset, so every number in the ledger is the old key's, which
\* is none, or is accounted for.
<1>4. ASSUME NEW id \in Ids, CreateKey(id)
      PROVE  Accounted'
  <2>1. \A other \in Ids : ~Resetting(other) /\ ~Resetting(other)'
    BY <1>4, EditSaves DEF CreateKey, Resetting
  <2>2. \A other \in Ids : ledger[other] # NoEntry => 0 \notin ledger[other].gens
    BY DEF Typed, Ledgers, Entries, Births
  <2>3. \A other \in Ids \ {id} : keys'[other] = keys[other]
    BY <1>4 DEF CreateKey, Typed
  <2>4. keys[id] = 0 /\ UNCHANGED <<ledger, late>>
    BY <1>4 DEF CreateKey, Edit
  <2> QED
    BY <2>1, <2>2, <2>3, <2>4 DEF Accounted
<1>5. ASSUME NEW id \in Ids, DeleteKey(id)
      PROVE  Accounted'
  <2>1. \A other \in Ids : Resetting(other)' <=> other = id
    BY <1>5, EditSaves DEF DeleteKey, Resetting
  <2>2. \A other \in Ids : ~Resetting(other)
    BY <1>5, EditSaves DEF DeleteKey, Resetting
  <2>3. keys'[id] = 0 /\ \A other \in Ids \ {id} : keys'[other] = keys[other]
    BY <1>5 DEF DeleteKey, Typed
  <2>4. UNCHANGED <<ledger, late>>
    BY <1>5 DEF DeleteKey, Edit
  <2> QED
    BY <2>1, <2>2, <2>3, <2>4 DEF Accounted
<1>6. ASSUME ResetUsage
      PROVE  Accounted'
  <2> DEFINE id == save["admin"].id
  <2>1. id \in Ids /\ ledger' = [ledger EXCEPT ![id] = NoEntry]
    BY <1>6 DEF ResetUsage, Typed, Writers, Saves
  <2>2. \A other \in Ids \ {id} : ledger'[other] = ledger[other] /\ ~Resetting(other)
    BY <2>1 DEF Typed, Ledgers, Resetting
  <2>3. ledger'[id] = NoEntry
    BY <2>1 DEF Typed, Ledgers
  <2>4. UNCHANGED <<keys, late>> /\ \A i \in Ids : ~Resetting(i)'
    <3>1. save'["admin"] = [save["admin"] EXCEPT !.pc = "write", !.usage = Frozen(@, id)]
      BY <1>6 DEF ResetUsage, Writers
    <3>2. save'["admin"].pc = "write"
      BY <1>6, <3>1, SavingOf DEF ResetUsage, Saves, Writers
    <3> QED
      BY <1>6, <3>2 DEF ResetUsage, Resetting
  <2> QED
    BY <2>2, <2>3, <2>4 DEF Accounted
<1>7. ASSUME Tick
      PROVE  Accounted'
  BY <1>7 DEF Tick, Accounted, Resetting, Typed, Writers, Saves
<1>8. ASSUME NEW w \in Writers, Write(w)
      PROVE  Accounted'
  <2>1. \A id \in Ids : Resetting(id) <=> Resetting(id)'
    BY <1>8 DEF Write, Resetting, Typed, Writers, Saves
  <2> QED
    BY <1>8, <2>1 DEF Write, Accounted
<1>9. ASSUME NEW w \in Writers, NEW i \in Ids, NEW a \in Aliases, Marshal(w, i, a)
      PROVE  Accounted'
  <2>1. \A id \in Ids : Resetting(id) <=> Resetting(id)'
    BY <1>9 DEF Marshal, Resetting, Typed, Writers, Saves
  <2> QED
    BY <1>9, <2>1 DEF Marshal, Accounted
<1>10. ASSUME Restart
       PROVE  Accounted'
  <2>1. ASSUME NEW id \in Ids, file.usage[id] # NoEntry, NEW g \in file.usage[id].gens
        PROVE  g = file.keys[id] \/ <<id, g>> \in late'
    BY <1>10, <2>1 DEF Restart
  <2>2. \A id \in Ids : ~Resetting(id)'
    BY <1>10 DEF Restart, Resetting, Writers
  <2> QED
    BY <1>10, <2>1, <2>2 DEF Restart, Accounted
<1>11. CASE UNCHANGED vars
  BY <1>11 DEF vars, Accounted, Resetting
<1> QED
  BY <1>1, <1>2, <1>3, <1>4, <1>5, <1>6, <1>7, <1>8, <1>9, <1>10, <1>11
     DEF Next, Requests, Administration, Saving

\* InheritsNothing for any number of keys, requests in flight, writers and
\* crashes.
THEOREM NothingInherited == Spec => []InheritsNothing
<1>1. Init => Accounted
  BY DEF Init, Accounted, NoUsage, Resetting, Writers
<1>2. TypeOK /\ Accounted /\ [Next]_vars => Accounted'
  BY AccountedStep
<1>3. Accounted => InheritsNothing
  BY DEF Accounted, InheritsNothing
<1> QED
  BY <1>1, <1>2, <1>3, TypeCorrect, PTL DEF Spec
----------------------------------------------------------------------------
(***************************************************************************)
(* Sums over the aliases.  MapThenSumSet takes the aliases out one by one; *)
(* which it takes first does not matter to what is proved here.            *)
(***************************************************************************)
First(s) == CHOOSE x \in s : TRUE
Rest(s) == s \ {First(s)}

\* F gives the sum of f over each set of aliases.
IsSum(F, f) == \A s \in SUBSET Aliases : F[s] = IF s = {} THEN 0 ELSE f[First(s)] + F[Rest(s)]

LEMMA RestSmaller ==
  ASSUME NEW s \in SUBSET Aliases, s # {}
  PROVE  /\ First(s) \in s /\ Rest(s) \in SUBSET Aliases
         /\ Cardinality(s) \in Nat /\ Cardinality(Rest(s)) \in Nat
         /\ Cardinality(Rest(s)) = Cardinality(s) - 1
<1>1. First(s) \in s
  BY DEF First
<1>2. IsFiniteSet(s)
  BY AliasesAreFinite, FS_Subset
<1> QED
  BY <1>1, <1>2, FS_CardinalityType, FS_RemoveElement DEF Rest

\* What holds of the empty set, and of a set if of its rest, holds of all.
LEMMA ByRest ==
  ASSUME NEW A, {} \in A,
         \A s \in SUBSET Aliases : s # {} /\ Rest(s) \in A => s \in A
  PROVE  SUBSET Aliases \subseteq A
<1> DEFINE S == {Cardinality(s) : s \in {t \in SUBSET Aliases : t \notin A}}
<1>1. ASSUME NEW t \in SUBSET Aliases, t \notin A PROVE FALSE
  <2>1. S \subseteq Nat
    BY AliasesAreFinite, FS_Subset, FS_CardinalityType
  <2>2. Cardinality(t) \in S
    BY <1>1
  <2>3. PICK n \in S : \A m \in S : ~ <<m, n>> \in OpToRel(<, Nat)
    <3> HIDE DEF S
    <3> QED
      BY <2>1, <2>2, NatLessThanWellFounded, WFMin
  <2>4. PICK s \in SUBSET Aliases : s \notin A /\ n = Cardinality(s)
    BY <2>3
  <2>5. s # {} /\ Rest(s) \notin A
    BY <2>4
  <2>6. Cardinality(Rest(s)) \in S
    BY <2>5, RestSmaller
  <2>7. <<Cardinality(Rest(s)), n>> \in OpToRel(<, Nat)
    BY <2>4, <2>5, RestSmaller DEF OpToRel
  <2> QED
    BY <2>3, <2>6, <2>7
<1> QED
  BY <1>1

LEMMA SumExists ==
  ASSUME NEW f \in [Aliases -> Nat]
  PROVE  \E F \in [SUBSET Aliases -> Nat] : IsSum(F, f)
<1> DEFINE Eq(F, s) == F[s] = IF s = {} THEN 0 ELSE f[First(s)] + F[Rest(s)]
           Upto(n) == \E F \in [SUBSET Aliases -> Nat] :
                        \A s \in SUBSET Aliases : Cardinality(s) <= n => Eq(F, s)
           S == {n \in Nat : ~Upto(n)}
<1>1. Upto(0)
  <2> DEFINE F == [s \in SUBSET Aliases |-> 0]
  <2>1. \A s \in SUBSET Aliases : Cardinality(s) <= 0 => s = {}
    BY RestSmaller
  <2>2. F \in [SUBSET Aliases -> Nat] /\ \A s \in SUBSET Aliases : Cardinality(s) <= 0 => Eq(F, s)
    BY <2>1
  <2> QED
    BY <2>2
<1>2. ASSUME NEW n \in Nat, n # 0, Upto(n - 1) PROVE Upto(n)
  <2>1. PICK F \in [SUBSET Aliases -> Nat] :
           \A s \in SUBSET Aliases : Cardinality(s) <= n - 1 => Eq(F, s)
    BY <1>2
  <2> DEFINE G == [s \in SUBSET Aliases |-> IF s = {} THEN 0 ELSE f[First(s)] + F[Rest(s)]]
  <2>2. ASSUME NEW s \in SUBSET Aliases, s # {} PROVE f[First(s)] + F[Rest(s)] \in Nat
    <3>1. f[First(s)] \in Nat /\ F[Rest(s)] \in Nat
      BY <2>2, RestSmaller
    <3> QED
      BY <3>1
  <2>3. G \in [SUBSET Aliases -> Nat]
    BY <2>2
  <2>4. ASSUME NEW s \in SUBSET Aliases, Cardinality(s) <= n, s # {} PROVE G[Rest(s)] = F[Rest(s)]
    <3>1. Rest(s) \in SUBSET Aliases /\ Cardinality(Rest(s)) <= n - 1
      BY <2>4, RestSmaller
    <3>2. Eq(F, Rest(s))
      BY <2>1, <3>1
    <3> QED
      BY <3>1, <3>2
  <2>5. \A s \in SUBSET Aliases : Cardinality(s) <= n => Eq(G, s)
    BY <2>4
  <2> HIDE DEF G, Eq
  <2> QED
    BY <2>3, <2>5
<1>3. ASSUME S # {} PROVE FALSE
  <2>1. PICK n \in S : \A m \in S : ~ <<m, n>> \in OpToRel(<, Nat)
    <3>1. S \subseteq Nat
      OBVIOUS
    <3> HIDE DEF S
    <3> QED
      BY <1>3, <3>1, NatLessThanWellFounded, WFMin
  <2> HIDE DEF Upto
  <2>2. n \in Nat /\ n # 0
    BY <1>1, <2>1
  <2>3. n - 1 \in Nat /\ <<n - 1, n>> \in OpToRel(<, Nat)
    BY <2>2 DEF OpToRel
  <2>4. Upto(n - 1)
    BY <2>1, <2>3
  <2> QED
    BY <1>2, <2>1, <2>2, <2>4
<1>4. Upto(Cardinality(Aliases))
  <2>1. Cardinality(Aliases) \in Nat
    BY AliasesAreFinite, FS_CardinalityType
  <2> HIDE DEF Upto
  <2> QED
    BY <1>3, <2>1
<1>5. \A s \in SUBSET Aliases : Cardinality(s) <= Cardinality(Aliases)
  BY AliasesAreFinite, FS_Subset
<1> QED
  BY <1>4, <1>5 DEF IsSum

LEMMA SumGrows ==
  ASSUME NEW f \in [Aliases -> Nat], NEW g \in [Aliases -> Nat],
         NEW F \in [SUBSET Aliases -> Nat], NEW G \in [SUBSET Aliases -> Nat],
         IsSum(F, f), IsSum(G, g), NEW b \in Aliases, NEW k \in Nat,
         \A a \in Aliases : f[a] + (IF a = b THEN k ELSE 0) <= g[a]
  PROVE  F[Aliases] + k <= G[Aliases]
<1> DEFINE A == {s \in SUBSET Aliases : F[s] + (IF b \in s THEN k ELSE 0) <= G[s]}
<1>1. {} \in A
  <2>1. F[{}] = 0 /\ G[{}] = 0 /\ b \notin {}
    BY DEF IsSum
  <2> QED
    BY <2>1
<1>2. ASSUME NEW s \in SUBSET Aliases, s # {}, Rest(s) \in A PROVE s \in A
  <2>1. First(s) \in Aliases /\ Rest(s) \in SUBSET Aliases
    BY <1>2, RestSmaller
  <2>2. b \in s <=> b = First(s) \/ b \in Rest(s)
    BY <1>2, RestSmaller DEF Rest
  <2>3. b = First(s) => b \notin Rest(s)
    BY DEF Rest
  <2>4. F[s] = f[First(s)] + F[Rest(s)] /\ G[s] = g[First(s)] + G[Rest(s)]
    BY <1>2 DEF IsSum
  <2>5. /\ f[First(s)] + (IF First(s) = b THEN k ELSE 0) <= g[First(s)]
        /\ F[Rest(s)] + (IF b \in Rest(s) THEN k ELSE 0) <= G[Rest(s)]
    BY <1>2, <2>1
  <2>6. f[First(s)] \in Nat /\ g[First(s)] \in Nat /\ F[Rest(s)] \in Nat /\ G[Rest(s)] \in Nat
    BY <2>1
  <2>7. F[s] + (IF b \in s THEN k ELSE 0) <= G[s]
    BY <2>2, <2>3, <2>4, <2>5, <2>6
  <2> QED
    BY <2>7
<1>3. SUBSET Aliases \subseteq A
  <2> HIDE DEF A
  <2> QED
    BY <1>1, <1>2, ByRest
<1> QED
  BY <1>3

\* Sum, of a column of figures.
Total(f) == MapThenSumSet(LAMBDA a : f[a], Aliases)
Column(by, field) == [a \in Aliases |-> by[a][field]]

LEMMA TotalIsSum ==
  ASSUME NEW f \in [Aliases -> Nat]
  PROVE  \E F \in [SUBSET Aliases -> Nat] : IsSum(F, f) /\ Total(f) = F[Aliases]
<1> DEFINE E(i) == i = [s \in SUBSET Aliases |-> IF s = {} THEN 0 ELSE f[First(s)] + i[Rest(s)]]
<1>1. PICK F \in [SUBSET Aliases -> Nat] : IsSum(F, f)
  BY SumExists
<1>2. E(F)
  BY <1>1 DEF IsSum
<1>3. PICK i : E(i) /\ i = CHOOSE j : E(j)
  <2> HIDE DEF E
  <2> QED
    BY <1>2
<1>4. Total(f) = i[Aliases]
  BY <1>3 DEF Total, MapThenSumSet, MapThenFoldSet, First, Rest
<1>5. i = F
  <2> DEFINE A == {s \in SUBSET Aliases : i[s] = F[s]}
  <2>1. \A s \in SUBSET Aliases : i[s] = IF s = {} THEN 0 ELSE f[First(s)] + i[Rest(s)]
    BY <1>3
  <2>2. {} \in A
    BY <1>1, <2>1 DEF IsSum
  <2>3. \A s \in SUBSET Aliases : s # {} /\ Rest(s) \in A => s \in A
    BY <1>1, <2>1 DEF IsSum
  <2>4. SUBSET Aliases \subseteq A
    <3> HIDE DEF A
    <3> QED
      BY <2>2, <2>3, ByRest
  <2>5. i = [s \in SUBSET Aliases |-> i[s]]
    BY <1>3
  <2> QED
    BY <2>4, <2>5
<1> QED
  BY <1>1, <1>4, <1>5

LEMMA SumIsTotal ==
  ASSUME NEW e, NEW field, Column(e.by, field) \in [Aliases -> Nat]
  PROVE  Sum(e, field) = Total(Column(e.by, field))
<1> DEFINE f == Column(e.by, field)
           D(i) == i = [s \in SUBSET Aliases |-> IF s = {} THEN 0 ELSE e.by[First(s)][field] + i[Rest(s)]]
           E(i) == i = [s \in SUBSET Aliases |-> IF s = {} THEN 0 ELSE f[First(s)] + i[Rest(s)]]
<1>1. \A s \in SUBSET Aliases : s # {} => f[First(s)] = e.by[First(s)][field]
  BY RestSmaller DEF Column
<1>2. \A i : D(i) <=> E(i)
  BY <1>1
<1>3. (CHOOSE i : D(i)) = (CHOOSE i : E(i))
  <2> HIDE DEF D, E
  <2> QED
    BY <1>2
<1> QED
  BY <1>3 DEF Sum, Total, MapThenSumSet, MapThenFoldSet, First, Rest

LEMMA TotalGrows ==
  ASSUME NEW f \in [Aliases -> Nat], NEW g \in [Aliases -> Nat], NEW b \in Aliases, NEW k \in Nat,
         \A a \in Aliases : f[a] + (IF a = b THEN k ELSE 0) <= g[a]
  PROVE  Total(f) \in Nat /\ Total(g) \in Nat /\ Total(f) + k <= Total(g)
<1>1. PICK F \in [SUBSET Aliases -> Nat] : IsSum(F, f) /\ Total(f) = F[Aliases]
  BY TotalIsSum
<1>2. PICK G \in [SUBSET Aliases -> Nat] : IsSum(G, g) /\ Total(g) = G[Aliases]
  BY TotalIsSum
<1>3. F[Aliases] \in Nat /\ G[Aliases] \in Nat
  OBVIOUS
<1>4. F[Aliases] + k <= G[Aliases]
  BY <1>1, <1>2, SumGrows
<1> QED
  BY <1>1, <1>2, <1>3, <1>4
----------------------------------------------------------------------------
(***************************************************************************)
(* AliasesCoverTotal is not inductive: a snapshot is a file of tomorrow.   *)
(* What is marshalled of one may be newer than the figure it goes with,    *)
(* and what is still live is what the ledger has now; both only grow.      *)
(***************************************************************************)
Covered(all, by) == \A field \in Fields : all[field] <= Total(Column(by, field))

\* A snapshot's ByAlias map, as a reader sees it now.
Seen(usage, id) == [a \in Aliases |-> IF usage[id].by[a] = Live THEN Cell(id, a) ELSE usage[id].by[a]]

Covering ==
    /\ \A id \in Ids : ledger[id] # NoEntry => Covered(ledger[id].all, ledger[id].by)
    /\ \A id \in Ids : file.usage[id] # NoEntry => Covered(file.usage[id].all, file.usage[id].by)
    /\ \A w \in Writers : save[w] # NoSave =>
         \A id \in Ids : save[w].usage[id] # NoEntry => Covered(save[w].usage[id].all, Seen(save[w].usage, id))

LEMMA FieldNat ==
  ASSUME NEW c \in Counters, NEW field \in Fields
  PROVE  c[field] \in Nat
  BY DEF Counters, Fields

LEMMA PlusField ==
  ASSUME NEW c \in Counters, NEW d \in Counters, NEW field \in Fields
  PROVE  Plus(c, d)[field] = c[field] + d[field] /\ Zero[field] = 0
  BY DEF Counters, Fields, Plus, Zero

LEMMA ColumnNat ==
  ASSUME NEW by \in [Aliases -> Counters], NEW field \in Fields
  PROVE  Column(by, field) \in [Aliases -> Nat] /\ \A a \in Aliases : Column(by, field)[a] = by[a][field]
  BY FieldNat DEF Column

\* Aliases whose figures grow keep covering, and so do those that grow with
\* the key's figure.
LEMMA CoveredGrows ==
  ASSUME NEW all, NEW by \in [Aliases -> Counters], NEW more \in [Aliases -> Counters], Covered(all, by),
         all \in Counters, \A a \in Aliases, field \in Fields : by[a][field] <= more[a][field]
  PROVE  Covered(all, more)
<1>1. ASSUME NEW field \in Fields PROVE all[field] <= Total(Column(more, field))
  <2> DEFINE f == Column(by, field)
             g == Column(more, field)
  <2>1. f \in [Aliases -> Nat] /\ g \in [Aliases -> Nat] /\ \A a \in Aliases : f[a] <= g[a]
    BY ColumnNat
  <2>2. all[field] \in Nat /\ all[field] <= Total(f)
    BY FieldNat DEF Covered
  <2>3. CASE Aliases = {}
    <3>1. f = g
      BY <2>3 DEF Column
    <3> QED
      BY <2>2, <3>1
  <2>4. CASE Aliases # {}
    <3>1. PICK b \in Aliases : TRUE
      BY <2>4
    <3> HIDE DEF f, g
    <3>2. \A a \in Aliases : f[a] + (IF a = b THEN 0 ELSE 0) <= g[a]
      BY <2>1
    <3>3. Total(f) \in Nat /\ Total(g) \in Nat /\ Total(f) + 0 <= Total(g)
      BY <2>1, <3>1, <3>2, TotalGrows
    <3>4. QED
      BY <2>2, <3>3 DEF g
  <2> QED
    BY <2>3, <2>4
<1> QED
  BY <1>1 DEF Covered

LEMMA CoveredBooked ==
  ASSUME NEW e \in Entries(Counters), Covered(e.all, e.by),
         NEW m \in [id : Ids, alias : Aliases, gen : Births, charge : Counters]
  PROVE  Covered(Book(e, m).all, Book(e, m).by)
<1>1. /\ e.all \in Counters /\ e.by \in [Aliases -> Counters]
      /\ m.alias \in Aliases /\ m.charge \in Counters
  BY DEF Entries
<1> DEFINE more == [e.by EXCEPT ![m.alias] = Plus(@, m.charge)]
<1>2. Book(e, m).all = Plus(e.all, m.charge) /\ Book(e, m).by = more
  BY DEF Book
<1>3. more \in [Aliases -> Counters]
  BY <1>1, PlusIsCounters
<1>4. ASSUME NEW field \in Fields PROVE Plus(e.all, m.charge)[field] <= Total(Column(more, field))
  <2> DEFINE f == Column(e.by, field)
             g == Column(more, field)
             k == m.charge[field]
  <2>1. f \in [Aliases -> Nat] /\ g \in [Aliases -> Nat] /\ k \in Nat
    BY <1>1, <1>3, ColumnNat, FieldNat
  <2>2. ASSUME NEW a \in Aliases PROVE f[a] + (IF a = m.alias THEN k ELSE 0) <= g[a]
    <3>1. f[a] = e.by[a][field] /\ g[a] = more[a][field] /\ f[a] \in Nat
      BY <1>1, <1>3, <2>1, ColumnNat
    <3>2. CASE a = m.alias
      <4>1. more[a] = Plus(e.by[a], m.charge) /\ e.by[a] \in Counters
        BY <1>1, <3>2
      <4>2. more[a][field] = e.by[a][field] + k
        BY <1>1, <4>1, PlusField
      <4> QED
        BY <2>1, <3>1, <3>2, <4>2
    <3>3. CASE a # m.alias
      <4>1. more[a] = e.by[a]
        BY <1>1, <3>3
      <4> QED
        BY <2>1, <3>1, <3>3, <4>1
    <3> QED
      BY <3>2, <3>3
  <2> HIDE DEF f, g, k
  <2>3. Total(f) \in Nat /\ Total(g) \in Nat /\ Total(f) + k <= Total(g)
    BY <1>1, <2>1, <2>2, TotalGrows
  <2>4. e.all[field] \in Nat /\ e.all[field] <= Total(f)
    BY <1>1, FieldNat DEF Covered, f
  <2>5. Plus(e.all, m.charge)[field] = e.all[field] + k
    BY <1>1, PlusField DEF k
  <2> QED
    BY <2>1, <2>3, <2>4, <2>5 DEF g
<1> HIDE DEF more
<1> QED
  BY <1>2, <1>4 DEF Covered

\* An entry that was not there covers nothing.
LEMMA NewEntryCovered ==
  ASSUME TypeOK, Covering, NEW id \in Ids
  PROVE  Covered(EntryOf(id).all, EntryOf(id).by)
<1>1. CASE ledger[id] # NoEntry
  BY <1>1 DEF EntryOf, Covering
<1>2. CASE ledger[id] = NoEntry
  <2>1. EntryOf(id).all = Zero /\ EntryOf(id).by = [a \in Aliases |-> Zero]
    BY <1>2 DEF EntryOf
  <2>2. EntryOf(id).by \in [Aliases -> Counters]
    BY <2>1, ZeroIsFair
  <2>3. ASSUME NEW field \in Fields PROVE Zero[field] <= Total(Column(EntryOf(id).by, field))
    <3>1. Column(EntryOf(id).by, field) \in [Aliases -> Nat]
      BY <2>2, ColumnNat
    <3>2. Total(Column(EntryOf(id).by, field)) \in Nat
      BY <3>1, TotalIsSum
    <3>3. Zero[field] = 0
      BY ZeroIsFair, PlusField
    <3> QED
      BY <3>2, <3>3
  <2> QED
    BY <2>1, <2>3 DEF Covered
<1> QED
  BY <1>1, <1>2

\* What a snapshot holds of an entry: figures, or what the ledger has.
LEMMA SeenTyped ==
  ASSUME TypeOK, NEW usage \in Snapshots(Counters), NEW id \in Ids, usage[id] # NoEntry
  PROVE  /\ usage[id].all \in Counters
         /\ Seen(usage, id) \in [Aliases -> Counters]
<1>1. usage[id] \in [all : Counters, by : [Aliases -> Counters \cup {Live}], gens : SUBSET Births]
  BY DEF Snapshots
<1>2. \A a \in Aliases : Cell(id, a) \in Counters
  BY CountersClosed, EntryOfTyped DEF TypeOK
<1> QED
  BY <1>1, <1>2 DEF Seen

\* Writers that keep their snapshots, when no entry shrinks.
LEMMA SavesStayCovered ==
  ASSUME TypeOK, TypeOK', Covering, NEW w \in Writers, save[w] # NoSave,
         save'[w] # NoSave, save'[w].usage = save[w].usage,
         \A id \in Ids, a \in Aliases, field \in Fields : Cell(id, a)[field] <= (Cell(id, a))'[field],
         NEW id \in Ids, save'[w].usage[id] # NoEntry
  PROVE  Covered(save'[w].usage[id].all, (Seen(save[w].usage, id))')
<1> DEFINE u == save[w].usage
<1>1. u \in Snapshots(Counters) /\ save'[w].usage = u
  BY SavingOf DEF Saves
<1>2. u[id].all \in Counters /\ Seen(u, id) \in [Aliases -> Counters] /\ Covered(u[id].all, Seen(u, id))
  BY <1>1, SeenTyped DEF Covering
<1>3. \A a \in Aliases : Cell(id, a) \in Counters /\ (Cell(id, a))' \in Counters
  <2>1. \A a \in Aliases : Cell(id, a) \in Counters
    BY CountersClosed, EntryOfTyped DEF TypeOK
  <2>2. \A a \in Aliases : (Cell(id, a))' \in Counters
    BY ZeroIsFair DEF TypeOK, Typed, Ledgers, Entries, Cell
  <2> QED
    BY <2>1, <2>2
<1> DEFINE more == [a \in Aliases |-> IF u[id].by[a] = Live THEN (Cell(id, a))' ELSE u[id].by[a]]
<1>4. /\ \A a \in Aliases : u[id].by[a] \in Counters \cup {Live}
      /\ more \in [Aliases -> Counters]
  BY <1>1, <1>3 DEF Snapshots
<1>5. ASSUME NEW a \in Aliases, NEW field \in Fields
      PROVE  Seen(u, id)[a][field] <= more[a][field]
  <2>1. CASE u[id].by[a] = Live
    BY <2>1 DEF Seen
  <2>2. CASE u[id].by[a] # Live
    <3>1. u[id].by[a] \in Counters
      BY <1>4, <2>2
    <3>2. u[id].by[a][field] \in Nat
      BY <3>1, FieldNat
    <3> QED
      BY <2>2, <3>2 DEF Seen
  <2> QED
    BY <2>1, <2>2
<1>6. Covered(u[id].all, more)
  <2> HIDE DEF more, u
  <2> QED
    BY <1>2, <1>4, <1>5, CoveredGrows
<1>7. (Seen(save[w].usage, id))' = more
  BY <1>1 DEF Seen
<1> QED
  BY <1>1, <1>6, <1>7

LEMMA SnapshotCovered ==
  ASSUME TypeOK, Covering, NEW id \in Ids, Snapshot[id] # NoEntry
  PROVE  Covered(Snapshot[id].all, Seen(Snapshot, id))
<1>1. ledger[id] # NoEntry /\ ledger[id] \in Entries(Counters)
  BY DEF Snapshot, TypeOK, Typed, Ledgers
<1>2. /\ Snapshot[id].all = ledger[id].all
      /\ \A a \in Aliases : Snapshot[id].by[a] = Live /\ Cell(id, a) = ledger[id].by[a]
  BY <1>1 DEF Snapshot, Entries, Cell
<1>3. Seen(Snapshot, id) = ledger[id].by
  <2>1. ledger[id].by \in [Aliases -> Counters]
    BY <1>1 DEF Entries
  <2> QED
    BY <1>2, <2>1 DEF Seen
<1> QED
  BY <1>1, <1>2, <1>3 DEF Covering

\* A key's figure and the row of the request's alias grow together.
LEMMA RecordCovering ==
  ASSUME TypeOK, TypeOK', Covering, NEW b \in Billers, RecordCost(b)
  PROVE  Covering'
<1> DEFINE m == bill[b]
           e == EntryOf(m.id)
<1>1. m \in [id : Ids, alias : Aliases, gen : Births, charge : Counters]
  BY DEF RecordCost, TypeOK, Typed
<1>2. /\ ledger' = [ledger EXCEPT ![m.id] = Book(e, m)]
      /\ UNCHANGED <<file, save>>
  BY DEF RecordCost
<1>3. m.id \in Ids /\ ledger \in Ledgers(Counters)
  BY <1>1 DEF TypeOK, Typed
<1>4. e \in Entries(Counters) /\ Covered(e.all, e.by)
  BY <1>3, CountersClosed, EntryOfTyped, NewEntryCovered DEF TypeOK
<1>5. Book(e, m) \in Entries(Counters) /\ Covered(Book(e, m).all, Book(e, m).by)
  BY <1>1, <1>4, CountersClosed, BookTyped, CoveredBooked
<1> HIDE DEF e
<1>6. \A id \in Ids : ledger'[id] = IF id = m.id THEN Book(e, m) ELSE ledger[id]
  BY <1>2, <1>3 DEF Ledgers
<1>7. ASSUME NEW id \in Ids, ledger'[id] # NoEntry PROVE Covered(ledger'[id].all, ledger'[id].by)
  BY <1>5, <1>6, <1>7 DEF Covering
<1>8. ASSUME NEW id \in Ids, NEW a \in Aliases, NEW field \in Fields
      PROVE  Cell(id, a)[field] <= (Cell(id, a))'[field]
  <2>1. Cell(id, a) \in Counters
    BY CountersClosed, EntryOfTyped DEF TypeOK
  <2>2. CASE id # m.id
    <3>1. (Cell(id, a))' = Cell(id, a)
      BY <1>6, <2>2 DEF Cell
    <3>2. Cell(id, a)[field] \in Nat
      BY <2>1, FieldNat
    <3> QED
      BY <3>1, <3>2
  <2>3. CASE id = m.id
    <3>1. ledger'[id] = Book(e, m) /\ ledger'[id] # NoEntry
      BY <1>5, <1>6, <2>3, NoEntryIsNone
    <3>2. (Cell(id, a))' = Book(e, m).by[a]
      BY <3>1 DEF Cell
    <3>3. e.by[a] = Cell(id, a) /\ e.by \in [Aliases -> Counters]
      BY <1>4, <2>3 DEF e, EntryOf, Cell, Entries
    <3>4. m.alias \in Aliases /\ m.charge \in Counters
      BY <1>1
    <3>5. Book(e, m).by[a] = IF a = m.alias THEN Plus(e.by[a], m.charge) ELSE e.by[a]
      BY <3>3, <3>4 DEF Book
    <3>6. Plus(e.by[a], m.charge)[field] = e.by[a][field] + m.charge[field]
      BY <2>1, <3>3, <3>4, PlusField
    <3>7. e.by[a][field] \in Nat /\ m.charge[field] \in Nat
      BY <2>1, <3>3, <3>4, FieldNat
    <3> HIDE DEF m
    <3>8. Book(e, m).by[a][field] >= e.by[a][field]
      BY <3>5, <3>6, <3>7
    <3> QED
      BY <3>2, <3>3, <3>7, <3>8, <3>5, <3>6
  <2> QED
    BY <2>2, <2>3
<1>9. ASSUME NEW w \in Writers, save'[w] # NoSave, NEW id \in Ids, save'[w].usage[id] # NoEntry
      PROVE  Covered(save'[w].usage[id].all, (Seen(save[w].usage, id))')
  BY <1>2, <1>8, <1>9, SavesStayCovered
<1> QED
  BY <1>2, <1>7, <1>9 DEF Covering

LEMMA EditCovering ==
  ASSUME TypeOK, TypeOK', Covering, UNCHANGED <<ledger, file>>, NEW w \in Writers,
         save' \in [Writers -> Saves(Counters) \cup {NoSave}],
         save'[w].usage = Snapshot, \A v \in Writers \ {w} : save'[v] = save[v]
  PROVE  Covering'
<1>1. \A id \in Ids, a \in Aliases, field \in Fields : Cell(id, a)[field] <= (Cell(id, a))'[field]
  <2>1. ASSUME NEW id \in Ids, NEW a \in Aliases, NEW field \in Fields
        PROVE  Cell(id, a)[field] <= (Cell(id, a))'[field]
    <3>1. Cell(id, a)[field] \in Nat
      BY CountersClosed, EntryOfTyped, FieldNat DEF TypeOK
    <3> QED
      BY <3>1 DEF Cell
  <2> QED
    BY <2>1
<1>2. ASSUME NEW v \in Writers, save'[v] # NoSave, NEW id \in Ids, save'[v].usage[id] # NoEntry
      PROVE  Covered(save'[v].usage[id].all, (Seen(save[v].usage, id))')
  <2>1. CASE v = w
    <3>1. Covered(Snapshot[id].all, Seen(Snapshot, id))
      BY <1>2, <2>1, SnapshotCovered
    <3>2. (Seen(save[v].usage, id))' = Seen(Snapshot, id)
      BY <2>1 DEF Seen, Cell
    <3> QED
      BY <2>1, <3>1, <3>2
  <2>2. CASE v # w
    BY <1>1, <1>2, <2>2, SavesStayCovered
  <2> QED
    BY <2>1, <2>2
<1> QED
  BY <1>2 DEF Covering

\* The snapshots lose their hold of the entry, and keep what it held.
LEMMA ResetCovering ==
  ASSUME TypeOK, TypeOK', Covering, ResetUsage
  PROVE  Covering'
<1> DEFINE gone == save["admin"].id
<1>1. gone \in Ids /\ ledger' = [ledger EXCEPT ![gone] = NoEntry] /\ UNCHANGED file
  BY DEF ResetUsage, TypeOK, Typed, Writers, Saves
<1>2. \A id \in Ids : ledger'[id] = IF id = gone THEN NoEntry ELSE ledger[id]
  BY <1>1 DEF TypeOK, Typed, Ledgers
<1>3. ASSUME NEW w \in Writers, save'[w] # NoSave, NEW id \in Ids, save'[w].usage[id] # NoEntry
      PROVE  Covered(save'[w].usage[id].all, (Seen(save[w].usage, id))')
  <2> DEFINE u == save[w].usage
  <2>1. save[w] # NoSave /\ save[w] \in Saves(Counters)
    BY <1>3, SavingOf DEF ResetUsage
  <2>2. u \in Snapshots(Counters) /\ save'[w].usage = Frozen(u, gone)
    BY <2>1 DEF ResetUsage, Saves
  <2>3. CASE id # gone
    <3>1. Frozen(u, gone)[id] = u[id]
      BY <1>1, <2>2, <2>3 DEF Frozen, Snapshots
    <3>2. \A a \in Aliases : (Cell(id, a))' = Cell(id, a)
      BY <1>2, <2>3 DEF Cell
    <3>3. (Seen(save[w].usage, id))' = Seen(u, id)
      BY <2>2, <3>1, <3>2 DEF Seen
    <3>4. Covered(u[id].all, Seen(u, id))
      BY <1>3, <2>1, <2>2, <3>1 DEF Covering
    <3> QED
      BY <2>2, <3>1, <3>3, <3>4
  <2>4. CASE id = gone
    <3>1. u[id] # NoEntry
      BY <1>3, <2>2, <2>4 DEF Frozen
    <3>2. /\ u[id] \in [all : Counters, by : [Aliases -> Counters \cup {Live}], gens : SUBSET Births]
          /\ Seen(u, id) \in [Aliases -> Counters]
      BY <2>2, <3>1, SeenTyped DEF Snapshots
    <3>3. Frozen(u, gone)[id] = [u[id] EXCEPT !.by = Seen(u, id)]
      BY <2>2, <2>4, <3>1, <3>2 DEF Frozen, Seen, Snapshots
    <3>4. Frozen(u, gone)[id].all = u[id].all /\ Frozen(u, gone)[id].by = Seen(u, id)
      BY <3>2, <3>3
    <3>5. \A a \in Aliases : Seen(u, id)[a] # Live
      BY <3>2, LiveIsNone
    <3>6. (Seen(save[w].usage, id))' = Seen(u, id)
      <4>1. (Seen(save[w].usage, id))' = [a \in Aliases |-> Seen(u, id)[a]]
        BY <2>2, <3>4, <3>5 DEF Seen
      <4>2. Seen(u, id) = [a \in Aliases |-> Seen(u, id)[a]]
        BY <3>2
      <4> QED
        BY <4>1, <4>2
    <3> QED
      BY <2>1, <2>2, <3>1, <3>4, <3>6 DEF Covering
  <2> QED
    BY <2>3, <2>4
<1> QED
  BY <1>1, <1>2, <1>3 DEF Covering

\* What marshalling reads of a live map is what a reader sees in it.
LEMMA MarshalCovering ==
  ASSUME TypeOK, TypeOK', Covering, NEW w \in Writers, NEW id \in Ids, NEW a \in Aliases, Marshal(w, id, a)
  PROVE  Covering'
<1> DEFINE u == save[w].usage
<1>1. save[w] # NoSave /\ save[w] \in Saves(Counters) /\ u \in Snapshots(Counters) /\ u[id] # NoEntry
  BY SavingOf DEF Marshal, Saves
<1>2. u[id] \in [all : Counters, by : [Aliases -> Counters \cup {Live}], gens : SUBSET Births]
  BY <1>1 DEF Snapshots
<1>3. save' = [save EXCEPT ![w].usage[id].by[a] = Cell(id, a)] /\ UNCHANGED <<ledger, file>>
  BY DEF Marshal
<1>4. \A v \in Writers \ {w} : save'[v] = save[v]
  BY <1>3 DEF TypeOK, Typed
<1>5. save'[w].usage = [u EXCEPT ![id].by[a] = Cell(id, a)]
  BY <1>1, <1>3 DEF TypeOK, Typed, Saves
<1>6. \A i \in Ids : i # id => save'[w].usage[i] = u[i]
  BY <1>1, <1>5 DEF Snapshots
<1>7. save'[w].usage[id] = [u[id] EXCEPT !.by[a] = Cell(id, a)]
  BY <1>1, <1>5 DEF Snapshots
<1>8. save'[w].usage[id].all = u[id].all /\ save'[w].usage[id].by = [u[id].by EXCEPT ![a] = Cell(id, a)]
  BY <1>2, <1>7
<1>9. u[id].by[a] = Live
  BY DEF Marshal
<1>10. \A i \in Ids, c \in Aliases : (Cell(i, c))' = Cell(i, c)
  BY <1>3 DEF Cell
<1>11. \A c \in Aliases : save'[w].usage[id].by[c] = IF c = a THEN Cell(id, a) ELSE u[id].by[c]
  BY <1>2, <1>8
<1>12. (Seen(save[w].usage, id))' = Seen(u, id)
  BY <1>9, <1>10, <1>11 DEF Seen
<1>13. ASSUME NEW v \in Writers, save'[v] # NoSave, NEW i \in Ids, save'[v].usage[i] # NoEntry
       PROVE  Covered(save'[v].usage[i].all, (Seen(save[v].usage, i))')
  <2>1. CASE v = w /\ i = id
    BY <1>1, <1>8, <1>12, <2>1 DEF Covering
  <2>2. CASE v # w \/ i # id
    <3>1. save[v] # NoSave /\ save'[v].usage[i] = save[v].usage[i]
      BY <1>1, <1>4, <1>6, <1>13, <2>2
    <3>2. (Seen(save[v].usage, i))' = Seen(save[v].usage, i)
      BY <1>10, <3>1 DEF Seen
    <3> QED
      BY <1>13, <3>1, <3>2 DEF Covering
  <2> QED
    BY <2>1, <2>2
<1> QED
  BY <1>3, <1>13 DEF Covering

\* A snapshot without live cells is what a reader sees of it.
LEMMA WriteCovering ==
  ASSUME TypeOK, TypeOK', Covering, NEW w \in Writers, Write(w)
  PROVE  Covering'
<1> DEFINE u == save[w].usage
<1>1. /\ UNCHANGED ledger /\ save' = [save EXCEPT ![w] = NoSave] /\ Marshalled(u)
      /\ save[w] # NoSave /\ u \in Snapshots(Counters)
  BY SavingOf DEF Write, Saves
<1>2. file'.usage = u \/ file'.usage = file.usage
  BY DEF Write, TypeOK, Typed
<1>3. ASSUME NEW id \in Ids, u[id] # NoEntry PROVE Covered(u[id].all, u[id].by)
  <2>1. \A a \in Aliases : u[id].by[a] # Live
    BY <1>1, <1>3 DEF Marshalled
  <2>2. u[id].by \in [Aliases -> Counters \cup {Live}]
    BY <1>1, <1>3 DEF Snapshots
  <2>3. Seen(u, id) = u[id].by
    BY <2>1, <2>2 DEF Seen
  <2> QED
    BY <1>1, <1>3, <2>3 DEF Covering
<1>4. ASSUME NEW id \in Ids, file'.usage[id] # NoEntry
      PROVE  Covered(file'.usage[id].all, file'.usage[id].by)
  BY <1>2, <1>3, <1>4 DEF Covering
<1>5. ASSUME NEW v \in Writers, save'[v] # NoSave, NEW i \in Ids, save'[v].usage[i] # NoEntry
      PROVE  Covered(save'[v].usage[i].all, (Seen(save[v].usage, i))')
  <2>1. save'[v] = save[v]
    BY <1>1, <1>5 DEF TypeOK, Typed
  <2>2. (Seen(save[v].usage, i))' = Seen(save[v].usage, i)
    BY <1>1, <2>1 DEF Seen, Cell
  <2> QED
    BY <1>5, <2>1, <2>2 DEF Covering
<1> QED
  BY <1>1, <1>4, <1>5 DEF Covering

LEMMA CoveringStep ==
  ASSUME TypeOK, TypeOK', Covering, [Next]_vars
  PROVE  Covering'
<1>1. ASSUME UNCHANGED <<ledger, save, file>>
      PROVE  Covering'
  BY <1>1 DEF Covering, Seen, Cell
<1>2. ASSUME NEW b \in Billers, NEW id \in Ids, NEW a \in Aliases, NEW d \in Details,
             NEW failed \in BOOLEAN, NEW served \in Kinds, FindKey(b, id, a, d, failed, served)
      PROVE  Covering'
  BY <1>1, <1>2 DEF FindKey
<1>3. ASSUME NEW b \in Billers, RecordCost(b)
      PROVE  Covering'
  BY <1>3, RecordCovering
<1>4. ASSUME NEW id \in Ids, NEW pc \in {"reset", "write"}, Edit(id, pc)
      PROVE  Covering'
  <2>1. /\ save' \in [Writers -> Saves(Counters) \cup {NoSave}]
        /\ UNCHANGED <<ledger, file>>
    BY <1>4, EditTyped DEF TypeOK
  <2>2. save'["admin"].usage = Snapshot /\ \A v \in Writers \ {"admin"} : save'[v] = save[v]
    BY <1>4 DEF Edit, TypeOK, Typed, Writers
  <2> QED
    BY <2>1, <2>2, EditCovering DEF Writers
<1>5. ASSUME Administration
      PROVE  Covering'
  <2>1. CASE \E a \in Aliases, r \in RuleBodies : UpsertAlias(a, r)
    BY <1>4, <2>1 DEF UpsertAlias
  <2>2. CASE \E id \in Ids : CreateKey(id) \/ DeleteKey(id)
    BY <1>4, <2>2 DEF CreateKey, DeleteKey
  <2>3. CASE ResetUsage
    BY <2>3, ResetCovering
  <2> QED
    BY <1>5, <2>1, <2>2, <2>3 DEF Administration
<1>6. ASSUME Tick
      PROVE  Covering'
  <2>1. save' \in [Writers -> Saves(Counters) \cup {NoSave}] /\ UNCHANGED <<ledger, file>>
    BY <1>6, SnapshotTyped DEF Tick, TypeOK, Typed, Saves, Writers
  <2>2. save'["flusher"].usage = Snapshot /\ \A v \in Writers \ {"flusher"} : save'[v] = save[v]
    BY <1>6 DEF Tick, TypeOK, Typed, Writers
  <2> QED
    BY <2>1, <2>2, EditCovering DEF Writers
<1>7. ASSUME Saving
      PROVE  Covering'
  BY <1>6, <1>7, MarshalCovering, WriteCovering DEF Saving
<1>8. ASSUME Restart
      PROVE  Covering'
  <2>1. ledger' = file.usage /\ UNCHANGED file /\ \A w \in Writers : save'[w] = NoSave
    BY <1>8 DEF Restart
  <2> QED
    BY <2>1 DEF Covering
<1> QED
  BY <1>1, <1>2, <1>3, <1>5, <1>7, <1>8 DEF Next, Requests, vars

\* AliasesCoverTotal for any number of aliases, requests, marshalling writers
\* and crashes: usage.go's snapshot, which is not the deep copy it says it is, at
\* most puts an alias ahead of its key.
THEOREM AliasesAccountForAll == Spec => []AliasesCoverTotal
<1>1. Init => Covering
  BY DEF Init, Covering, NoUsage, Writers
<1>2. TypeOK /\ TypeOK' /\ Covering /\ [Next]_vars => Covering'
  BY CoveringStep
<1>3. TypeOK /\ Covering => AliasesCoverTotal
  <2>1. ASSUME NEW e \in Entries(Counters), Covered(e.all, e.by), NEW field \in Fields
        PROVE  e.all[field] <= Sum(e, field)
    <3>1. Column(e.by, field) \in [Aliases -> Nat]
      BY ColumnNat DEF Entries
    <3> QED
      BY <2>1, <3>1, SumIsTotal DEF Covered
  <2>2. ASSUME TypeOK, Covering, NEW id \in Ids
        PROVE  Booked(ledger[id]) /\ Booked(file.usage[id])
    BY <2>1, <2>2 DEF Booked, Covering, TypeOK, Typed, Ledgers
  <2> QED
    BY <2>2 DEF AliasesCoverTotal
<1> QED
  BY <1>1, <1>2, <1>3, TypeCorrect, PTL DEF Spec
=============================================================================
