---------------------------- MODULE TablesProofs ----------------------------
(***************************************************************************)
(* What Tables' run checks on a small instance, proved for all keys,       *)
(* aliases, rules, requests and files.  The loops of the code are folds in *)
(* the model; what a fold returns is proved by induction over positions.   *)
(***************************************************************************)
EXTENDS Tables, ListProofs, TLAPS

----------------------------------------------------------------------------
(***************************************************************************)
(* The loops of the code, position by position.                            *)
(***************************************************************************)
\* mergeAliasTarget adds targets that the models name for the alias.
TargetsFor(a, models) == {models[i].target : i \in {j \in DOMAIN models : models[j].alias = a}}

IsMerge(h, a, targets, models) ==
    /\ h \in [0..Len(models) -> Seq(TargetsFor(a, models))]
    /\ h[0] = <<>> /\ h[Len(models)] = Missing(a, targets, models)
    /\ \A n \in 1..Len(models) :
         h[n] = IF models[n].alias # a \/ Contains(targets \o h[n-1], models[n].target)
                THEN h[n-1] ELSE Append(h[n-1], models[n].target)

LEMMA MissingSteps ==
  ASSUME NEW a, NEW targets, NEW models \in Seq(ModelRules)
  PROVE  \E h : IsMerge(h, a, targets, models)
<1> DEFINE L == Len(models)
           T == Seq(TargetsFor(a, models))
           step(acc, i) == IF models[i].alias # a \/ Contains(targets \o acc, models[i].target) THEN acc
                           ELSE Append(acc, models[i].target)
           G == [x \in T \X (1..L) |-> step(x[1], x[2])]
           E(iter) == iter = [s \in SUBSET DOMAIN models |->
                                IF s = {} THEN <<>> ELSE step(iter[s \ {Max(s)}], Max(s))]
<1>1. Missing(a, targets, models) = (CHOOSE iter : E(iter))[DOMAIN models]
  BY SMT DEF Missing, FoldLeft, MapThenFoldSet
<1>2. L \in Nat /\ DOMAIN models = 1..L /\ <<>> \in T
  OBVIOUS
<1>3. ASSUME NEW t \in T, NEW i \in 1..L PROVE step(t, i) \in T
  <2>1. ASSUME models[i].alias = a PROVE models[i].target \in TargetsFor(a, models)
    BY <2>1, <1>2 DEF TargetsFor
  <2> HIDE DEF L
  <2> QED
    BY <2>1
<1> HIDE DEF L, T, step
<1>4. G \in [T \X (1..L) -> T]
  BY <1>3
<1>5. \E iter : E(iter)
  <2>1. PICK iter : IsFold(iter, L, T, <<>>, G)
    <3> HIDE DEF G
    <3> QED
      BY <1>2, <1>4, FoldExists
  <2>2. ASSUME NEW s \in SUBSET (1..L), s # {}
        PROVE  iter[s] = step(iter[s \ {Max(s)}], Max(s))
    <3>1. Max(s) \in 1..L /\ s \ {Max(s)} \in SUBSET (1..L)
      BY <1>2, <2>2, GreatestExists
    <3>2. iter[s \ {Max(s)}] \in T /\ iter[s] = G[<<iter[s \ {Max(s)}], Max(s)>>]
      BY <2>1, <2>2, <3>1 DEF IsFold
    <3> QED
      BY <3>1, <3>2
  <2>3. E(iter)
    BY <1>2, <2>1, <2>2 DEF IsFold
  <2> QED
    BY <2>3
<1>6. PICK iter : E(iter) /\ iter = CHOOSE i : E(i)
  <2> HIDE DEF E
  <2> QED
    BY <1>5
<1>7. iter[{}] = <<>>
  BY <1>6
<1>8. ASSUME NEW s \in SUBSET (1..L), s # {}, iter[s \ {Max(s)}] \in T
      PROVE  iter[s] = G[<<iter[s \ {Max(s)}], Max(s)>>]
  <2>1. Max(s) \in 1..L
    BY <1>2, <1>8, GreatestExists
  <2>2. iter[s] = step(iter[s \ {Max(s)}], Max(s))
    BY <1>2, <1>6, <1>8
  <2> QED
    BY <1>8, <2>1, <2>2
<1>9. PICK h : Steps(h, iter, L, T, <<>>, G)
  <2> HIDE DEF G, E
  <2>1. Continues(iter, L, T, <<>>, G)
    BY <1>7, <1>8 DEF Continues
  <2> QED
    BY <1>2, <1>4, <2>1, FoldSteps
<1>10. ASSUME NEW n \in 1..L PROVE h[n] = step(h[n-1], n)
  <2>1. n - 1 \in 0..L
    BY <1>2
  <2> QED
    BY <1>9, <2>1 DEF Steps
<1>11. h[L] = Missing(a, targets, models)
  <2> HIDE DEF E
  <2> QED
    BY <1>1, <1>2, <1>6, <1>9 DEF Steps
<1> QED
  BY <1>9, <1>10, <1>11 DEF L, T, step, Steps, IsMerge

\* References, each to an alias of its own.
Distinct(names) == {t \in Seq(Refs) : /\ AliasesOf(t) \subseteq names
                                      /\ \A i, j \in DOMAIN t : t[i].alias = t[j].alias => i = j}

IsSelection(h, s, names) ==
    /\ h \in [0..Len(s) -> Distinct(names)]
    /\ h[0] = <<>> /\ h[Len(s)] = FirstOfEach(s, names)
    /\ \A n \in 1..Len(s) :
         h[n] = IF s[n].alias \in names \ AliasesOf(h[n-1]) THEN Append(h[n-1], s[n]) ELSE h[n-1]

LEMMA FirstOfEachSteps ==
  ASSUME NEW s \in Seq(Refs), NEW names
  PROVE  \E h : IsSelection(h, s, names)
<1> DEFINE L == Len(s)
           T == Distinct(names)
           step(acc, i) == IF s[i].alias \in names \ AliasesOf(acc) THEN Append(acc, s[i]) ELSE acc
           G == [x \in T \X (1..L) |-> step(x[1], x[2])]
           E(iter) == iter = [S \in SUBSET DOMAIN s |->
                                IF S = {} THEN <<>> ELSE step(iter[S \ {Max(S)}], Max(S))]
<1>1. FirstOfEach(s, names) = (CHOOSE iter : E(iter))[DOMAIN s]
  BY SMT DEF FirstOfEach, FoldLeft, MapThenFoldSet
<1>2. L \in Nat /\ DOMAIN s = 1..L /\ <<>> \in T
  BY DEF Distinct, AliasesOf
<1>3. ASSUME NEW t \in T, NEW i \in 1..L PROVE step(t, i) \in T
  <2>1. CASE s[i].alias \in names \ AliasesOf(t)
    <3>1. t \in Seq(Refs) /\ s[i] \in Refs
      BY DEF Distinct
    <3> DEFINE u == Append(t, s[i])
    <3>2. u \in Seq(Refs) /\ DOMAIN u = 1..(Len(t) + 1) /\ DOMAIN t = 1..Len(t) /\ Len(t) \in Nat
      BY <3>1
    <3>3. \A k \in DOMAIN t : u[k] = t[k] /\ t[k].alias # s[i].alias /\ t[k].alias \in names
      BY <2>1, <3>1 DEF AliasesOf, Distinct
    <3>4. u[Len(t) + 1] = s[i]
      BY <3>1
    <3>5. \A k \in DOMAIN u : k \in DOMAIN t \/ k = Len(t) + 1
      BY <3>2
    <3> HIDE DEF u
    <3>6. AliasesOf(u) \subseteq names
      BY <2>1, <3>3, <3>4, <3>5 DEF AliasesOf
    <3>7. \A j, k \in DOMAIN u : u[j].alias = u[k].alias => j = k
      BY <3>3, <3>4, <3>5 DEF Distinct
    <3>8. u \in T
      BY <3>2, <3>6, <3>7 DEF Distinct
    <3> QED
      BY <2>1, <3>8 DEF u
  <2>2. CASE s[i].alias \notin names \ AliasesOf(t)
    BY <2>2
  <2> QED
    BY <2>1, <2>2
<1> HIDE DEF L, T, step
<1>4. G \in [T \X (1..L) -> T]
  BY <1>3
<1>5. \E iter : E(iter)
  <2>1. PICK iter : IsFold(iter, L, T, <<>>, G)
    <3> HIDE DEF G
    <3> QED
      BY <1>2, <1>4, FoldExists
  <2>2. ASSUME NEW S \in SUBSET (1..L), S # {}
        PROVE  iter[S] = step(iter[S \ {Max(S)}], Max(S))
    <3>1. Max(S) \in 1..L /\ S \ {Max(S)} \in SUBSET (1..L)
      BY <1>2, <2>2, GreatestExists
    <3>2. iter[S \ {Max(S)}] \in T /\ iter[S] = G[<<iter[S \ {Max(S)}], Max(S)>>]
      BY <2>1, <2>2, <3>1 DEF IsFold
    <3> QED
      BY <3>1, <3>2
  <2>3. E(iter)
    BY <1>2, <2>1, <2>2 DEF IsFold
  <2> QED
    BY <2>3
<1>6. PICK iter : E(iter) /\ iter = CHOOSE i : E(i)
  <2> HIDE DEF E
  <2> QED
    BY <1>5
<1>7. Continues(iter, L, T, <<>>, G)
  <2>1. iter[{}] = <<>>
    BY <1>6
  <2>2. ASSUME NEW S \in SUBSET (1..L), S # {}, iter[S \ {Max(S)}] \in T
        PROVE  iter[S] = G[<<iter[S \ {Max(S)}], Max(S)>>]
    <3>1. Max(S) \in 1..L
      BY <1>2, <2>2, GreatestExists
    <3>2. iter[S] = step(iter[S \ {Max(S)}], Max(S))
      BY <1>2, <1>6, <2>2
    <3> QED
      BY <2>2, <3>1, <3>2
  <2> QED
    BY <2>1, <2>2 DEF Continues
<1>8. PICK h : Steps(h, iter, L, T, <<>>, G)
  <2> HIDE DEF G, E
  <2> QED
    BY <1>2, <1>4, <1>7, FoldSteps
<1>9. ASSUME NEW n \in 1..L PROVE h[n] = step(h[n-1], n)
  <2>1. n - 1 \in 0..L
    BY <1>2
  <2> QED
    BY <1>8, <2>1 DEF Steps
<1>10. h[L] = FirstOfEach(s, names)
  <2> HIDE DEF E
  <2> QED
    BY <1>1, <1>2, <1>6, <1>8 DEF Steps
<1> QED
  BY <1>8, <1>9, <1>10 DEF L, T, step, Steps, IsSelection

LEMMA HealSteps ==
  ASSUME NEW refs \in Seq(Refs)
  PROVE  \E h \in [0..Len(refs) -> Distinct(AliasesOf(refs))] :
           /\ h[0] = <<>> /\ h[Len(refs)] = Heal(refs)
           /\ \A n \in 1..Len(refs) : h[n] = IF refs[n].alias \notin AliasesOf(h[n-1]) THEN Append(h[n-1], refs[n])
                  ELSE [k \in DOMAIN h[n-1] |-> IF h[n-1][k].alias = refs[n].alias /\ h[n-1][k].price = Unset
                                         THEN refs[n] ELSE h[n-1][k]]
<1> DEFINE L == Len(refs)
           T == Distinct(AliasesOf(refs))
           step(acc, i) == IF refs[i].alias \notin AliasesOf(acc) THEN Append(acc, refs[i])
                  ELSE [k \in DOMAIN acc |-> IF acc[k].alias = refs[i].alias /\ acc[k].price = Unset
                                         THEN refs[i] ELSE acc[k]]
           G == [x \in T \X (1..L) |-> step(x[1], x[2])]
           E(iter) == iter = [S \in SUBSET DOMAIN refs |->
                                IF S = {} THEN <<>> ELSE step(iter[S \ {Max(S)}], Max(S))]
<1>1. Heal(refs) = (CHOOSE iter : E(iter))[DOMAIN refs]
  BY SMT DEF Heal, FoldLeft, MapThenFoldSet
<1>2. L \in Nat /\ DOMAIN refs = 1..L /\ <<>> \in T
  BY DEF Distinct, AliasesOf
<1>3. ASSUME NEW t \in T, NEW i \in 1..L PROVE step(t, i) \in T
  <2>1. t \in Seq(Refs) /\ refs[i] \in Refs /\ refs[i].alias \in AliasesOf(refs)
    BY DEF Distinct, AliasesOf
  <2>2. CASE refs[i].alias \notin AliasesOf(t)
    <3> DEFINE u == Append(t, refs[i])
    <3>1. u \in Seq(Refs) /\ DOMAIN u = 1..(Len(t) + 1) /\ DOMAIN t = 1..Len(t) /\ Len(t) \in Nat
      BY <2>1
    <3>2. \A k \in DOMAIN t : u[k] = t[k] /\ t[k].alias # refs[i].alias /\ t[k].alias \in AliasesOf(refs)
      <4> SUFFICES ASSUME NEW k \in DOMAIN t
                   PROVE  u[k] = t[k] /\ t[k].alias # refs[i].alias /\ t[k].alias \in AliasesOf(refs)
        OBVIOUS
      <4>1. u[k] = t[k]
        BY <2>1
      <4>2. t[k].alias \in AliasesOf(t)
        BY DEF AliasesOf
      <4>3. AliasesOf(t) \subseteq AliasesOf(refs)
        BY DEF Distinct
      <4> HIDE DEF u, T, G, E
      <4> QED
        BY <2>2, <4>1, <4>2, <4>3
    <3>3. u[Len(t) + 1] = refs[i]
      BY <2>1
    <3>4. \A k \in DOMAIN u : k \in DOMAIN t \/ k = Len(t) + 1
      BY <3>1
    <3> HIDE DEF u
    <3>5. AliasesOf(u) \subseteq AliasesOf(refs)
      BY <2>1, <3>2, <3>3, <3>4 DEF AliasesOf
    <3>6. \A j, k \in DOMAIN u : u[j].alias = u[k].alias => j = k
      BY <3>2, <3>3, <3>4 DEF Distinct
    <3>7. u \in T
      BY <3>1, <3>5, <3>6 DEF Distinct
    <3> QED
      BY <2>2, <3>7 DEF u
  <2>3. CASE refs[i].alias \in AliasesOf(t)
    <3> DEFINE u == [k \in DOMAIN t |-> IF t[k].alias = refs[i].alias /\ t[k].price = Unset
                                        THEN refs[i] ELSE t[k]]
    <3>1. DOMAIN u = DOMAIN t /\ DOMAIN t = 1..Len(t) /\ Len(t) \in Nat
      BY <2>1
    <3>2. \A k \in DOMAIN t : u[k] \in Refs /\ u[k].alias = t[k].alias
      BY <2>1, <3>1
    <3>3. u \in [1..Len(t) -> Refs]
      BY <3>1, <3>2
    <3> HIDE DEF u
    <3>4. u \in Seq(Refs)
      BY <3>1, <3>3, IsSequence
    <3>5. AliasesOf(u) \subseteq AliasesOf(refs)
      BY <3>1, <3>2 DEF AliasesOf, Distinct
    <3>6. \A j, k \in DOMAIN u : u[j].alias = u[k].alias => j = k
      BY <3>1, <3>2 DEF Distinct
    <3>7. u \in T
      BY <3>4, <3>5, <3>6 DEF Distinct
    <3> QED
      BY <2>3, <3>7 DEF u
  <2> QED
    BY <2>2, <2>3
<1> HIDE DEF L, T, step
<1>4. G \in [T \X (1..L) -> T]
  BY <1>3
<1>5. \E iter : E(iter)
  <2>1. PICK iter : IsFold(iter, L, T, <<>>, G)
    <3> HIDE DEF G
    <3> QED
      BY <1>2, <1>4, FoldExists
  <2>2. ASSUME NEW S \in SUBSET (1..L), S # {}
        PROVE  iter[S] = step(iter[S \ {Max(S)}], Max(S))
    <3>1. Max(S) \in 1..L /\ S \ {Max(S)} \in SUBSET (1..L)
      BY <1>2, <2>2, GreatestExists
    <3>2. iter[S \ {Max(S)}] \in T /\ iter[S] = G[<<iter[S \ {Max(S)}], Max(S)>>]
      BY <2>1, <2>2, <3>1 DEF IsFold
    <3> QED
      BY <3>1, <3>2
  <2>3. E(iter)
    BY <1>2, <2>1, <2>2 DEF IsFold
  <2> QED
    BY <2>3
<1>6. PICK iter : E(iter) /\ iter = CHOOSE i : E(i)
  <2> HIDE DEF E
  <2> QED
    BY <1>5
<1>7. Continues(iter, L, T, <<>>, G)
  <2>1. iter[{}] = <<>>
    BY <1>6
  <2>2. ASSUME NEW S \in SUBSET (1..L), S # {}, iter[S \ {Max(S)}] \in T
        PROVE  iter[S] = G[<<iter[S \ {Max(S)}], Max(S)>>]
    <3>1. Max(S) \in 1..L
      BY <1>2, <2>2, GreatestExists
    <3>2. iter[S] = step(iter[S \ {Max(S)}], Max(S))
      BY <1>2, <1>6, <2>2
    <3> QED
      BY <2>2, <3>1, <3>2
  <2> QED
    BY <2>1, <2>2 DEF Continues
<1>8. PICK h : Steps(h, iter, L, T, <<>>, G)
  <2> HIDE DEF G, E
  <2> QED
    BY <1>2, <1>4, <1>7, FoldSteps
<1>9. ASSUME NEW n \in 1..L PROVE h[n] = step(h[n-1], n)
  <2>1. n - 1 \in 0..L
    BY <1>2
  <2> QED
    BY <1>8, <2>1 DEF Steps
<1>10. h[L] = Heal(refs)
  <2> HIDE DEF E
  <2> QED
    BY <1>1, <1>2, <1>6, <1>8 DEF Steps
<1> QED
  BY <1>8, <1>9, <1>10 DEF L, T, step, Steps

----------------------------------------------------------------------------
(***************************************************************************)
(* What the operators of the model return.                                 *)
(***************************************************************************)
LEMMA ModelFields ==
  ASSUME NEW models \in Seq(ModelRules), NEW i \in DOMAIN models
  PROVE  /\ models[i] \in ModelRules
         /\ models[i].alias \in Aliases /\ models[i].target \in Targets /\ models[i].price \in Prices
<1>1. models[i] \in ModelRules
  OBVIOUS
<1> QED
  BY <1>1 DEF ModelRules

LEMMA RefFields ==
  ASSUME NEW refs \in Seq(Refs), NEW i \in DOMAIN refs
  PROVE  refs[i] \in Refs /\ refs[i].alias \in Aliases
<1>1. refs[i] \in Refs
  OBVIOUS
<1> QED
  BY <1>1 DEF Refs

LEMMA MissingType ==
  ASSUME NEW a, NEW targets, NEW models \in Seq(ModelRules)
  PROVE  /\ Missing(a, targets, models) \in Seq(TargetsFor(a, models))
         /\ Missing(a, targets, models) \in Seq(Targets)
<1>1. Missing(a, targets, models) \in Seq(TargetsFor(a, models))
  <2>1. Len(models) \in Nat /\ Len(models) \in 0..Len(models)
    OBVIOUS
  <2>2. PICK h : IsMerge(h, a, targets, models)
    BY MissingSteps
  <2> QED
    BY <2>1, <2>2 DEF IsMerge
<1>2. TargetsFor(a, models) \subseteq Targets
  BY ModelFields DEF TargetsFor
<1> QED
  BY <1>1, <1>2

LEMMA NothingMissing ==
  ASSUME NEW a, NEW targets, NEW models \in Seq(ModelRules)
  PROVE  Len(models) = 0 => Missing(a, targets, models) = <<>>
<1>1. PICK h : IsMerge(h, a, targets, models)
  BY MissingSteps
<1> QED
  BY <1>1 DEF IsMerge

LEMMA NewEntryType ==
  ASSUME NEW models \in Seq(ModelRules), NEW a \in AliasesOf(models)
  PROVE  NewEntry(a, models) \in Entries
<1> DEFINE I == {i \in 1..Len(models) : models[i].alias = a}
<1>1. I \subseteq Nat /\ I # {}
  BY DEF AliasesOf
<1>2. Min(I) \in I
  <2>1. \E n \in I : \A y \in I : n =< y
    BY <1>1, Least
  <2> HIDE DEF I
  <2> QED
    BY <2>1, Zenon DEF Min
<1>3. SelectInSeq(models, LAMBDA m : m.alias = a) = Min(I)
  BY <1>1, Zenon DEF SelectInSeq
<1>4. models[SelectInSeq(models, LAMBDA m : m.alias = a)].price \in Prices
  <2>1. Min(I) \in 1..Len(models)
    BY <1>2
  <2>2. models[Min(I)].price \in Prices
    <3> HIDE DEF I
    <3> QED
      BY <2>1, ModelFields
  <2> QED
    BY <1>3, <2>2
<1>5. Missing(a, <<>>, models) \in Seq(Targets)
  BY MissingType
<1> QED
  BY <1>4, <1>5 DEF NewEntry, Entries

LEMMA AliasesKnown ==
  ASSUME NEW models \in Seq(ModelRules)
  PROVE  AliasesOf(models) \subseteq Aliases
BY ModelFields DEF AliasesOf

LEMMA PromoteType ==
  ASSUME NEW tab, IsTable(tab), NEW models \in Seq(ModelRules)
  PROVE  /\ IsTable(Promote(tab, models))
         /\ DOMAIN Promote(tab, models) = DOMAIN tab \cup AliasesOf(models)
         /\ \A a \in DOMAIN tab :
              Promote(tab, models)[a] = [targets |-> tab[a].targets \o Missing(a, tab[a].targets, models),
                                         price |-> tab[a].price]
<1>1. DOMAIN Promote(tab, models) = DOMAIN tab \cup AliasesOf(models)
  BY DEF Promote
<1>2. ASSUME NEW a \in DOMAIN tab
      PROVE  /\ Promote(tab, models)[a] = [targets |-> tab[a].targets \o Missing(a, tab[a].targets, models),
                                           price |-> tab[a].price]
             /\ Promote(tab, models)[a] \in Entries
  <2>1. tab[a] \in Entries
    BY DEF IsTable
  <2> DEFINE more == Missing(a, tab[a].targets, models)
  <2>2. more \in Seq(Targets)
    BY MissingType
  <2>3. Promote(tab, models)[a] = [tab[a] EXCEPT !.targets = @ \o more]
    BY DEF Promote
  <2> HIDE DEF more
  <2>4. Promote(tab, models)[a] = [targets |-> tab[a].targets \o more, price |-> tab[a].price]
    BY <2>1, <2>3 DEF Entries
  <2>5. tab[a].targets \o more \in Seq(Targets) /\ tab[a].price \in Prices
    BY <2>1, <2>2 DEF Entries
  <2> QED
    BY <2>4, <2>5 DEF Entries, more
<1>3. ASSUME NEW a \in AliasesOf(models), a \notin DOMAIN tab
      PROVE  Promote(tab, models)[a] \in Entries
  BY <1>3, NewEntryType DEF Promote
<1>4. Promote(tab, models) \in [DOMAIN tab \cup AliasesOf(models) -> Entries]
  <2>1. \A a \in DOMAIN tab \cup AliasesOf(models) : Promote(tab, models)[a] \in Entries
    BY <1>2, <1>3
  <2>2. Promote(tab, models) = [a \in DOMAIN tab \cup AliasesOf(models) |-> Promote(tab, models)[a]]
    BY DEF Promote
  <2> QED
    BY <2>1, <2>2
<1> QED
  BY <1>1, <1>2, <1>4, AliasesKnown DEF IsTable

\* Nothing to promote leaves the table as it is.
LEMMA PromoteNothing ==
  ASSUME NEW tab, IsTable(tab)
  PROVE  Promote(tab, <<>>) = tab
<1>1. AliasesOf(<<>>) = {} /\ <<>> \in Seq(ModelRules)
  BY DEF AliasesOf
<1>2. DOMAIN Promote(tab, <<>>) = DOMAIN tab /\ IsTable(Promote(tab, <<>>))
  BY <1>1, PromoteType
<1>3. ASSUME NEW a \in DOMAIN tab PROVE Promote(tab, <<>>)[a] = tab[a]
  <2>1. Promote(tab, <<>>)[a] = [targets |-> tab[a].targets \o <<>>, price |-> tab[a].price]
    <3> DEFINE none == <<>>
    <3>1. none \in Seq(ModelRules) /\ Len(none) = 0
      BY <1>1
    <3> HIDE DEF none
    <3>2. Missing(a, tab[a].targets, none) = <<>>
      BY <3>1, NothingMissing
    <3>3. Promote(tab, none)[a] = [targets |-> tab[a].targets \o Missing(a, tab[a].targets, none),
                                   price |-> tab[a].price]
      BY <3>1, PromoteType
    <3> QED
      BY <3>2, <3>3 DEF none
  <2>2. tab[a] \in Entries
    BY DEF IsTable
  <2> QED
    BY <2>1, <2>2 DEF Entries
<1> QED
  BY <1>2, <1>3 DEF IsTable

LEMMA HealType ==
  ASSUME NEW refs \in Seq(Refs)
  PROVE  Heal(refs) \in Distinct(AliasesOf(refs))
<1>1. Len(refs) \in Nat /\ Len(refs) \in 0..Len(refs)
  OBVIOUS
<1> QED
  BY <1>1, HealSteps

\* References in order stay as they are.
LEMMA HealsNothing ==
  ASSUME NEW names, NEW refs \in Distinct(names)
  PROVE  Heal(refs) = refs
<1>1. refs \in Seq(Refs)
  BY DEF Distinct
<1>2. PICK h \in [0..Len(refs) -> Distinct(AliasesOf(refs))] :
           /\ h[0] = <<>> /\ h[Len(refs)] = Heal(refs)
           /\ \A n \in 1..Len(refs) : refs[n].alias \notin AliasesOf(h[n-1]) => h[n] = Append(h[n-1], refs[n])
  BY <1>1, HealSteps
<1> DEFINE A == {n \in 0..Len(refs) : h[n] = SubSeq(refs, 1, n)}
<1>3. 0 \in A
  <2>1. SubSeq(refs, 1, 0) = <<>> /\ 0 \in 0..Len(refs)
    BY <1>1
  <2> QED
    BY <1>2, <2>1
<1>4. ASSUME NEW n \in 1..Len(refs), n - 1 \in A PROVE n \in A
  <2>1. h[n-1] = SubSeq(refs, 1, n - 1) /\ n - 1 \in 0..Len(refs)
    BY <1>4
  <2>2. refs[n].alias \notin AliasesOf(h[n-1])
    <3>1. \A i \in 1..(n-1) : h[n-1][i] = refs[i] /\ refs[i].alias # refs[n].alias
      BY <1>1, <2>1 DEF Distinct
    <3>2. DOMAIN h[n-1] = 1..(n-1)
      BY <1>1, <2>1
    <3> QED
      BY <3>1, <3>2 DEF AliasesOf
  <2>3. h[n] = Append(SubSeq(refs, 1, n - 1), refs[n])
    BY <1>2, <2>1, <2>2
  <2>4. SubSeq(refs, 1, n) = Append(SubSeq(refs, 1, n - 1), refs[n])
    BY <1>1
  <2> QED
    BY <2>3, <2>4
<1>5. Len(refs) \in Nat /\ Len(refs) \in A
  <2>1. Len(refs) \in Nat
    BY <1>1
  <2> HIDE DEF A
  <2>2. 0..Len(refs) \subseteq A
    BY <1>3, <1>4, <2>1, Induction
  <2> QED
    BY <2>1, <2>2
<1> QED
  BY <1>1, <1>2, <1>5

LEMMA ReconcileType ==
  ASSUME NEW refs \in Seq(Refs), NEW models \in Seq(ModelRules)
  PROVE  Reconcile(refs, models) \in Distinct(AliasesOf(models))
<1> DEFINE new == [i \in DOMAIN models |-> [alias |-> models[i].alias, price |-> Unset]]
           all == refs \o new
<1>1. \A i \in DOMAIN models : new[i] \in Refs
  BY ModelFields DEF Refs
<1>2. Len(models) \in Nat /\ new \in [1..Len(models) -> Refs]
  BY <1>1
<1>3. new \in Seq(Refs)
  BY <1>2, IsSequence
<1>4. all \in Seq(Refs)
  BY <1>3
<1> HIDE DEF new, all
<1>5. Len(all) \in Nat /\ Len(all) \in 0..Len(all)
  BY <1>4
<1>6. FirstOfEach(all, AliasesOf(models)) \in Distinct(AliasesOf(models))
  BY <1>4, <1>5, FirstOfEachSteps DEF IsSelection
<1> QED
  BY <1>6 DEF Reconcile, all, new

\* The models of one reference.
LEMMA ResolveRowType ==
  ASSUME NEW tab, IsTable(tab), NEW refs \in Seq(Refs), AliasesOf(refs) \subseteq DOMAIN tab,
         NEW i \in DOMAIN refs
  PROVE  [j \in DOMAIN tab[refs[i].alias].targets |->
            [alias |-> refs[i].alias, target |-> tab[refs[i].alias].targets[j],
             price |-> IF refs[i].price = Unset THEN tab[refs[i].alias].price ELSE refs[i].price]]
           \in Seq(ModelRules)
<1>1. refs[i] \in Refs
  OBVIOUS
<1>2. refs[i].alias \in DOMAIN tab /\ refs[i].alias \in Aliases
  BY <1>1 DEF AliasesOf, Refs
<1> DEFINE e == tab[refs[i].alias]
<1>3. e \in Entries
  BY <1>2 DEF IsTable
<1>4. e.targets \in Seq(Targets) /\ e.price \in Prices
  BY <1>3 DEF Entries
<1> DEFINE p == IF refs[i].price = Unset THEN e.price ELSE refs[i].price
           m(j) == [alias |-> refs[i].alias, target |-> e.targets[j], price |-> p]
<1>5. p \in Prices
  BY <1>1, <1>4 DEF Refs
<1>6. DOMAIN e.targets = 1..Len(e.targets) /\ Len(e.targets) \in Nat
      /\ \A j \in DOMAIN e.targets : e.targets[j] \in Targets
  BY <1>4
<1>7. \A j \in DOMAIN e.targets : m(j) \in ModelRules
  <2> HIDE DEF e, p
  <2> QED
    BY <1>2, <1>5, <1>6 DEF ModelRules, p
<1> HIDE DEF m, e
<1>8. [j \in DOMAIN e.targets |-> m(j)] \in [1..Len(e.targets) -> ModelRules]
  BY <1>6, <1>7
<1>9. [j \in DOMAIN e.targets |-> m(j)] \in Seq(ModelRules)
  BY <1>6, <1>8, IsSequence
<1> QED
  BY <1>9 DEF m, e, p

LEMMA ResolveType ==
  ASSUME NEW tab, IsTable(tab), NEW refs \in Seq(Refs), AliasesOf(refs) \subseteq DOMAIN tab
  PROVE  Resolve(refs, tab) \in Seq(ModelRules)
<1> DEFINE of(i) == [j \in DOMAIN tab[refs[i].alias].targets |->
              [alias |-> refs[i].alias, target |-> tab[refs[i].alias].targets[j],
               price |-> IF refs[i].price = Unset THEN tab[refs[i].alias].price ELSE refs[i].price]]
           ss == [i \in DOMAIN refs |-> of(i)]
<1>1. ASSUME NEW i \in DOMAIN refs PROVE of(i) \in Seq(ModelRules)
  BY ResolveRowType
<1> HIDE DEF of
<1>2. Len(refs) \in Nat /\ ss \in [1..Len(refs) -> Seq(ModelRules)]
  BY <1>1
<1>3. ss \in Seq(Seq(ModelRules))
  BY <1>2, IsSequence
<1>4. FlattenSeq(ss) \in Seq(ModelRules)
  <2> HIDE DEF ss
  <2> QED
    BY <1>3, FlattenType
<1> QED
  BY <1>4 DEF Resolve, ss, of

LEMMA ResolvedType ==
  ASSUME NEW tab, IsTable(tab), NEW k \in Keys, AliasesOf(k.refs) \subseteq DOMAIN tab
  PROVE  Resolved(k, tab) \in Keys /\ Resolved(k, tab).refs = k.refs
<1>1. k.refs \in Seq(Refs)
  BY DEF Keys
<1>2. Resolve(k.refs, tab) \in Seq(ModelRules)
  BY <1>1, ResolveType
<1>3. CASE k.refs = <<>>
  BY <1>3 DEF Resolved
<1>4. CASE k.refs # <<>>
  <2>1. Resolved(k, tab) = [k EXCEPT !.models = Resolve(k.refs, tab)]
    BY <1>4 DEF Resolved
  <2> QED
    BY <1>2, <2>1 DEF Keys
<1> QED
  BY <1>3, <1>4

LEMMA DistinctAreRefs ==
  ASSUME NEW names
  PROVE  Distinct(names) \subseteq Seq(Refs)
BY DEF Distinct

LEMMA MigrateType ==
  ASSUME NEW k \in Keys
  PROVE  /\ Migrate(k) \in Keys
         /\ Migrate(k).models = <<>>
         /\ Migrate(k).refs \in Distinct(Aliases)
<1>1. k.refs \in Seq(Refs) /\ k.models \in Seq(ModelRules)
  BY DEF Keys
<1>2. Reconcile(k.refs, k.models) \in Seq(Refs)
  BY <1>1, ReconcileType, DistinctAreRefs
<1> DEFINE refs == IF k.models = <<>> THEN k.refs ELSE Reconcile(k.refs, k.models)
<1>3. refs \in Seq(Refs)
  BY <1>1, <1>2
<1>4. Migrate(k) = [refs |-> Heal(refs), models |-> <<>>]
  BY DEF Migrate
<1> HIDE DEF refs
<1>5. Heal(refs) \in Distinct(AliasesOf(refs))
  BY <1>3, HealType
<1>6. AliasesOf(refs) \subseteq Aliases
  BY <1>3, RefFields DEF AliasesOf
<1>7. Heal(refs) \in Seq(Refs) /\ Heal(refs) \in Distinct(Aliases)
  BY <1>5, <1>6 DEF Distinct
<1>8. <<>> \in Seq(ModelRules)
  OBVIOUS
<1> QED
  BY <1>4, <1>7, <1>8 DEF Keys

\* A key in order stays as it is.
LEMMA MigratesNothing ==
  ASSUME NEW k, k.models = <<>>, k.refs \in Distinct(Aliases)
  PROVE  Migrate(k) = [refs |-> k.refs, models |-> <<>>]
BY HealsNothing DEF Migrate

\* The models of all the keys, in the order of the ids.
OldModels(ks) ==
    FlattenSeq([i \in DOMAIN IdOrder |->
                  IF IdOrder[i] \in DOMAIN ks THEN ks[IdOrder[i]].models ELSE <<>>])

LEMMA OldModelsType ==
  ASSUME NEW ks, IsKeys(ks)
  PROVE  OldModels(ks) \in Seq(ModelRules)
<1> DEFINE ss == [i \in DOMAIN IdOrder |->
                    IF IdOrder[i] \in DOMAIN ks THEN ks[IdOrder[i]].models ELSE <<>>]
<1>1. Len(IdOrder) \in Nat /\ DOMAIN IdOrder = 1..Len(IdOrder)
  BY IdsAreListed
<1>2. \A id \in DOMAIN ks : ks[id].models \in Seq(ModelRules)
  BY DEF IsKeys, Keys
<1>3. <<>> \in Seq(ModelRules)
  OBVIOUS
<1>4. ss \in [1..Len(IdOrder) -> Seq(ModelRules)]
  BY <1>1, <1>2, <1>3
<1>5. ss \in Seq(Seq(ModelRules))
  BY <1>1, <1>4, IsSequence
<1>6. FlattenSeq(ss) \in Seq(ModelRules)
  <2> HIDE DEF ss
  <2> QED
    BY <1>5, FlattenType
<1> QED
  BY <1>6 DEF OldModels

LEMMA NoOldModels ==
  ASSUME NEW ks, \A id \in DOMAIN ks : ks[id].models = <<>>
  PROVE  OldModels(ks) = <<>>
<1> DEFINE ss == [i \in DOMAIN IdOrder |->
                    IF IdOrder[i] \in DOMAIN ks THEN ks[IdOrder[i]].models ELSE <<>>]
<1>1. Len(IdOrder) \in Nat /\ DOMAIN IdOrder = 1..Len(IdOrder)
  BY IdsAreListed
<1>2. ss \in [1..Len(IdOrder) -> {<<>>}]
  BY <1>1
<1>3. FlattenSeq(ss) = <<>>
  <2> HIDE DEF ss
  <2> QED
    BY <1>1, <1>2, FlattenNothing
<1> QED
  BY <1>3 DEF OldModels

LEMMA NormalizeIs ==
  ASSUME NEW c
  PROVE  /\ Normalize(c).keys = [id \in DOMAIN c.keys |-> Migrate(c.keys[id])]
         /\ Normalize(c).table = Promote(c.table, OldModels(c.keys))
         /\ Normalize(c).rules = c.rules
BY DEF Normalize, OldModels

\* A normalized configuration has keys without models and with references each
\* to an alias of its own.
Ordered(ks) == \A id \in DOMAIN ks : ks[id].refs \in Distinct(Aliases)

LEMMA NormalizeType ==
  ASSUME NEW c, IsKeys(c.keys), IsTable(c.table)
  PROVE  /\ IsKeys(Normalize(c).keys) /\ IsTable(Normalize(c).table)
         /\ DOMAIN Normalize(c).keys = DOMAIN c.keys
         /\ DOMAIN c.table \subseteq DOMAIN Normalize(c).table
         /\ Ordered(Normalize(c).keys)
<1> DEFINE n == Normalize(c)
<1>1. n.keys = [id \in DOMAIN c.keys |-> Migrate(c.keys[id])]
      /\ n.table = Promote(c.table, OldModels(c.keys))
  BY NormalizeIs
<1> HIDE DEF n
<1>2. DOMAIN c.keys \subseteq Ids /\ \A id \in DOMAIN c.keys : c.keys[id] \in Keys
  BY DEF IsKeys
<1>3. \A id \in DOMAIN c.keys : n.keys[id] \in Keys /\ n.keys[id].refs \in Distinct(Aliases)
  BY <1>1, <1>2, MigrateType
<1>4. IsKeys(n.keys) /\ DOMAIN n.keys = DOMAIN c.keys
  BY <1>1, <1>2, <1>3 DEF IsKeys
<1>5. OldModels(c.keys) \in Seq(ModelRules)
  BY OldModelsType
<1>6. IsTable(n.table) /\ DOMAIN c.table \subseteq DOMAIN n.table
  <2> DEFINE old == OldModels(c.keys)
             tab == c.table
  <2>1. old \in Seq(ModelRules) /\ IsTable(tab)
    BY <1>5
  <2>2. n.table = Promote(tab, old)
    BY <1>1
  <2> HIDE DEF old, tab
  <2>3. IsTable(Promote(tab, old)) /\ DOMAIN tab \subseteq DOMAIN Promote(tab, old)
    BY <2>1, PromoteType
  <2> QED
    BY <2>2, <2>3 DEF tab
<1> QED
  BY <1>3, <1>4, <1>6 DEF n, Ordered

\* What is in order already stays as it is, but for the models that a file
\* leaves out.
LEMMA NormalizeStripped ==
  ASSUME NEW c, IsKeys(c.keys), Ordered(c.keys), IsTable(c.table),
         \A id \in DOMAIN c.keys : c.keys[id].models = <<>>
  PROVE  Normalize(c).keys = c.keys /\ Normalize(c).table = c.table
<1>1. Normalize(c).keys = [id \in DOMAIN c.keys |-> Migrate(c.keys[id])]
      /\ Normalize(c).table = Promote(c.table, OldModels(c.keys))
  BY NormalizeIs
<1>2. OldModels(c.keys) = <<>>
  BY NoOldModels
<1>3. Normalize(c).table = c.table
  BY <1>1, <1>2, PromoteNothing
<1>4. ASSUME NEW id \in DOMAIN c.keys PROVE Migrate(c.keys[id]) = c.keys[id]
  <2>1. c.keys[id] \in Keys /\ c.keys[id].models = <<>> /\ c.keys[id].refs \in Distinct(Aliases)
    BY DEF IsKeys, Ordered
  <2>2. Migrate(c.keys[id]) = [refs |-> c.keys[id].refs, models |-> <<>>]
    BY <2>1, MigratesNothing
  <2>3. c.keys[id] = [refs |-> c.keys[id].refs, models |-> c.keys[id].models]
    BY <2>1 DEF Keys
  <2> QED
    BY <2>1, <2>2, <2>3
<1>5. c.keys = [id \in DOMAIN c.keys |-> c.keys[id]]
  BY DEF IsKeys
<1> QED
  BY <1>1, <1>3, <1>4, <1>5

LEMMA StrippedType ==
  ASSUME NEW ks, IsKeys(ks)
  PROVE  /\ IsKeys(Stripped(ks)) /\ DOMAIN Stripped(ks) = DOMAIN ks
         /\ \A id \in DOMAIN ks : Stripped(ks)[id].models = <<>> /\ Stripped(ks)[id].refs = ks[id].refs
<1>1. ASSUME NEW id \in DOMAIN ks
      PROVE  Stripped(ks)[id] \in Keys /\ Stripped(ks)[id].models = <<>> /\ Stripped(ks)[id].refs = ks[id].refs
  <2>1. ks[id] \in Keys
    BY DEF IsKeys
  <2>2. Stripped(ks)[id] = [ks[id] EXCEPT !.models = <<>>]
    BY DEF Stripped
  <2>3. <<>> \in Seq(ModelRules)
    OBVIOUS
  <2> QED
    BY <2>1, <2>2, <2>3 DEF Keys
<1>2. Stripped(ks) = [id \in DOMAIN ks |-> Stripped(ks)[id]]
  BY DEF Stripped
<1> QED
  BY <1>1, <1>2 DEF IsKeys

LEMMA ResolveAllType ==
  ASSUME NEW ks, IsKeys(ks), NEW tab, IsTable(tab),
         \A id \in DOMAIN ks : AliasesOf(ks[id].refs) \subseteq DOMAIN tab
  PROVE  /\ IsKeys(ResolveAll(ks, tab)) /\ DOMAIN ResolveAll(ks, tab) = DOMAIN ks
         /\ \A id \in DOMAIN ks : ResolveAll(ks, tab)[id].refs = ks[id].refs
<1>1. ASSUME NEW id \in DOMAIN ks
      PROVE  ResolveAll(ks, tab)[id] \in Keys /\ ResolveAll(ks, tab)[id].refs = ks[id].refs
  <2>1. ks[id] \in Keys
    BY DEF IsKeys
  <2>2. ResolveAll(ks, tab)[id] = Resolved(ks[id], tab)
    BY DEF ResolveAll
  <2> QED
    BY <2>1, <2>2, ResolvedType
<1>2. ResolveAll(ks, tab) = [id \in DOMAIN ks |-> ResolveAll(ks, tab)[id]]
  BY DEF ResolveAll
<1> QED
  BY <1>1, <1>2 DEF IsKeys

LEMMA NothingType == IsKeys(Nothing) /\ IsTable(Nothing) /\ DOMAIN Nothing = {}
BY DEF Nothing, IsKeys, IsTable

----------------------------------------------------------------------------
(***************************************************************************)
(* What an alias leads to, and what promoting models adds.                 *)
(***************************************************************************)
\* Every target that the models name for the alias is there in the end.
LEMMA NoneMissing ==
  ASSUME NEW a, NEW targets \in Seq(Targets), NEW models \in Seq(ModelRules)
  PROVE  ToSet(targets \o Missing(a, targets, models)) = ToSet(targets) \cup TargetsFor(a, models)
<1> DEFINE L == Len(models)
<1>1. L \in Nat /\ DOMAIN models = 1..L
  OBVIOUS
<1>2. PICK h : IsMerge(h, a, targets, models)
  BY MissingSteps
<1>2a. /\ h \in [0..L -> Seq(TargetsFor(a, models))] /\ h[L] = Missing(a, targets, models)
       /\ \A n \in 1..L :
            h[n] = IF models[n].alias # a \/ Contains(targets \o h[n-1], models[n].target)
                   THEN h[n-1] ELSE Append(h[n-1], models[n].target)
  BY <1>2 DEF IsMerge
<1> HIDE DEF L
<1> DEFINE A == {n \in 0..L : \A i \in 1..n : models[i].alias = a =>
                                 models[i].target \in ToSet(targets) \cup ToSet(h[n])}
<1>3. TargetsFor(a, models) \subseteq Targets
  BY ModelFields DEF TargetsFor
<1>4. \A n \in 0..L : h[n] \in Seq(Targets) /\ h[n] \in Seq(TargetsFor(a, models))
  BY <1>2a, <1>3
<1>5. 0 \in A
  <2>1. 1..0 = {} /\ 0 \in 0..L
    BY <1>1
  <2> QED
    BY <2>1
<1>6. ASSUME NEW n \in 1..L, n - 1 \in A PROVE n \in A
  <2>1. n - 1 \in 0..L /\ n \in 0..L /\ 1..n = (1..(n-1)) \cup {n}
    BY <1>1
  <2>2. h[n-1] \in Seq(Targets)
    BY <1>4, <2>1
  <2>3. \A i \in 1..(n-1) : models[i].alias = a => models[i].target \in ToSet(targets) \cup ToSet(h[n-1])
    BY <1>6
  <2>4. CASE models[n].alias # a
    BY <1>2a, <2>1, <2>3, <2>4
  <2>5. CASE Contains(targets \o h[n-1], models[n].target)
    <3>1. targets \o h[n-1] \in Seq(Targets)
      BY <2>2
    <3>2. models[n].target \in ToSet(targets) \cup ToSet(h[n-1])
      <4>1. models[n].target \in ToSet(targets \o h[n-1])
        BY <2>5, <3>1, ContainsIsMember
      <4> QED
        BY <2>2, <4>1, SetOfConcat
    <3>3. h[n] = h[n-1]
      BY <1>2a, <2>5
    <3> QED
      BY <2>1, <2>3, <3>2, <3>3
  <2>6. CASE models[n].alias = a /\ ~Contains(targets \o h[n-1], models[n].target)
    <3>1. h[n] = Append(h[n-1], models[n].target)
      BY <1>2a, <2>6
    <3>2. models[n].target \in Targets
      BY <1>1, ModelFields
    <3>3. ToSet(h[n]) = ToSet(h[n-1]) \cup {models[n].target}
      BY <2>2, <3>1, <3>2, SetOfAppend
    <3> QED
      BY <2>1, <2>3, <3>3
  <2> QED
    BY <2>4, <2>5, <2>6
<1>7. L \in A
  <2> HIDE DEF A
  <2>1. 0..L \subseteq A
    BY <1>1, <1>5, <1>6, Induction
  <2> QED
    BY <1>1, <2>1
<1> DEFINE more == Missing(a, targets, models)
<1>8. more \in Seq(Targets) /\ more \in Seq(TargetsFor(a, models)) /\ more = h[L]
  BY <1>1, <1>2a, <1>4
<1>9. ToSet(more) \subseteq TargetsFor(a, models)
  <2> HIDE DEF more
  <2> QED
    BY <1>8 DEF ToSet
<1>10. TargetsFor(a, models) \subseteq ToSet(targets) \cup ToSet(more)
  BY <1>1, <1>7, <1>8 DEF TargetsFor
<1>11. ToSet(targets \o more) = ToSet(targets) \cup ToSet(more)
  BY <1>8, SetOfConcat
<1> QED
  BY <1>9, <1>10, <1>11

LEMMA PairsAre ==
  ASSUME NEW tab, IsTable(tab)
  PROVE  \A a, t : <<a, t>> \in Pairs(tab) <=> a \in DOMAIN tab /\ t \in ToSet(tab[a].targets)
<1> SUFFICES ASSUME NEW a, NEW t
             PROVE  <<a, t>> \in Pairs(tab) <=> a \in DOMAIN tab /\ t \in ToSet(tab[a].targets)
  OBVIOUS
<1>1. <<a, t>> \in Pairs(tab) <=> a \in DOMAIN tab /\ t \in Targets /\ Contains(tab[a].targets, t)
  BY DEF Pairs
<1>2. ASSUME a \in DOMAIN tab
      PROVE  /\ Contains(tab[a].targets, t) <=> t \in ToSet(tab[a].targets)
             /\ ToSet(tab[a].targets) \subseteq Targets
  <2>1. tab[a].targets \in Seq(Targets)
    BY <1>2 DEF IsTable, Entries
  <2> DEFINE s == tab[a].targets
  <2> HIDE DEF s
  <2>2. s \in Seq(Targets)
    BY <2>1 DEF s
  <2>3. Contains(s, t) <=> t \in ToSet(s)
    BY <2>2, ContainsIsMember
  <2>4. ToSet(s) \subseteq Targets
    BY <2>2 DEF ToSet
  <2> QED
    BY <2>3, <2>4 DEF s
<1> QED
  BY <1>1, <1>2

LEMMA PairsOfAre ==
  ASSUME NEW models
  PROVE  \A a, t : <<a, t>> \in PairsOf(models) <=> a \in AliasesOf(models) /\ t \in TargetsFor(a, models)
BY DEF PairsOf, AliasesOf, TargetsFor

\* Both are sets of pairs.
LEMMA PairsArePairs ==
  ASSUME NEW tab, NEW models
  PROVE  /\ \A p \in Pairs(tab) : p = <<p[1], p[2]>>
         /\ \A p \in PairsOf(models) : p = <<p[1], p[2]>>
BY DEF Pairs, PairsOf

LEMMA PromotePairs ==
  ASSUME NEW tab, IsTable(tab), NEW models \in Seq(ModelRules)
  PROVE  Pairs(Promote(tab, models)) = Pairs(tab) \cup PairsOf(models)
<1> DEFINE new == Promote(tab, models)
<1>1. IsTable(new) /\ DOMAIN new = DOMAIN tab \cup AliasesOf(models)
  BY PromoteType
<1>2. ASSUME NEW a \in DOMAIN tab
      PROVE  ToSet(new[a].targets) = ToSet(tab[a].targets) \cup TargetsFor(a, models)
  <2> DEFINE old == tab[a].targets
  <2>1. old \in Seq(Targets)
    BY DEF IsTable, Entries
  <2>2. new[a].targets = old \o Missing(a, old, models)
    <3> DEFINE all == tab[a].targets \o Missing(a, tab[a].targets, models)
    <3>1. new[a] = [targets |-> all, price |-> tab[a].price]
      BY PromoteType
    <3>2. all = old \o Missing(a, old, models)
      OBVIOUS
    <3> HIDE DEF new, all, old
    <3> QED
      BY <3>1, <3>2
  <2> HIDE DEF old, new
  <2>3. ToSet(old \o Missing(a, old, models)) = ToSet(old) \cup TargetsFor(a, models)
    BY <2>1, NoneMissing
  <2> QED
    BY <2>2, <2>3 DEF old
<1>3. ASSUME NEW a \in AliasesOf(models), a \notin DOMAIN tab
      PROVE  ToSet(new[a].targets) = TargetsFor(a, models)
  <2> DEFINE none == <<>>
  <2>1. none \in Seq(Targets) /\ ToSet(none) = {}
    BY DEF ToSet
  <2>2. new[a].targets = Missing(a, none, models)
    BY <1>3 DEF Promote, NewEntry
  <2>3. Missing(a, none, models) \in Seq(Targets)
    BY MissingType
  <2>4. none \o Missing(a, none, models) = Missing(a, none, models)
    BY <2>3
  <2> HIDE DEF none, new
  <2>5. ToSet(none \o Missing(a, none, models)) = ToSet(none) \cup TargetsFor(a, models)
    BY <2>1, NoneMissing
  <2> QED
    BY <2>1, <2>2, <2>4, <2>5
<1> HIDE DEF new
<1>4. \A a : a \notin AliasesOf(models) => TargetsFor(a, models) = {}
  BY DEF TargetsFor, AliasesOf
<1>5. \A a, t : <<a, t>> \in Pairs(new) <=> <<a, t>> \in Pairs(tab) \/ <<a, t>> \in PairsOf(models)
  <2> SUFFICES ASSUME NEW a, NEW t
               PROVE  <<a, t>> \in Pairs(new) <=> <<a, t>> \in Pairs(tab) \/ <<a, t>> \in PairsOf(models)
    OBVIOUS
  <2>1. <<a, t>> \in Pairs(new) <=> a \in DOMAIN new /\ t \in ToSet(new[a].targets)
    BY <1>1, PairsAre
  <2>2. <<a, t>> \in Pairs(tab) <=> a \in DOMAIN tab /\ t \in ToSet(tab[a].targets)
    BY PairsAre
  <2>3. <<a, t>> \in PairsOf(models) <=> a \in AliasesOf(models) /\ t \in TargetsFor(a, models)
    BY PairsOfAre
  <2>4. CASE a \in DOMAIN tab
    BY <1>1, <1>2, <1>4, <2>1, <2>2, <2>3, <2>4
  <2>5. CASE a \in AliasesOf(models) /\ a \notin DOMAIN tab
    BY <1>1, <1>3, <2>1, <2>2, <2>3, <2>5
  <2>6. CASE a \notin DOMAIN new
    BY <1>1, <2>1, <2>2, <2>3, <2>6
  <2> QED
    BY <1>1, <2>4, <2>5, <2>6
<1>6. /\ \A p \in Pairs(new) : p = <<p[1], p[2]>>
      /\ \A p \in Pairs(tab) : p = <<p[1], p[2]>>
      /\ \A p \in PairsOf(models) : p = <<p[1], p[2]>>
  BY PairsArePairs
<1>7. Pairs(new) = Pairs(tab) \cup PairsOf(models)
  BY <1>5, <1>6
<1> QED
  BY <1>7 DEF new

LEMMA PairsOfSet ==
  ASSUME NEW models
  PROVE  PairsOf(models) = {<<m.alias, m.target>> : m \in ToSet(models)}
BY DEF PairsOf, ToSet

LEMMA OldModelsPairs ==
  ASSUME NEW ks, IsKeys(ks)
  PROVE  PairsOf(OldModels(ks)) = UNION {PairsOf(ks[id].models) : id \in DOMAIN ks}
<1> DEFINE ss == [i \in DOMAIN IdOrder |->
                    IF IdOrder[i] \in DOMAIN ks THEN ks[IdOrder[i]].models ELSE <<>>]
<1>1. Len(IdOrder) \in Nat /\ DOMAIN IdOrder = 1..Len(IdOrder)
  BY IdsAreListed
<1>2. \A id \in DOMAIN ks : ks[id].models \in Seq(ModelRules) /\ \E i \in DOMAIN IdOrder : IdOrder[i] = id
  BY DEF IsKeys, Keys, Ids, ToSet
<1>3. <<>> \in Seq(ModelRules) /\ ToSet(<<>>) = {}
  BY DEF ToSet
<1>4. ss \in [1..Len(IdOrder) -> Seq(ModelRules)]
  BY <1>1, <1>2, <1>3
<1>5. ss \in Seq(Seq(ModelRules)) /\ DOMAIN ss = DOMAIN IdOrder
  BY <1>1, <1>4, IsSequence
<1>6. OldModels(ks) = FlattenSeq(ss)
  BY DEF OldModels
<1>7. UNION {ToSet(ss[i]) : i \in DOMAIN ss} = UNION {ToSet(ks[id].models) : id \in DOMAIN ks}
  <2>1. ASSUME NEW i \in DOMAIN IdOrder
        PROVE  ToSet(ss[i]) \subseteq UNION {ToSet(ks[id].models) : id \in DOMAIN ks}
    <3>1. CASE IdOrder[i] \in DOMAIN ks
      BY <3>1
    <3>2. CASE IdOrder[i] \notin DOMAIN ks
      <4>1. ss[i] = <<>>
        BY <3>2
      <4> QED
        BY <1>3, <4>1
    <3> QED
      BY <3>1, <3>2
  <2>2. ASSUME NEW id \in DOMAIN ks
        PROVE  ToSet(ks[id].models) \subseteq UNION {ToSet(ss[i]) : i \in DOMAIN ss}
    <3>1. PICK i \in DOMAIN IdOrder : IdOrder[i] = id
      BY <1>2
    <3>2. ss[i] = ks[id].models
      BY <3>1
    <3> QED
      BY <1>5, <3>2
  <2> HIDE DEF ss
  <2> QED
    BY <1>5, <2>1, <2>2
<1> HIDE DEF ss
<1>8. ToSet(OldModels(ks)) = UNION {ToSet(ks[id].models) : id \in DOMAIN ks}
  BY <1>5, <1>6, <1>7, FlattenContents
<1> QED
  BY <1>8, PairsOfSet

\* Normalizing a configuration adds to its aliases what its keys' models name.
LEMMA NormalizePairs ==
  ASSUME NEW c, IsKeys(c.keys), IsTable(c.table)
  PROVE  Pairs(Normalize(c).table) = Pairs(c.table) \cup UNION {PairsOf(c.keys[id].models) : id \in DOMAIN c.keys}
<1> DEFINE old == OldModels(c.keys)
           tab == c.table
<1>1. old \in Seq(ModelRules) /\ IsTable(tab)
  BY OldModelsType
<1>2. Normalize(c).table = Promote(tab, old)
  BY NormalizeIs
<1>3. PairsOf(old) = UNION {PairsOf(c.keys[id].models) : id \in DOMAIN c.keys}
  <2> DEFINE ks == c.keys
  <2>1. IsKeys(ks)
    OBVIOUS
  <2> HIDE DEF ks
  <2>2. PairsOf(OldModels(ks)) = UNION {PairsOf(ks[id].models) : id \in DOMAIN ks}
    BY <2>1, OldModelsPairs
  <2> QED
    BY <2>2 DEF ks
<1> HIDE DEF old, tab
<1>4. Pairs(Promote(tab, old)) = Pairs(tab) \cup PairsOf(old)
  BY <1>1, PromotePairs
<1> QED
  BY <1>2, <1>3, <1>4 DEF tab

\* A key leads where the aliases of its references do.
LEMMA ResolvePairs ==
  ASSUME NEW tab, IsTable(tab), NEW refs \in Seq(Refs), AliasesOf(refs) \subseteq DOMAIN tab
  PROVE  PairsOf(Resolve(refs, tab)) = {p \in Pairs(tab) : p[1] \in AliasesOf(refs)}
<1> DEFINE of(i) == [j \in DOMAIN tab[refs[i].alias].targets |->
              [alias |-> refs[i].alias, target |-> tab[refs[i].alias].targets[j],
               price |-> IF refs[i].price = Unset THEN tab[refs[i].alias].price ELSE refs[i].price]]
           ss == [i \in DOMAIN refs |-> of(i)]
<1>1. ASSUME NEW i \in DOMAIN refs PROVE of(i) \in Seq(ModelRules)
  BY ResolveRowType
<1>2. Len(refs) \in Nat /\ ss \in [1..Len(refs) -> Seq(ModelRules)] /\ DOMAIN ss = DOMAIN refs
  <2> HIDE DEF of
  <2> QED
    BY <1>1
<1>3. ss \in Seq(Seq(ModelRules))
  <2> HIDE DEF ss
  <2> QED
    BY <1>2, IsSequence
<1>4. Resolve(refs, tab) = FlattenSeq(ss)
  BY DEF Resolve
<1>5. ToSet(FlattenSeq(ss)) = UNION {ToSet(ss[i]) : i \in DOMAIN ss}
  <2> HIDE DEF ss
  <2> QED
    BY <1>3, FlattenContents
<1>6. ASSUME NEW i \in DOMAIN refs
      PROVE  {<<m.alias, m.target>> : m \in ToSet(ss[i])}
               = {refs[i].alias} \X ToSet(tab[refs[i].alias].targets)
  <2>1. ss[i] = of(i)
    OBVIOUS
  <2>2. ToSet(of(i)) = {of(i)[j] : j \in DOMAIN tab[refs[i].alias].targets}
    BY DEF ToSet
  <2>3. \A j \in DOMAIN tab[refs[i].alias].targets :
           of(i)[j].alias = refs[i].alias /\ of(i)[j].target = tab[refs[i].alias].targets[j]
    OBVIOUS
  <2> DEFINE ts == tab[refs[i].alias].targets
             al == refs[i].alias
  <2>4. {<<m.alias, m.target>> : m \in {of(i)[j] : j \in DOMAIN ts}} = {<<al, ts[j]>> : j \in DOMAIN ts}
    <3> HIDE DEF of
    <3> QED
      BY <2>3
  <2>5. {<<al, ts[j]>> : j \in DOMAIN ts} = {al} \X ToSet(ts)
    BY DEF ToSet
  <2> HIDE DEF of, ss
  <2> QED
    BY <2>1, <2>2, <2>4, <2>5
<1> HIDE DEF ss, of
<1>7. PairsOf(Resolve(refs, tab)) = UNION {{refs[i].alias} \X ToSet(tab[refs[i].alias].targets) : i \in DOMAIN refs}
  <2>1. PairsOf(Resolve(refs, tab)) = {<<m.alias, m.target>> : m \in UNION {ToSet(ss[i]) : i \in DOMAIN refs}}
    BY <1>2, <1>4, <1>5, PairsOfSet
  <2> QED
    BY <1>6, <2>1
<1>8. \A a, t : <<a, t>> \in PairsOf(Resolve(refs, tab)) <=> <<a, t>> \in Pairs(tab) /\ a \in AliasesOf(refs)
  <2> SUFFICES ASSUME NEW a, NEW t
               PROVE  <<a, t>> \in PairsOf(Resolve(refs, tab)) <=> <<a, t>> \in Pairs(tab) /\ a \in AliasesOf(refs)
    OBVIOUS
  <2>1. <<a, t>> \in Pairs(tab) <=> a \in DOMAIN tab /\ t \in ToSet(tab[a].targets)
    BY PairsAre
  <2>2. <<a, t>> \in PairsOf(Resolve(refs, tab))
          <=> \E i \in DOMAIN refs : a = refs[i].alias /\ t \in ToSet(tab[refs[i].alias].targets)
    BY <1>7
  <2>3. a \in AliasesOf(refs) <=> \E i \in DOMAIN refs : a = refs[i].alias
    BY DEF AliasesOf
  <2> QED
    BY <2>1, <2>2, <2>3
<1>9. /\ \A p \in Pairs(tab) : p = <<p[1], p[2]>>
      /\ \A p \in PairsOf(Resolve(refs, tab)) : p = <<p[1], p[2]>>
  BY PairsArePairs
<1> QED
  BY <1>8, <1>9
----------------------------------------------------------------------------
(***************************************************************************)
(* The inductive invariant.                                                *)
(***************************************************************************)
IsFile(f) ==
    f = [keys |-> f.keys, table |-> f.table, rules |-> f.rules] /\ IsKeys(f.keys) /\ IsTable(f.table)

Typed ==
    /\ IsKeys(keys) /\ IsTable(table)
    /\ file = NoFile \/ IsFile(file)
    /\ DOMAIN patch = Patchers
    /\ \A p \in Patchers : patch[p] = NoPatch \/ (patch[p].id \in Ids /\ patch[p].key \in Keys)

\* While the file holds what memory does, a normalized copy of it says the same.
Mirrored ==
    synced =>
      /\ IsFile(file)
      /\ Normalize(file).table = table /\ file.rules = rules
      /\ DOMAIN file.keys = DOMAIN keys
      /\ \A id \in DOMAIN keys : Normalize(file).keys[id].refs = keys[id].refs

Inv == Typed /\ Ordered(keys) /\ RefsResolve /\ LeadSomewhere(table) /\ Mirrored

\* What an edit leaves in memory.
InOrder ==
    IsKeys(keys) /\ IsTable(table) /\ Ordered(keys) /\ RefsResolve /\ LeadSomewhere(table)

LEMMA Saves ==
  ASSUME Typed, InOrder', NEW grants, NEW revokes, Save(grants, revokes)
  PROVE  (file = NoFile \/ IsFile(file))' /\ Mirrored'
<1>1. CASE SaveState
  <2> DEFINE f == [keys |-> Stripped(keys'), table |-> table', rules |-> rules']
  <2>1. file' = f
    BY <1>1 DEF SaveState
  <2>2. IsKeys(keys') /\ IsTable(table') /\ \A id \in DOMAIN (keys') : keys'[id].refs \in Distinct(Aliases)
    BY DEF InOrder, Ordered
  <2> DEFINE ks == keys'
  <2>3. IsKeys(ks)
    BY <2>2
  <2>4. IsKeys(f.keys) /\ DOMAIN f.keys = DOMAIN ks
        /\ \A id \in DOMAIN ks : f.keys[id].models = <<>> /\ f.keys[id].refs = ks[id].refs
    <3> HIDE DEF ks
    <3>1. f.keys = Stripped(ks)
      BY DEF ks
    <3> QED
      BY <2>3, <3>1, StrippedType
  <2>5. IsTable(f.table) /\ f.table = table' /\ f.rules = rules'
    BY <2>2
  <2>6. Ordered(f.keys) /\ \A id \in DOMAIN f.keys : f.keys[id].models = <<>>
    BY <2>2, <2>4 DEF Ordered
  <2>7. IsFile(f)
    BY <2>4, <2>5 DEF IsFile
  <2> HIDE DEF f
  <2>8. Normalize(f).keys = f.keys /\ Normalize(f).table = f.table
    BY <2>4, <2>5, <2>6, NormalizeStripped
  <2>9. Mirrored'
    BY <2>1, <2>4, <2>5, <2>7, <2>8 DEF Mirrored
  <2> QED
    BY <2>1, <2>7, <2>9
<1>2. CASE synced' = FALSE /\ UNCHANGED file
  BY <1>2 DEF Typed, Mirrored
<1> QED
  BY <1>1, <1>2 DEF Save

LEMMA Installs ==
  ASSUME NEW n, IsKeys(n.keys), IsTable(n.table), Ordered(n.keys),
         \A id \in DOMAIN n.keys : AliasesOf(n.keys[id].refs) \subseteq DOMAIN n.table,
         LeadSomewhere(n.table), Install(n)
  PROVE  InOrder' /\ table' = n.table /\ rules' = n.rules /\ DOMAIN (keys') = DOMAIN n.keys
         /\ \A id \in DOMAIN n.keys : keys'[id].refs = n.keys[id].refs
<1>1. keys' = ResolveAll(n.keys, n.table) /\ table' = n.table /\ rules' = n.rules
  BY DEF Install
<1> DEFINE ks == ResolveAll(n.keys, n.table)
<1>2. IsKeys(ks) /\ DOMAIN ks = DOMAIN n.keys /\ \A id \in DOMAIN n.keys : ks[id].refs = n.keys[id].refs
  BY ResolveAllType
<1>3. keys' = ks
  BY <1>1
<1> HIDE DEF ks
<1> QED
  BY <1>1, <1>2, <1>3 DEF InOrder, Ordered, RefsResolve

LEMMA LoadedType ==
  ASSUME NEW c \in Configs, NEW f, IsFile(f)
  PROVE  /\ IsKeys(Loaded(c, f).keys) /\ IsTable(Loaded(c, f).table) /\ Ordered(Loaded(c, f).keys)
         /\ IsKeys(Normalize(c).keys) /\ IsTable(Normalize(c).table) /\ Ordered(Normalize(c).keys)
<1>1. IsKeys(c.keys) /\ IsTable(c.table)
  BY FilesAreTyped DEF IsTables
<1>2. IsKeys(Normalize(c).keys) /\ IsTable(Normalize(c).table) /\ Ordered(Normalize(c).keys)
  BY <1>1, NormalizeType
<1> DEFINE n == Normalize(c)
           d == [keys |-> f.keys,
                 table |-> IF n.table = Nothing THEN f.table ELSE n.table,
                 rules |-> IF n.rules = <<>> THEN f.rules ELSE n.rules]
<1>3. IsKeys(d.keys) /\ IsTable(d.table)
  BY <1>2 DEF IsFile
<1>4. Loaded(c, f) = Normalize(d)
  BY DEF Loaded
<1> HIDE DEF d
<1> QED
  BY <1>2, <1>3, <1>4, NormalizeType

LEMMA WithUsageType ==
  ASSUME NEW f, f = NoFile \/ IsFile(f)
  PROVE  IsFile(WithUsage(f))
<1>1. CASE f = NoFile
  BY <1>1, NothingType DEF WithUsage, IsFile
<1>2. CASE f # NoFile
  <2>1. IsFile(f)
    BY <1>2
  <2>2. WithUsage(f) = [keys |-> Stripped(f.keys), table |-> f.table, rules |-> f.rules]
    BY <1>2, <2>1 DEF WithUsage, IsFile
  <2>3. IsKeys(Stripped(f.keys))
    BY <2>1, StrippedType DEF IsFile
  <2> QED
    BY <2>1, <2>2, <2>3 DEF IsFile
<1> QED
  BY <1>1, <1>2

LEMMA InstallsKey ==
  ASSUME Inv, NEW id \in Ids, NEW k \in Keys, NEW grants, InstallKey(id, k, grants)
  PROVE  /\ InOrder'
         /\ DOMAIN (keys') = DOMAIN keys \cup {id}
         /\ \A other \in DOMAIN keys \ {id} : keys'[other] = keys[other]
         /\ \E models \in Seq(ModelRules) : table' = Promote(table, models)
         /\ Save(grants, {})
<1> DEFINE c == [keys |-> With(Nothing, id, k), table |-> table, rules |-> rules]
           n == Normalize(c)
<1>1. Valid(n) /\ keys' = With(keys, id, Resolved(n.keys[id], n.table)) /\ table' = n.table
      /\ Save(grants, {})
  BY DEF InstallKey, Checked
<1>2. IsKeys(keys) /\ IsTable(table) /\ Ordered(keys) /\ RefsResolve
  BY DEF Inv, Typed
<1>3. IsKeys(c.keys) /\ IsTable(c.table) /\ DOMAIN c.keys = {id}
  BY <1>2 DEF With, Nothing, IsKeys
<1>4. n.table = Promote(table, OldModels(c.keys)) /\ OldModels(c.keys) \in Seq(ModelRules)
  BY <1>3, OldModelsType, NormalizeIs
<1> HIDE DEF c
<1>5. /\ IsKeys(n.keys) /\ IsTable(n.table) /\ DOMAIN n.keys = {id}
      /\ Ordered(n.keys)
  BY <1>3, NormalizeType
<1>6. DOMAIN table \subseteq DOMAIN n.table
  <2>1. c.table = table
    BY DEF c
  <2> QED
    BY <1>3, <2>1, NormalizeType
<1> HIDE DEF n
<1>7. n.keys[id] \in Keys /\ n.keys[id].refs \in Distinct(Aliases)
      /\ AliasesOf(n.keys[id].refs) \subseteq DOMAIN n.table
  BY <1>1, <1>5 DEF IsKeys, Ordered, Valid
<1> DEFINE new == Resolved(n.keys[id], n.table)
<1>8. new \in Keys /\ new.refs = n.keys[id].refs
  BY <1>5, <1>7, ResolvedType
<1>9. keys' = With(keys, id, new)
  BY <1>1
<1> HIDE DEF new
<1>10. /\ DOMAIN (keys') = DOMAIN keys \cup {id}
       /\ keys'[id] = new
       /\ \A other \in DOMAIN keys \ {id} : keys'[other] = keys[other]
  BY <1>9 DEF With
<1>11. IsKeys(keys')
  <2>1. \A x \in DOMAIN keys \cup {id} : keys'[x] \in Keys
    BY <1>2, <1>8, <1>10 DEF IsKeys
  <2>2. keys' = [x \in DOMAIN (keys') |-> keys'[x]]
    BY <1>9 DEF With
  <2> QED
    BY <1>2, <1>10, <2>1, <2>2 DEF IsKeys
<1>12. Ordered(keys')
  BY <1>2, <1>7, <1>8, <1>10 DEF Ordered
<1>13. RefsResolve'
  BY <1>1, <1>2, <1>6, <1>7, <1>8, <1>10 DEF RefsResolve
<1>w. LeadSomewhere(table')
  BY <1>1 DEF Valid
<1>14. InOrder'
  BY <1>w, <1>1, <1>5, <1>11, <1>12, <1>13 DEF InOrder, Ordered, IsKeys, IsTable
<1> QED
  BY <1>1, <1>4, <1>10, <1>14

\* An edit that ends with a write keeps the invariant.
LEMMA EditKeepsInv ==
  ASSUME Inv, InOrder', NEW grants, NEW revokes, Save(grants, revokes),
         DOMAIN (patch') = Patchers,
         \A p \in Patchers : patch'[p] = NoPatch \/ (patch'[p].id \in Ids /\ patch'[p].key \in Keys)
  PROVE  Inv'
<1>1. (file = NoFile \/ IsFile(file))' /\ Mirrored'
  BY Saves DEF Inv
<1> QED
  BY <1>1 DEF Inv, Typed, InOrder

LEMMA UpsertAliasKeepsInv ==
  ASSUME Inv, NEW a \in Aliases, NEW targets \in AliasBodies, NEW price \in Prices,
         UpsertAlias(a, targets, price)
  PROVE  Inv'
<1>1. IsKeys(keys) /\ IsTable(table) /\ Ordered(keys) /\ RefsResolve /\ LeadSomewhere(table)
  BY DEF Inv, Typed
<1>2. table' = With(table, a, [targets |-> targets, price |-> price]) /\ keys' = ResolveAll(keys, table')
      /\ UNCHANGED patch /\ targets # <<>>
      /\ Save({a} \X ToSet(targets), Pairs(table) \ Pairs(table'))
  BY DEF UpsertAlias
<1>3. [targets |-> targets, price |-> price] \in Entries
  BY RequestsAreTyped DEF Entries
<1>4. IsTable(table') /\ DOMAIN table \subseteq DOMAIN (table')
  BY <1>1, <1>2, <1>3 DEF IsTable, With
<1>w. LeadSomewhere(table')
  BY <1>1, <1>2 DEF LeadSomewhere, With
<1> DEFINE tab == table'
<1>5. IsTable(tab) /\ keys' = ResolveAll(keys, tab)
      /\ \A id \in DOMAIN keys : AliasesOf(keys[id].refs) \subseteq DOMAIN tab
  BY <1>1, <1>2, <1>4 DEF RefsResolve
<1>6. IsKeys(keys') /\ DOMAIN (keys') = DOMAIN keys
      /\ \A id \in DOMAIN keys : keys'[id].refs = keys[id].refs
  <2> HIDE DEF tab
  <2> QED
    BY <1>1, <1>5, ResolveAllType
<1>7. InOrder'
  BY <1>1, <1>5, <1>6, <1>w DEF InOrder, Ordered, RefsResolve, IsKeys, IsTable
<1>8. DOMAIN (patch') = Patchers
      /\ \A p \in Patchers : patch'[p] = NoPatch \/ (patch'[p].id \in Ids /\ patch'[p].key \in Keys)
  BY <1>2 DEF Inv, Typed
<1> QED
  BY <1>2, <1>7, <1>8, EditKeepsInv

LEMMA DeleteAliasKeepsInv ==
  ASSUME Inv, NEW a \in Aliases, DeleteAlias(a)
  PROVE  Inv'
<1>1. IsKeys(keys) /\ IsTable(table) /\ Ordered(keys) /\ RefsResolve /\ LeadSomewhere(table)
  BY DEF Inv, Typed
<1>2. ~Referenced(a) /\ table' = Without(table, a) /\ UNCHANGED <<keys, patch>>
      /\ Save({}, Pairs(table) \ Pairs(table'))
  BY DEF DeleteAlias
<1>3. IsTable(table') /\ DOMAIN (table') = DOMAIN table \ {a}
  BY <1>1, <1>2 DEF IsTable, Without
<1>4. RefsResolve'
  BY <1>1, <1>2, <1>3 DEF RefsResolve, Referenced
<1>w. LeadSomewhere(table')
  BY <1>1, <1>2 DEF LeadSomewhere, Without
<1>5. InOrder'
  BY <1>1, <1>2, <1>3, <1>4, <1>w DEF InOrder, IsTable
<1>6. DOMAIN (patch') = Patchers
      /\ \A p \in Patchers : patch'[p] = NoPatch \/ (patch'[p].id \in Ids /\ patch'[p].key \in Keys)
  BY <1>2 DEF Inv, Typed
<1> QED
  BY <1>2, <1>5, <1>6, EditKeepsInv

LEMMA DeleteKeyKeepsInv ==
  ASSUME Inv, NEW id \in Ids, DeleteKey(id)
  PROVE  Inv'
<1>1. IsKeys(keys) /\ IsTable(table) /\ Ordered(keys) /\ RefsResolve /\ LeadSomewhere(table)
  BY DEF Inv, Typed
<1>2. keys' = Without(keys, id) /\ UNCHANGED <<table, patch>> /\ Save({}, {})
  BY DEF DeleteKey
<1>3. IsKeys(keys') /\ DOMAIN (keys') = DOMAIN keys \ {id}
      /\ \A x \in DOMAIN keys \ {id} : keys'[x] = keys[x]
  BY <1>1, <1>2 DEF IsKeys, Without
<1>4. InOrder'
  BY <1>1, <1>2, <1>3 DEF InOrder, Ordered, RefsResolve, IsKeys
<1>5. DOMAIN (patch') = Patchers
      /\ \A p \in Patchers : patch'[p] = NoPatch \/ (patch'[p].id \in Ids /\ patch'[p].key \in Keys)
  BY <1>2 DEF Inv, Typed
<1> QED
  BY <1>2, <1>4, <1>5, EditKeepsInv

LEMMA EditRulesKeepsInv ==
  ASSUME Inv, EditRules
  PROVE  Inv'
<1>1. UNCHANGED <<keys, table, patch>> /\ Save({}, {})
  BY DEF EditRules, UpsertClassifyRule, DeleteClassifyRule, ReorderClassifyRules
<1>2. InOrder'
  BY <1>1 DEF Inv, Typed, InOrder, Ordered, RefsResolve
<1>3. DOMAIN (patch') = Patchers
      /\ \A p \in Patchers : patch'[p] = NoPatch \/ (patch'[p].id \in Ids /\ patch'[p].key \in Keys)
  BY <1>1 DEF Inv, Typed
<1> QED
  BY <1>1, <1>2, <1>3, EditKeepsInv

LEMMA BodyType ==
  ASSUME NEW body \in KeyBodies
  PROVE  /\ body.refs = Absent \/ body.refs \in Seq(Refs)
         /\ body.models = Absent \/ body.models \in Seq(ModelRules)
BY RequestsAreTyped

LEMMA CreateKeyKeepsInv ==
  ASSUME Inv, NEW id \in Ids, NEW body \in KeyBodies, CreateKey(id, body)
  PROVE  Inv'
<1> DEFINE k == [refs |-> OrElse(body.refs, <<>>), models |-> OrElse(body.models, <<>>)]
<1>1. k \in Keys
  <2>1. <<>> \in Seq(Refs) /\ <<>> \in Seq(ModelRules)
    OBVIOUS
  <2>2. OrElse(body.refs, <<>>) \in Seq(Refs) /\ OrElse(body.models, <<>>) \in Seq(ModelRules)
    BY <2>1, BodyType DEF OrElse
  <2> QED
    BY <2>2 DEF Keys
<1>2. InstallKey(id, k, Granted(body)) /\ UNCHANGED patch
  BY DEF CreateKey
<1> HIDE DEF k
<1>3. InOrder' /\ Save(Granted(body), {})
  BY <1>1, <1>2, InstallsKey
<1>4. DOMAIN (patch') = Patchers
      /\ \A p \in Patchers : patch'[p] = NoPatch \/ (patch'[p].id \in Ids /\ patch'[p].key \in Keys)
  BY <1>2 DEF Inv, Typed
<1> QED
  BY <1>3, <1>4, EditKeepsInv

LEMMA PatchReadKeepsInv ==
  ASSUME Inv, NEW p \in Patchers, NEW id \in Ids, NEW body \in KeyBodies, PatchRead(p, id, body)
  PROVE  Inv'
<1> DEFINE k == [refs |-> OrElse(body.refs, keys[id].refs),
                 models |-> OrElse(body.models, keys[id].models)]
<1>1. patch' = [patch EXCEPT ![p] = [id |-> id, key |-> k]] /\ id \in DOMAIN keys
      /\ UNCHANGED <<memory, file, synced>>
  BY DEF PatchRead
<1>2. keys[id].refs \in Seq(Refs) /\ keys[id].models \in Seq(ModelRules)
  BY <1>1 DEF Inv, Typed, IsKeys, Keys
<1>3. k \in Keys
  <2>1. OrElse(body.refs, keys[id].refs) \in Seq(Refs)
        /\ OrElse(body.models, keys[id].models) \in Seq(ModelRules)
    BY <1>2, BodyType DEF OrElse
  <2> QED
    BY <2>1 DEF Keys
<1> HIDE DEF k
<1>4. DOMAIN (patch') = Patchers
      /\ \A q \in Patchers : patch'[q] = NoPatch \/ (patch'[q].id \in Ids /\ patch'[q].key \in Keys)
  BY <1>1, <1>3 DEF Inv, Typed
<1> QED
  BY <1>1, <1>4 DEF Inv, Typed, Ordered, RefsResolve, Mirrored, memory

LEMMA PatchWriteKeepsInv ==
  ASSUME Inv, NEW p \in Patchers, PatchWrite(p)
  PROVE  Inv'
<1>1. patch[p].id \in Ids /\ patch[p].key \in Keys
  BY DEF Inv, Typed, PatchWrite
<1>2. DOMAIN (patch') = Patchers
      /\ \A q \in Patchers : patch'[q] = NoPatch \/ (patch'[q].id \in Ids /\ patch'[q].key \in Keys)
  BY DEF Inv, Typed, PatchWrite
<1>3. CASE InstallKey(patch[p].id, patch[p].key, {})
  <2>1. InOrder' /\ Save({}, {})
    BY <1>1, <1>3, InstallsKey
  <2> QED
    BY <1>2, <2>1, EditKeepsInv
<1>4. CASE UNCHANGED <<memory, up, file, synced, removed, faults>>
  BY <1>2, <1>4 DEF Inv, Typed, Ordered, RefsResolve, Mirrored, memory
<1> QED
  BY <1>3, <1>4 DEF PatchWrite

LEMMA FlushUsageKeepsInv ==
  ASSUME Inv, FlushUsage
  PROVE  Inv'
<1>1. file' = WithUsage(file) /\ (synced' => synced /\ Normalize(file') = Normalize(file))
      /\ UNCHANGED <<keys, table, rules, patch>>
  BY DEF FlushUsage, SyncedWith, memory
<1>2. IsFile(file')
  BY <1>1, WithUsageType DEF Inv, Typed
<1>3. Mirrored'
  <2> SUFFICES ASSUME synced' PROVE Mirrored'
    BY DEF Mirrored
  <2>1. synced /\ Normalize(file') = Normalize(file)
    BY <1>1
  <2>2. file'.rules = file.rules /\ DOMAIN file'.keys = DOMAIN file.keys
    <3>1. /\ Normalize(file).rules = file.rules
          /\ DOMAIN Normalize(file).keys = DOMAIN file.keys
      BY NormalizeIs
    <3> DEFINE f == file'
    <3>2. Normalize(f).rules = f.rules /\ DOMAIN Normalize(f).keys = DOMAIN f.keys
      <4> HIDE DEF f
      <4> QED
        BY NormalizeIs
    <3> QED
      BY <2>1, <3>1, <3>2
  <2> QED
    BY <1>1, <1>2, <2>1, <2>2 DEF Inv, Mirrored
<1> QED
  BY <1>1, <1>2, <1>3 DEF Inv, Typed, Ordered, RefsResolve

LEMMA FoundType ==
  ASSUME Typed, NEW found \in Found, found # NoFile
  PROVE  IsFile(found)
BY WithUsageType DEF Found, Typed

LEMMA ReloadKeepsInv ==
  ASSUME Inv, NEW c \in Configs, NEW found \in Found, found # NoFile, Reload(c, found), UNCHANGED patch
  PROVE  Inv'
<1> DEFINE n == Loaded(c, found)
<1>1. Valid(n) /\ Install(n) /\ file' = found /\ (synced' => n = Normalize(found))
  BY DEF Reload
<1>2. IsFile(found)
  BY FoundType DEF Inv
<1>3. IsKeys(n.keys) /\ IsTable(n.table) /\ Ordered(n.keys)
  BY <1>2, LoadedType
<1> HIDE DEF n
<1>4. LeadSomewhere(n.table) /\ \A id \in DOMAIN n.keys : AliasesOf(n.keys[id].refs) \subseteq DOMAIN n.table
  BY <1>1 DEF Valid
<1>5. InOrder' /\ table' = n.table /\ rules' = n.rules /\ DOMAIN (keys') = DOMAIN n.keys
         /\ \A id \in DOMAIN n.keys : keys'[id].refs = n.keys[id].refs
  BY <1>1, <1>3, <1>4, Installs
<1>6. Mirrored'
  <2> SUFFICES ASSUME synced' PROVE Mirrored'
    BY DEF Mirrored
  <2>1. n = Normalize(found)
    BY <1>1
  <2>2. n.rules = found.rules /\ DOMAIN n.keys = DOMAIN found.keys
    BY <2>1, NormalizeIs
  <2> QED
    BY <1>1, <1>2, <1>5, <2>1, <2>2 DEF Mirrored
<1> QED
  BY <1>1, <1>2, <1>5, <1>6 DEF Inv, Typed, InOrder

LEMMA ConfigureKeepsInv ==
  ASSUME Inv, NEW c \in Configs, Configure(c)
  PROVE  Inv'
<1>1. UNCHANGED patch
  BY DEF Configure
<1>2. PICK found \in Found : \/ found = NoFile /\ FirstBoot(c)
                             \/ found # NoFile /\ Reload(c, found)
                             \/ found # NoFile /\ ReloadRefused(c, found)
  BY DEF Configure
<1>3. CASE FirstBoot(c)
  <2> DEFINE n == Normalize(c)
  <2>1. IsKeys(c.keys) /\ IsTable(c.table)
    BY FilesAreTyped DEF IsTables
  <2>2. IsKeys(n.keys) /\ IsTable(n.table) /\ Ordered(n.keys)
    BY <2>1, NormalizeType
  <2>3. Valid(n) /\ Install(n) /\ Save(Pairs(table'), {})
    BY <1>3, ConfigsAreValid DEF FirstBoot
  <2> HIDE DEF n
  <2>4. InOrder'
    BY <2>2, <2>3, Installs DEF Valid
  <2>5. DOMAIN (patch') = Patchers
        /\ \A p \in Patchers : patch'[p] = NoPatch \/ (patch'[p].id \in Ids /\ patch'[p].key \in Keys)
    BY <1>1 DEF Inv, Typed
  <2> QED
    BY <2>3, <2>4, <2>5, EditKeepsInv
<1>4. CASE found # NoFile /\ Reload(c, found)
  BY <1>1, <1>4, ReloadKeepsInv
<1>5. CASE found # NoFile /\ ReloadRefused(c, found)
  <2>1. file' = found /\ (synced' => synced /\ Normalize(found) = Normalize(file))
        /\ UNCHANGED <<keys, table, rules, patch>>
    BY <1>1, <1>5 DEF ReloadRefused, SyncedWith, memory
  <2>2. IsFile(found)
    BY <1>5, FoundType DEF Inv
  <2>3. Mirrored'
    <3> SUFFICES ASSUME synced' PROVE Mirrored'
      BY DEF Mirrored
    <3>1. synced /\ Normalize(found) = Normalize(file)
      BY <2>1
    <3>2. found.rules = file.rules /\ DOMAIN found.keys = DOMAIN file.keys
      <4>1. Normalize(file).rules = file.rules /\ DOMAIN Normalize(file).keys = DOMAIN file.keys
        BY NormalizeIs
      <4>2. Normalize(found).rules = found.rules /\ DOMAIN Normalize(found).keys = DOMAIN found.keys
        BY NormalizeIs
      <4> QED
        BY <3>1, <4>1, <4>2
    <3> QED
      BY <2>1, <2>2, <3>1, <3>2 DEF Inv, Mirrored
  <2> QED
    BY <2>1, <2>2, <2>3 DEF Inv, Typed, Ordered, RefsResolve
<1> QED
  BY <1>2, <1>3, <1>4, <1>5

LEMMA CrashKeepsInv ==
  ASSUME Inv, Crash
  PROVE  Inv'
<1>1. keys' = Nothing /\ table' = Nothing /\ synced' = FALSE /\ patch' = [p \in Patchers |-> NoPatch]
      /\ file' = file
  BY DEF Crash
<1>2. IsKeys(keys') /\ IsTable(table') /\ DOMAIN (keys') = {}
  BY <1>1, NothingType
<1> QED
  BY <1>1, <1>2, NothingType DEF Inv, Typed, Ordered, RefsResolve, Mirrored, LeadSomewhere

LEMMA InitInv == Init => Inv
<1> SUFFICES ASSUME Init PROVE Inv
  OBVIOUS
<1>1. keys = Nothing /\ table = Nothing /\ synced = FALSE /\ patch = [p \in Patchers |-> NoPatch]
  BY DEF Init
<1>2. IsKeys(keys) /\ IsTable(table) /\ DOMAIN keys = {}
  BY <1>1, NothingType
<1>3. file = NoFile \/ IsFile(file)
  BY FilesAreTyped DEF Init, IsFile, IsTables
<1> QED
  BY <1>1, <1>2, <1>3, NothingType DEF Inv, Typed, Ordered, RefsResolve, Mirrored, LeadSomewhere

LEMMA NextInv == Inv /\ [Next]_vars => Inv'
<1> SUFFICES ASSUME Inv, [Next]_vars PROVE Inv'
  OBVIOUS
<1>1. CASE EditTables
  BY <1>1, UpsertAliasKeepsInv, DeleteAliasKeepsInv DEF EditTables
<1>2. CASE EditRules
  BY <1>2, EditRulesKeepsInv
<1>3. CASE EditKeys
  <2>1. PICK id \in Ids : \/ KeyWrite(id) \/ DeleteKey(id)
                          \/ \E p \in Patchers, body \in KeyBodies : PatchRead(p, id, body)
    BY <1>3 DEF EditKeys
  <2>2. CASE KeyWrite(id)
    BY <2>2, CreateKeyKeepsInv, PatchWriteKeepsInv DEF KeyWrite
  <2>3. CASE DeleteKey(id)
    BY <2>3, DeleteKeyKeepsInv
  <2>4. CASE \E p \in Patchers, body \in KeyBodies : PatchRead(p, id, body)
    BY <2>4, PatchReadKeepsInv
  <2> QED
    BY <2>1, <2>2, <2>3, <2>4
<1>4. CASE FlushUsage
  BY <1>4, FlushUsageKeepsInv
<1>5. CASE Crash
  BY <1>5, CrashKeepsInv
<1>6. CASE \E c \in Configs : Configure(c)
  BY <1>6, ConfigureKeepsInv
<1>7. CASE UNCHANGED vars
  BY <1>7 DEF vars, memory, Inv, Typed, Ordered, RefsResolve, Mirrored
<1> QED
  BY <1>1, <1>2, <1>3, <1>4, <1>5, <1>6, <1>7 DEF Next

THEOREM InvHolds == Spec => []Inv
BY InitInv, NextInv, PTL DEF Spec
----------------------------------------------------------------------------
(***************************************************************************)
(* The theorems.                                                           *)
(***************************************************************************)
\* A reference leads somewhere: DeleteAlias takes no entry that a key in memory
\* refers to, and no other edit, load or crash leaves a key with a reference to
\* an alias that the table does not have.
THEOREM ReferencesResolve == Spec => []RefsResolve
<1>1. Inv => RefsResolve
  BY DEF Inv
<1> QED
  BY <1>1, InvHolds, PTL

LEMMA RestartFindsIt == Inv => RestartChangesNothing
<1> SUFFICES ASSUME Inv, synced
             PROVE  LET n == Loaded([keys |-> Nothing, table |-> Nothing, rules |-> <<>>], file)
                    IN  /\ Valid(n) <=> NoRepeats(rules)
                        /\ n.table = table /\ n.rules = rules
                        /\ DOMAIN n.keys = DOMAIN keys
                        /\ \A id \in DOMAIN keys : n.keys[id].refs = keys[id].refs
  BY DEF RestartChangesNothing
<1> DEFINE silent == [keys |-> Nothing, table |-> Nothing, rules |-> <<>>]
           n == Loaded(silent, file)
<1>1. Normalize(silent).table = Nothing /\ Normalize(silent).rules = <<>>
  <2>1. IsKeys(silent.keys) /\ IsTable(silent.table) /\ DOMAIN silent.keys = {}
    BY NothingType
  <2>2. silent.table = Nothing /\ silent.rules = <<>>
    OBVIOUS
  <2> HIDE DEF silent
  <2>3. Ordered(silent.keys) /\ \A id \in DOMAIN silent.keys : silent.keys[id].models = <<>>
    BY <2>1 DEF Ordered
  <2>4. Normalize(silent).table = silent.table
    BY <2>1, <2>3, NormalizeStripped
  <2> QED
    BY <2>2, <2>4, NormalizeIs
<1>2. IsFile(file) /\ Normalize(file).table = table /\ file.rules = rules /\ DOMAIN file.keys = DOMAIN keys
      /\ \A id \in DOMAIN keys : Normalize(file).keys[id].refs = keys[id].refs
  BY DEF Inv, Mirrored
<1>3. n = Normalize([keys |-> file.keys, table |-> file.table, rules |-> file.rules])
  <2> HIDE DEF silent
  <2> QED
    BY <1>1 DEF Loaded
<1>4. n = Normalize(file)
  BY <1>2, <1>3 DEF IsFile
<1> HIDE DEF n
<1>5. n.rules = rules /\ n.table = table /\ DOMAIN n.keys = DOMAIN keys
  BY <1>2, <1>4, NormalizeIs
<1>6. \A id \in DOMAIN keys : n.keys[id].refs = keys[id].refs
  BY <1>2, <1>4
<1>7. Valid(n) <=> NoRepeats(rules)
  BY <1>5, <1>6 DEF Valid, Inv, RefsResolve
<1> QED
  BY <1>5, <1>6, <1>7 DEF n

\* Once an edit has answered 200, a restart with a config.yaml that only names
\* the state file finds the keys, their references, the table and the rules that
\* memory held, and can load them unless a reorder request listed a rule twice.
THEOREM RestartIsExact == Spec => []RestartChangesNothing
BY RestartFindsIt, InvHolds, PTL

LEMMA KeyWriteInstalls ==
  ASSUME Inv, NEW id \in Ids, KeyWrite(id)
  PROVE  (\E k \in Keys : \E grants : InstallKey(id, k, grants)) \/ UNCHANGED memory
<1>1. ASSUME NEW body \in KeyBodies, CreateKey(id, body)
      PROVE  \E k \in Keys : \E grants : InstallKey(id, k, grants)
  <2> DEFINE k == [refs |-> OrElse(body.refs, <<>>), models |-> OrElse(body.models, <<>>)]
  <2>1. <<>> \in Seq(Refs) /\ <<>> \in Seq(ModelRules)
    OBVIOUS
  <2>2. OrElse(body.refs, <<>>) \in Seq(Refs) /\ OrElse(body.models, <<>>) \in Seq(ModelRules)
    BY <2>1, BodyType DEF OrElse
  <2>3. k \in Keys
    BY <2>2 DEF Keys
  <2>4. InstallKey(id, k, Granted(body))
    BY <1>1 DEF CreateKey
  <2> HIDE DEF k
  <2> QED
    BY <2>3, <2>4
<1>2. ASSUME NEW p \in Patchers, patch[p] # NoPatch, patch[p].id = id, PatchWrite(p)
      PROVE  (\E k \in Keys : \E grants : InstallKey(id, k, grants)) \/ UNCHANGED memory
  <2>1. patch[p].key \in Keys
    BY <1>2 DEF Inv, Typed
  <2> QED
    BY <1>2, <2>1 DEF PatchWrite
<1> QED
  BY <1>1, <1>2 DEF KeyWrite

LEMMA KeyWriteIsPrivate ==
  ASSUME Inv, NEW id \in Ids, KeyWrite(id)
  PROVE  /\ (DOMAIN keys') \ {id} = (DOMAIN keys) \ {id}
         /\ \A other \in DOMAIN keys \ {id} : keys'[other] = keys[other]
         /\ \A a \in DOMAIN table :
              /\ a \in DOMAIN table'
              /\ table'[a].price = table[a].price
              /\ IsPrefix(table[a].targets, table'[a].targets)
<1>0. IsTable(table)
  BY DEF Inv, Typed
<1>1. CASE \E k \in Keys : \E grants : InstallKey(id, k, grants)
  <2>1. /\ DOMAIN (keys') = DOMAIN keys \cup {id}
        /\ \A other \in DOMAIN keys \ {id} : keys'[other] = keys[other]
    BY <1>1, InstallsKey
  <2>2. PICK models \in Seq(ModelRules) : table' = Promote(table, models)
    BY <1>1, InstallsKey
  <2>3. ASSUME NEW a \in DOMAIN table
        PROVE  /\ a \in DOMAIN table'
               /\ table'[a].price = table[a].price
               /\ IsPrefix(table[a].targets, table'[a].targets)
    <3> DEFINE more == Missing(a, table[a].targets, models)
               old == table[a].targets
    <3>1. a \in DOMAIN table' /\ table'[a] = [targets |-> old \o more, price |-> table[a].price]
      BY <1>0, <2>2, PromoteType
    <3>2. old \in Seq(Targets) /\ more \in Seq(Targets)
      BY <1>0, MissingType DEF IsTable, Entries
    <3> HIDE DEF more, old
    <3>3. IsPrefix(old, old \o more)
      BY <3>2 DEF IsPrefix
    <3> QED
      BY <3>1, <3>3 DEF old
  <2> QED
    BY <2>1, <2>3
<1>2. CASE UNCHANGED memory
  <2>1. \A a \in DOMAIN table : table[a].targets \in Seq(Targets)
    BY <1>0 DEF IsTable, Entries
  <2>2. \A s \in Seq(Targets) : IsPrefix(s, s)
    BY DEF IsPrefix
  <2> QED
    BY <1>2, <2>1, <2>2 DEF memory
<1> QED
  BY <1>1, <1>2, KeyWriteInstalls

\* A request about one key leaves the other keys alone, and an alias that exists
\* keeps its price and its targets in their order, whatever models the key brings.
THEOREM KeyWritesStayPrivate == Spec => KeyWritesArePrivate
<1>1. Inv /\ [Next]_vars =>
        [\A id \in Ids : KeyWrite(id) =>
           /\ (DOMAIN keys') \ {id} = (DOMAIN keys) \ {id}
           /\ \A other \in DOMAIN keys \ {id} : keys'[other] = keys[other]
           /\ \A a \in DOMAIN table :
                /\ a \in DOMAIN table'
                /\ table'[a].price = table[a].price
                /\ IsPrefix(table[a].targets, table'[a].targets)]_vars
  BY KeyWriteIsPrivate
<1> QED
  BY <1>1, InvHolds, PTL DEF Spec, KeyWritesArePrivate
----------------------------------------------------------------------------
(***************************************************************************)
(* Targets that are gone.  Nothing that memory, the file or a key without  *)
(* a request in progress could bring back is in removed.                   *)
(***************************************************************************)
\* The models of a key lead where the table and its references say.
Derived(ks, tab) ==
    \A id \in DOMAIN ks :
      PairsOf(ks[id].models) \subseteq {p \in Pairs(tab) : p[1] \in AliasesOf(ks[id].refs)}

Gone ==
    /\ removed \cap Pairs(table) = {}
    /\ Derived(keys, table)
    /\ \A p \in Patchers : patch[p] # NoPatch => PairsOf(patch[p].key.models) \cap removed = {}
    /\ file # NoFile => removed \cap Pairs(Normalize(file).table) = {}

LEMMA NoPairs == PairsOf(<<>>) = {} /\ AliasesOf(<<>>) = {}
BY DEF PairsOf, AliasesOf

LEMMA ResolvedPairs ==
  ASSUME NEW tab, IsTable(tab), NEW k \in Keys, AliasesOf(k.refs) \subseteq DOMAIN tab,
         k.refs = <<>> => PairsOf(k.models) = {}
  PROVE  PairsOf(Resolved(k, tab).models) \subseteq {p \in Pairs(tab) : p[1] \in AliasesOf(k.refs)}
<1>1. CASE k.refs = <<>>
  BY <1>1 DEF Resolved
<1>2. CASE k.refs # <<>>
  <2>1. k.refs \in Seq(Refs)
    BY DEF Keys
  <2>2. Resolved(k, tab) = [k EXCEPT !.models = Resolve(k.refs, tab)]
    BY <1>2 DEF Resolved
  <2>3. Resolved(k, tab).models = Resolve(k.refs, tab)
    BY <2>2 DEF Keys
  <2> DEFINE refs == k.refs
  <2> HIDE DEF refs
  <2>4. PairsOf(Resolve(refs, tab)) = {p \in Pairs(tab) : p[1] \in AliasesOf(refs)}
    BY <2>1, ResolvePairs DEF refs
  <2> QED
    BY <2>3, <2>4 DEF refs
<1> QED
  BY <1>1, <1>2

LEMMA ResolveAllDerived ==
  ASSUME NEW ks, IsKeys(ks), NEW tab, IsTable(tab),
         \A id \in DOMAIN ks : AliasesOf(ks[id].refs) \subseteq DOMAIN tab,
         \A id \in DOMAIN ks : ks[id].refs = <<>> => PairsOf(ks[id].models) = {}
  PROVE  Derived(ResolveAll(ks, tab), tab)
<1>1. DOMAIN ResolveAll(ks, tab) = DOMAIN ks
      /\ \A id \in DOMAIN ks : ResolveAll(ks, tab)[id].refs = ks[id].refs
  BY ResolveAllType
<1>2. ASSUME NEW id \in DOMAIN ks
      PROVE  PairsOf(ResolveAll(ks, tab)[id].models)
               \subseteq {p \in Pairs(tab) : p[1] \in AliasesOf(ks[id].refs)}
  <2> DEFINE k == ks[id]
  <2>1. k \in Keys /\ AliasesOf(k.refs) \subseteq DOMAIN tab /\ (k.refs = <<>> => PairsOf(k.models) = {})
    BY DEF IsKeys
  <2>2. ResolveAll(ks, tab)[id] = Resolved(k, tab)
    BY DEF ResolveAll
  <2> HIDE DEF k
  <2>3. PairsOf(Resolved(k, tab).models) \subseteq {p \in Pairs(tab) : p[1] \in AliasesOf(k.refs)}
    BY <2>1, ResolvedPairs
  <2> QED
    BY <2>2, <2>3 DEF k
<1> QED
  BY <1>1, <1>2 DEF Derived

\* A write that succeeds leaves a file that leads where the table does.
LEMMA SavedPairs ==
  ASSUME Inv, InOrder', NEW grants, NEW revokes, Save(grants, revokes)
  PROVE  \/ file' = file /\ removed' = removed \ grants
         \/ /\ Pairs(Normalize(file').table) = Pairs(table')
            /\ removed' = (removed \ grants) \cup (revokes \ Held)
<1>1. Mirrored'
  BY Saves DEF Inv
<1>2. CASE synced' = TRUE /\ removed' = (removed \ grants) \cup (revokes \ Held)
  <2>1. (Normalize(file).table = table)'
    BY <1>1, <1>2 DEF Mirrored
  <2> QED
    BY <1>2, <2>1
<1>3. CASE removed' = removed \ grants /\ UNCHANGED file
  BY <1>3
<1> QED
  BY <1>2, <1>3 DEF Save

LEMMA EditKeepsGone ==
  ASSUME Inv, Gone, InOrder', NEW grants, NEW revokes, Save(grants, revokes), NEW added,
         Pairs(table') \subseteq Pairs(table) \cup added, added \cap removed \subseteq grants,
         revokes \cap Pairs(table') = {}, Derived(keys', table'),
         \A p \in Patchers : patch'[p] # NoPatch => patch'[p] = patch[p]
  PROVE  Gone'
<1>1. removed' \subseteq (removed \ grants) \cup (revokes \ Held)
  BY SavedPairs
<1>2. removed' \cap Pairs(table') = {}
  BY <1>1 DEF Gone
<1>3. ASSUME NEW p \in Patchers, patch'[p] # NoPatch
      PROVE  PairsOf(patch'[p].key.models) \cap removed' = {}
  <2>1. patch'[p] = patch[p] /\ patch[p] # NoPatch
    BY <1>3
  <2>2. PairsOf(patch[p].key.models) \cap removed = {}
    BY <2>1 DEF Gone
  <2>3. PairsOf(patch[p].key.models) \subseteq Held
    BY <2>1 DEF Held
  <2> QED
    BY <1>1, <2>1, <2>2, <2>3
<1>4. file' # NoFile => removed' \cap Pairs(Normalize(file').table) = {}
  <2>1. CASE file' = file /\ removed' = removed \ grants
    BY <2>1 DEF Gone
  <2>2. CASE Pairs(Normalize(file').table) = Pairs(table')
    BY <1>2, <2>2
  <2> QED
    BY <2>1, <2>2, SavedPairs
<1> QED
  BY <1>2, <1>3, <1>4 DEF Gone

LEMMA UpsertAliasKeepsGone ==
  ASSUME Inv, Gone, NEW a \in Aliases, NEW targets \in AliasBodies, NEW price \in Prices,
         UpsertAlias(a, targets, price)
  PROVE  Gone'
<1>1. IsKeys(keys) /\ IsTable(table) /\ Ordered(keys) /\ RefsResolve /\ LeadSomewhere(table)
  BY DEF Inv, Typed
<1>2. table' = With(table, a, [targets |-> targets, price |-> price]) /\ keys' = ResolveAll(keys, table')
      /\ UNCHANGED patch
      /\ Save({a} \X ToSet(targets), Pairs(table) \ Pairs(table'))
  BY DEF UpsertAlias
<1>3. InOrder'
  BY UpsertAliasKeepsInv DEF Inv, Typed, InOrder
<1>4. targets \in Seq(Targets) /\ IsTable(table')
  BY <1>3, RequestsAreTyped DEF InOrder
<1>5. Pairs(table') \subseteq Pairs(table) \cup ({a} \X ToSet(targets))
  <2>1. DOMAIN (table') = DOMAIN table \cup {a} /\ table'[a].targets = targets
        /\ \A b \in DOMAIN table : b # a => table'[b] = table[b]
    BY <1>2 DEF With
  <2> DEFINE tab == table'
  <2>2. IsTable(tab) /\ DOMAIN tab = DOMAIN table \cup {a} /\ tab[a].targets = targets
        /\ \A b \in DOMAIN table : b # a => tab[b] = table[b]
    BY <1>4, <2>1
  <2> HIDE DEF tab
  <2>3. ASSUME NEW b, NEW t, <<b, t>> \in Pairs(tab)
        PROVE  <<b, t>> \in Pairs(table) \cup ({a} \X ToSet(targets))
    <3>1. b \in DOMAIN tab /\ t \in ToSet(tab[b].targets)
      BY <2>2, <2>3, PairsAre
    <3>2. CASE b = a
      BY <2>2, <3>1, <3>2
    <3>3. CASE b # a
      <4>1. b \in DOMAIN table /\ t \in ToSet(table[b].targets)
        BY <2>2, <3>1, <3>3
      <4> QED
        BY <1>1, <4>1, PairsAre
    <3> QED
      BY <3>2, <3>3
  <2>4. \A p \in Pairs(tab) : p = <<p[1], p[2]>>
    BY PairsArePairs
  <2>5. Pairs(tab) \subseteq Pairs(table) \cup ({a} \X ToSet(targets))
    BY <2>3, <2>4
  <2> QED
    BY <2>5 DEF tab
<1>6. Derived(keys', table')
  <2> DEFINE tab == table'
  <2>1. keys' = ResolveAll(keys, tab) /\ IsTable(tab)
    BY <1>2, <1>4
  <2>2. \A id \in DOMAIN keys : AliasesOf(keys[id].refs) \subseteq DOMAIN tab
    BY <1>1, <1>2 DEF RefsResolve, With
  <2>3. \A id \in DOMAIN keys : keys[id].refs = <<>> => PairsOf(keys[id].models) = {}
    BY NoPairs DEF Gone, Derived
  <2> HIDE DEF tab
  <2>4. Derived(ResolveAll(keys, tab), tab)
    BY <1>1, <2>1, <2>2, <2>3, ResolveAllDerived
  <2> QED
    BY <2>1, <2>4 DEF tab
<1>7. \A p \in Patchers : patch'[p] # NoPatch => patch'[p] = patch[p]
  BY <1>2
<1>8. (Pairs(table) \ Pairs(table')) \cap Pairs(table') = {}
  OBVIOUS
<1> DEFINE added == {a} \X ToSet(targets)
           revokes == Pairs(table) \ Pairs(table')
<1>9. Pairs(table') \subseteq Pairs(table) \cup added /\ added \cap removed \subseteq added
      /\ revokes \cap Pairs(table') = {} /\ Save(added, revokes)
  BY <1>2, <1>5, <1>8
<1> HIDE DEF added, revokes
<1> QED
  BY <1>3, <1>6, <1>7, <1>9, EditKeepsGone

LEMMA DeleteAliasKeepsGone ==
  ASSUME Inv, Gone, NEW a \in Aliases, DeleteAlias(a)
  PROVE  Gone'
<1>1. IsTable(table)
  BY DEF Inv, Typed
<1>2. ~Referenced(a) /\ table' = Without(table, a) /\ UNCHANGED <<keys, patch>>
      /\ Save({}, Pairs(table) \ Pairs(table'))
  BY DEF DeleteAlias
<1>3. InOrder'
  BY DeleteAliasKeepsInv DEF Inv, Typed, InOrder
<1>4. DOMAIN (table') = DOMAIN table \ {a} /\ \A b \in DOMAIN table \ {a} : table'[b] = table[b]
  BY <1>2 DEF Without
<1>5. \A p \in Pairs(table) : p[1] # a => p \in Pairs(table')
  BY <1>4 DEF Pairs
<1>6. Pairs(table') \subseteq Pairs(table)
  BY <1>4 DEF Pairs
<1>7. Derived(keys', table')
  <2>1. ASSUME NEW id \in DOMAIN keys
        PROVE  PairsOf(keys[id].models) \subseteq {p \in Pairs(table') : p[1] \in AliasesOf(keys[id].refs)}
    <3>1. a \notin AliasesOf(keys[id].refs)
      BY <1>2 DEF Referenced
    <3>2. PairsOf(keys[id].models) \subseteq {p \in Pairs(table) : p[1] \in AliasesOf(keys[id].refs)}
      BY DEF Gone, Derived
    <3> QED
      BY <1>5, <3>1, <3>2
  <2> QED
    BY <1>2, <2>1 DEF Derived
<1>8. \A p \in Patchers : patch'[p] # NoPatch => patch'[p] = patch[p]
  BY <1>2
<1> DEFINE revokes == Pairs(table) \ Pairs(table')
           none == {}
<1>9. Pairs(table') \subseteq Pairs(table) \cup none /\ none \cap removed \subseteq none
      /\ revokes \cap Pairs(table') = {} /\ Save(none, revokes)
  BY <1>2, <1>6
<1> HIDE DEF revokes, none
<1> QED
  BY <1>3, <1>7, <1>8, <1>9, EditKeepsGone

\* An edit that takes no target and adds none.
LEMMA QuietEditKeepsGone ==
  ASSUME Inv, Gone, InOrder', Save({}, {}), UNCHANGED <<table, patch>>,
         DOMAIN (keys') \subseteq DOMAIN keys, \A id \in DOMAIN (keys') : keys'[id] = keys[id]
  PROVE  Gone'
<1> DEFINE none == {}
<1>1. Derived(keys', table')
  BY DEF Gone, Derived
<1>2. Pairs(table') \subseteq Pairs(table) \cup none /\ none \cap removed \subseteq none
      /\ none \cap Pairs(table') = {} /\ Save(none, none)
  OBVIOUS
<1> HIDE DEF none
<1> QED
  BY <1>1, <1>2, EditKeepsGone

LEMMA DeleteKeyKeepsGone ==
  ASSUME Inv, Gone, NEW id \in Ids, DeleteKey(id)
  PROVE  Gone'
<1>1. keys' = Without(keys, id) /\ UNCHANGED <<table, patch>> /\ Save({}, {})
  BY DEF DeleteKey
<1>2. InOrder'
  BY DeleteKeyKeepsInv DEF Inv, Typed, InOrder
<1>3. DOMAIN (keys') \subseteq DOMAIN keys /\ \A x \in DOMAIN (keys') : keys'[x] = keys[x]
  BY <1>1 DEF Without
<1> QED
  BY <1>1, <1>2, <1>3, QuietEditKeepsGone

LEMMA EditRulesKeepsGone ==
  ASSUME Inv, Gone, EditRules
  PROVE  Gone'
<1>1. UNCHANGED <<keys, table, patch>> /\ Save({}, {})
  BY DEF EditRules, UpsertClassifyRule, DeleteClassifyRule, ReorderClassifyRules
<1>2. InOrder'
  BY EditRulesKeepsInv DEF Inv, Typed, InOrder
<1> QED
  BY <1>1, <1>2, QuietEditKeepsGone

LEMMA InstallsPairs ==
  ASSUME Inv, Gone, NEW id \in Ids, NEW k \in Keys, NEW grants, InstallKey(id, k, grants)
  PROVE  Pairs(table') = Pairs(table) \cup PairsOf(k.models) /\ Derived(keys', table')
<1> DEFINE c == [keys |-> With(Nothing, id, k), table |-> table, rules |-> rules]
           n == Normalize(c)
<1>1. Valid(n) /\ keys' = With(keys, id, Resolved(n.keys[id], n.table)) /\ table' = n.table
  BY DEF InstallKey, Checked
<1>2. IsKeys(keys) /\ IsTable(table)
  BY DEF Inv, Typed
<1>3. IsKeys(c.keys) /\ IsTable(c.table) /\ DOMAIN c.keys = {id} /\ c.keys[id] = k /\ c.table = table
  BY <1>2 DEF With, Nothing, IsKeys
<1> HIDE DEF c
<1>4. Pairs(n.table) = Pairs(table) \cup PairsOf(k.models)
  <2>1. Pairs(n.table) = Pairs(c.table) \cup UNION {PairsOf(c.keys[x].models) : x \in DOMAIN c.keys}
    BY <1>3, NormalizePairs
  <2>2. UNION {PairsOf(c.keys[x].models) : x \in DOMAIN c.keys} = PairsOf(k.models)
    BY <1>3
  <2> QED
    BY <1>3, <2>1, <2>2
<1>5. IsKeys(n.keys) /\ IsTable(n.table) /\ DOMAIN n.keys = {id}
  BY <1>3, NormalizeType
<1>6. n.keys[id] \in Keys /\ n.keys[id].models = <<>>
  <2>1. n.keys[id] = Migrate(k)
    BY <1>3, NormalizeIs
  <2> QED
    BY <2>1, MigrateType
<1> HIDE DEF n
<1>7. AliasesOf(n.keys[id].refs) \subseteq DOMAIN n.table
  BY <1>1, <1>5 DEF Valid
<1> DEFINE m == n.keys[id]
           new == Resolved(m, n.table)
           tab == n.table
<1>8. PairsOf(new.models) \subseteq {p \in Pairs(tab) : p[1] \in AliasesOf(new.refs)}
  <2>1. m \in Keys /\ IsTable(tab) /\ AliasesOf(m.refs) \subseteq DOMAIN tab /\ PairsOf(m.models) = {}
    BY <1>5, <1>6, <1>7, NoPairs
  <2>2. new = Resolved(m, tab)
    OBVIOUS
  <2> HIDE DEF m, tab, new
  <2>3. new.refs = m.refs
    BY <2>1, <2>2, ResolvedType
  <2>4. PairsOf(new.models) \subseteq {p \in Pairs(tab) : p[1] \in AliasesOf(m.refs)}
    BY <2>1, <2>2, ResolvedPairs
  <2> QED
    BY <2>3, <2>4
<1>9. keys' = With(keys, id, new) /\ table' = tab
  BY <1>1
<1>10. Pairs(tab) = Pairs(table) \cup PairsOf(k.models)
  BY <1>4
<1> HIDE DEF new, tab, m
<1>11. Derived(With(keys, id, new), tab)
  <2>1. ASSUME NEW x \in DOMAIN With(keys, id, new)
        PROVE  PairsOf(With(keys, id, new)[x].models)
                 \subseteq {p \in Pairs(tab) : p[1] \in AliasesOf(With(keys, id, new)[x].refs)}
    <3>1. CASE x = id
      <4>1. With(keys, id, new)[x] = new
        BY <3>1 DEF With
      <4> QED
        BY <1>8, <4>1
    <3>2. CASE x # id
      <4>1. x \in DOMAIN keys /\ With(keys, id, new)[x] = keys[x]
        BY <3>2 DEF With
      <4>2. PairsOf(keys[x].models) \subseteq {p \in Pairs(table) : p[1] \in AliasesOf(keys[x].refs)}
        BY <4>1 DEF Gone, Derived
      <4> QED
        BY <1>10, <4>1, <4>2
    <3> QED
      BY <3>1, <3>2
  <2> QED
    BY <2>1 DEF Derived
<1> QED
  BY <1>9, <1>10, <1>11

LEMMA CreateKeyKeepsGone ==
  ASSUME Inv, Gone, NEW id \in Ids, NEW body \in KeyBodies, CreateKey(id, body)
  PROVE  Gone'
<1> DEFINE k == [refs |-> OrElse(body.refs, <<>>), models |-> OrElse(body.models, <<>>)]
           added == PairsOf(k.models)
           none == {}
<1>1. k \in Keys
  <2>1. <<>> \in Seq(Refs) /\ <<>> \in Seq(ModelRules)
    OBVIOUS
  <2>2. OrElse(body.refs, <<>>) \in Seq(Refs) /\ OrElse(body.models, <<>>) \in Seq(ModelRules)
    BY <2>1, BodyType DEF OrElse
  <2> QED
    BY <2>2 DEF Keys
<1>2. InstallKey(id, k, Granted(body)) /\ UNCHANGED patch
  BY DEF CreateKey
<1>3. added \subseteq Granted(body)
  BY NoPairs DEF OrElse, Granted
<1>4. none \cap Pairs(table') = {}
  OBVIOUS
<1> HIDE DEF k
<1>5. InOrder' /\ Save(Granted(body), none)
  BY <1>1, <1>2, InstallsKey
<1>6. Pairs(table') = Pairs(table) \cup added /\ Derived(keys', table')
  BY <1>1, <1>2, InstallsPairs
<1>7. \A p \in Patchers : patch'[p] # NoPatch => patch'[p] = patch[p]
  BY <1>2
<1>8. Pairs(table') \subseteq Pairs(table) \cup added /\ added \cap removed \subseteq Granted(body)
  BY <1>3, <1>6
<1> HIDE DEF added, none
<1> QED
  BY <1>4, <1>5, <1>6, <1>7, <1>8, EditKeepsGone

LEMMA PatchReadKeepsGone ==
  ASSUME Inv, Gone, NEW p \in Patchers, NEW id \in Ids, NEW body \in KeyBodies, PatchRead(p, id, body)
  PROVE  Gone'
<1> DEFINE models == OrElse(body.models, keys[id].models)
           r == [id |-> id, key |-> [refs |-> OrElse(body.refs, keys[id].refs), models |-> models]]
<1>1. patch' = [patch EXCEPT ![p] = r] /\ id \in DOMAIN keys
      /\ UNCHANGED <<keys, table, file>> /\ removed' = removed \ Granted(body)
  BY DEF PatchRead, memory
<1>2. r.key.models = models
  OBVIOUS
<1>3. PairsOf(models) \cap removed' = {}
  <2>1. CASE body.models = Absent
    <3>1. PairsOf(keys[id].models) \subseteq Pairs(table)
      BY <1>1 DEF Gone, Derived
    <3>2. models = keys[id].models
      BY <2>1 DEF OrElse
    <3> QED
      BY <1>1, <3>1, <3>2 DEF Gone
  <2>2. CASE body.models # Absent
    <3>1. Granted(body) = PairsOf(models)
      BY <2>2 DEF OrElse, Granted
    <3> HIDE DEF models
    <3> QED
      BY <1>1, <3>1
  <2> QED
    BY <2>1, <2>2
<1> HIDE DEF r, models
<1>4. ASSUME NEW q \in Patchers, patch'[q] # NoPatch
      PROVE  PairsOf(patch'[q].key.models) \cap removed' = {}
  <2>1. CASE q = p
    <3>1. patch'[q] = r
      BY <1>1, <2>1 DEF Inv, Typed
    <3> QED
      BY <1>2, <1>3, <3>1
  <2>2. CASE q # p
    <3>1. patch'[q] = patch[q]
      BY <1>1, <2>2 DEF Inv, Typed
    <3> QED
      BY <1>1, <1>4, <3>1 DEF Gone
  <2> QED
    BY <2>1, <2>2
<1>5. removed' \subseteq removed
  BY <1>1
<1> QED
  BY <1>1, <1>4, <1>5 DEF Gone

LEMMA PatchWriteKeepsGone ==
  ASSUME Inv, Gone, NEW p \in Patchers, PatchWrite(p)
  PROVE  Gone'
<1>1. patch[p].id \in Ids /\ patch[p].key \in Keys /\ patch[p] # NoPatch
  BY DEF Inv, Typed, PatchWrite
<1>2. \A q \in Patchers : patch'[q] # NoPatch => patch'[q] = patch[q]
  BY DEF Inv, Typed, PatchWrite
<1>3. CASE InstallKey(patch[p].id, patch[p].key, {})
  <2> DEFINE added == PairsOf(patch[p].key.models)
             none == {}
  <2>1. InOrder' /\ Save(none, none)
    BY <1>1, <1>3, InstallsKey
  <2>2. Pairs(table') = Pairs(table) \cup added /\ Derived(keys', table')
    BY <1>1, <1>3, InstallsPairs
  <2>3. added \cap removed \subseteq none /\ none \cap Pairs(table') = {}
    BY <1>1 DEF Gone
  <2>4. Pairs(table') \subseteq Pairs(table) \cup added
    BY <2>2
  <2> HIDE DEF added, none
  <2> QED
    BY <1>2, <2>1, <2>2, <2>3, <2>4, EditKeepsGone
<1>4. CASE UNCHANGED <<memory, up, file, synced, removed, faults>>
  BY <1>2, <1>4 DEF Gone, memory
<1> QED
  BY <1>3, <1>4 DEF PatchWrite

\* What a flush writes leads nowhere that the file did not.
LEMMA WithUsagePairs ==
  ASSUME NEW f, f = NoFile \/ IsFile(f)
  PROVE  Pairs(Normalize(WithUsage(f)).table) \subseteq IF f = NoFile THEN {} ELSE Pairs(Normalize(f).table)
<1> DEFINE w == WithUsage(f)
<1>1. IsKeys(w.keys) /\ IsTable(w.table)
  BY WithUsageType DEF IsFile
<1>2. \A id \in DOMAIN w.keys : PairsOf(w.keys[id].models) = {}
  <2>1. CASE f = NoFile
    BY <2>1, NothingType DEF WithUsage
  <2>2. CASE f # NoFile
    <3>1. IsFile(f) /\ w = [keys |-> Stripped(f.keys), table |-> f.table, rules |-> f.rules]
      BY <2>2 DEF WithUsage, IsFile
    <3>2. \A id \in DOMAIN w.keys : w.keys[id].models = <<>>
      BY <3>1, StrippedType DEF IsFile
    <3> HIDE DEF w
    <3> QED
      BY <3>2, NoPairs
  <2> QED
    BY <2>1, <2>2
<1>3. w.table = IF f = NoFile THEN Nothing ELSE f.table
  <2>1. CASE f = NoFile
    BY <2>1 DEF WithUsage
  <2>2. CASE f # NoFile
    BY <2>2 DEF WithUsage, IsFile
  <2> QED
    BY <2>1, <2>2
<1> HIDE DEF w
<1>4. Pairs(Normalize(w).table) = Pairs(w.table)
  <2>1. Pairs(Normalize(w).table) = Pairs(w.table) \cup UNION {PairsOf(w.keys[id].models) : id \in DOMAIN w.keys}
    BY <1>1, NormalizePairs
  <2> QED
    BY <1>2, <2>1
<1>5. CASE f = NoFile
  <2>1. Pairs(Nothing) = {}
    BY NothingType DEF Pairs
  <2> QED
    BY <1>3, <1>4, <1>5, <2>1 DEF w
<1>6. CASE f # NoFile
  <2>1. IsKeys(f.keys) /\ IsTable(f.table)
    BY <1>6 DEF IsFile
  <2>2. Pairs(f.table) \subseteq Pairs(Normalize(f).table)
    BY <2>1, NormalizePairs
  <2> QED
    BY <1>3, <1>4, <1>6, <2>2 DEF w
<1> QED
  BY <1>5, <1>6

LEMMA FoundPairs ==
  ASSUME Inv, Gone, NEW found \in Found, found # NoFile
  PROVE  removed \cap Pairs(Normalize(found).table) = {}
<1>1. CASE found = file
  BY <1>1 DEF Gone
<1>2. CASE found = WithUsage(file)
  <2>1. Pairs(Normalize(WithUsage(file)).table)
          \subseteq IF file = NoFile THEN {} ELSE Pairs(Normalize(file).table)
    BY WithUsagePairs DEF Inv, Typed
  <2> QED
    BY <1>2, <2>1 DEF Gone
<1> QED
  BY <1>1, <1>2 DEF Found

LEMMA FlushUsageKeepsGone ==
  ASSUME Inv, Gone, FlushUsage
  PROVE  Gone'
<1>1. file' = WithUsage(file) /\ UNCHANGED <<keys, table, patch, removed>>
  BY DEF FlushUsage, memory
<1>2. Pairs(Normalize(WithUsage(file)).table)
        \subseteq IF file = NoFile THEN {} ELSE Pairs(Normalize(file).table)
  BY WithUsagePairs DEF Inv, Typed
<1>3. removed \cap Pairs(Normalize(WithUsage(file)).table) = {}
  BY <1>2 DEF Gone
<1> QED
  BY <1>1, <1>3 DEF Gone

\* A load leads where config.yaml or the file does.
LEMMA LoadedPairs ==
  ASSUME NEW c \in Configs, NEW f, IsFile(f)
  PROVE  Pairs(Loaded(c, f).table) \subseteq Pairs(Normalize(c).table) \cup Pairs(Normalize(f).table)
<1> DEFINE n == Normalize(c)
           d == [keys |-> f.keys,
                 table |-> IF n.table = Nothing THEN f.table ELSE n.table,
                 rules |-> IF n.rules = <<>> THEN f.rules ELSE n.rules]
<1>1. IsKeys(n.keys) /\ IsTable(n.table)
  BY LoadedType
<1>2. Loaded(c, f) = Normalize(d)
  BY DEF Loaded
<1> HIDE DEF n
<1>3. IsKeys(d.keys) /\ IsTable(d.table) /\ d.keys = f.keys /\ (d.table = f.table \/ d.table = n.table)
  BY <1>1 DEF IsFile
<1> HIDE DEF d
<1>4. Pairs(Normalize(d).table) = Pairs(d.table) \cup UNION {PairsOf(f.keys[id].models) : id \in DOMAIN f.keys}
  <2>1. Pairs(Normalize(d).table) = Pairs(d.table) \cup UNION {PairsOf(d.keys[id].models) : id \in DOMAIN d.keys}
    BY <1>3, NormalizePairs
  <2> QED
    BY <1>3, <2>1
<1>5. Pairs(Normalize(f).table) = Pairs(f.table) \cup UNION {PairsOf(f.keys[id].models) : id \in DOMAIN f.keys}
  BY NormalizePairs DEF IsFile
<1>6. Pairs(d.table) \subseteq Pairs(n.table) \cup Pairs(f.table)
  BY <1>3
<1> QED
  BY <1>2, <1>4, <1>5, <1>6 DEF n

\* Keys that were normalized lead where their aliases do.
LEMMA InstallsDerived ==
  ASSUME NEW n, IsKeys(n.keys), IsTable(n.table), \A id \in DOMAIN n.keys : n.keys[id].models = <<>>,
         \A id \in DOMAIN n.keys : AliasesOf(n.keys[id].refs) \subseteq DOMAIN n.table,
         LeadSomewhere(n.table), Install(n)
  PROVE  Derived(keys', table')
<1> DEFINE ks == n.keys
           tab == n.table
<1>1. keys' = ResolveAll(ks, tab) /\ table' = tab
  BY DEF Install
<1>2. /\ IsKeys(ks) /\ IsTable(tab)
      /\ \A id \in DOMAIN ks : AliasesOf(ks[id].refs) \subseteq DOMAIN tab
      /\ \A id \in DOMAIN ks : ks[id].refs = <<>> => PairsOf(ks[id].models) = {}
  BY NoPairs
<1> HIDE DEF ks, tab
<1>3. Derived(ResolveAll(ks, tab), tab)
  BY <1>2, ResolveAllDerived
<1> QED
  BY <1>1, <1>3

LEMMA NormalizeStrips ==
  ASSUME NEW c, IsKeys(c.keys)
  PROVE  \A id \in DOMAIN Normalize(c).keys : Normalize(c).keys[id].models = <<>>
<1>1. Normalize(c).keys = [id \in DOMAIN c.keys |-> Migrate(c.keys[id])]
  BY NormalizeIs
<1>2. \A id \in DOMAIN c.keys : Migrate(c.keys[id]).models = <<>>
  BY DEF Migrate
<1> QED
  BY <1>1, <1>2

LEMMA ReloadKeepsGone ==
  ASSUME Inv, Gone, NEW c \in Configs, NEW found \in Found, found # NoFile, Reload(c, found), UNCHANGED patch
  PROVE  Gone'
<1> DEFINE n == Loaded(c, found)
           again == Pairs(Normalize(c).table)
<1>1. Valid(n) /\ Install(n) /\ file' = found /\ removed' = removed \ again
  BY DEF Reload
<1>2. IsFile(found)
  BY FoundType DEF Inv
<1>3. IsKeys(n.keys) /\ IsTable(n.table)
  BY <1>2, LoadedType
<1>4. \A id \in DOMAIN n.keys : n.keys[id].models = <<>>
  BY <1>2, NormalizeStrips DEF Loaded, IsFile
<1>5. Pairs(n.table) \subseteq again \cup Pairs(Normalize(found).table)
  BY <1>2, LoadedPairs
<1>6. removed \cap Pairs(Normalize(found).table) = {}
  BY FoundPairs
<1> HIDE DEF n, again
<1>7. table' = n.table
  BY <1>1 DEF Install
<1>8. Derived(keys', table')
  BY <1>1, <1>3, <1>4, InstallsDerived DEF Valid
<1>9. removed' \cap Pairs(table') = {}
  BY <1>1, <1>5, <1>6, <1>7
<1>10. removed' \cap Pairs(Normalize(file').table) = {}
  BY <1>1, <1>6
<1>11. \A p \in Patchers : patch'[p] # NoPatch => PairsOf(patch'[p].key.models) \cap removed' = {}
  BY <1>1 DEF Gone
<1> QED
  BY <1>8, <1>9, <1>10, <1>11 DEF Gone

LEMMA ConfigureKeepsGone ==
  ASSUME Inv, Gone, NEW c \in Configs, Configure(c)
  PROVE  Gone'
<1>1. UNCHANGED patch
  BY DEF Configure
<1>2. PICK found \in Found : \/ found = NoFile /\ FirstBoot(c)
                             \/ found # NoFile /\ Reload(c, found)
                             \/ found # NoFile /\ ReloadRefused(c, found)
  BY DEF Configure
<1>3. CASE FirstBoot(c)
  <2> DEFINE n == Normalize(c)
             added == Pairs(table')
             none == {}
  <2>1. IsKeys(c.keys) /\ IsTable(c.table)
    BY FilesAreTyped DEF IsTables
  <2>2. IsKeys(n.keys) /\ IsTable(n.table) /\ Ordered(n.keys)
    BY <2>1, NormalizeType
  <2>3. \A id \in DOMAIN n.keys : n.keys[id].models = <<>>
    BY <2>1, NormalizeStrips
  <2>4. Valid(n) /\ Install(n) /\ Save(added, none)
    BY <1>3, ConfigsAreValid DEF FirstBoot
  <2> HIDE DEF n
  <2>5. InOrder'
    BY <2>2, <2>4, Installs DEF Valid
  <2>6. Derived(keys', table')
    BY <2>2, <2>3, <2>4, InstallsDerived DEF Valid
  <2>7. \A p \in Patchers : patch'[p] # NoPatch => patch'[p] = patch[p]
    BY <1>1
  <2>8. Pairs(table') \subseteq Pairs(table) \cup added /\ added \cap removed \subseteq added
        /\ none \cap Pairs(table') = {}
    OBVIOUS
  <2> HIDE DEF added, none
  <2> QED
    BY <2>4, <2>5, <2>6, <2>7, <2>8, EditKeepsGone
<1>4. CASE found # NoFile /\ Reload(c, found)
  BY <1>1, <1>4, ReloadKeepsGone
<1>5. CASE found # NoFile /\ ReloadRefused(c, found)
  <2>1. file' = found /\ UNCHANGED <<keys, table, patch, removed>>
    BY <1>1, <1>5 DEF ReloadRefused, memory
  <2>2. removed \cap Pairs(Normalize(found).table) = {}
    BY <1>5, FoundPairs
  <2> QED
    BY <2>1, <2>2 DEF Gone
<1> QED
  BY <1>2, <1>3, <1>4, <1>5

LEMMA CrashKeepsGone ==
  ASSUME Gone, Crash
  PROVE  Gone'
<1>1. keys' = Nothing /\ table' = Nothing /\ patch' = [p \in Patchers |-> NoPatch]
      /\ UNCHANGED <<file, removed>>
  BY DEF Crash
<1>2. Pairs(table') = {} /\ DOMAIN (keys') = {}
  BY <1>1, NothingType DEF Pairs
<1> QED
  BY <1>1, <1>2 DEF Gone, Derived

LEMMA InitGone == Init => Gone
<1> SUFFICES ASSUME Init PROVE Gone
  OBVIOUS
<1>1. DOMAIN keys = {} /\ removed = {} /\ patch = [p \in Patchers |-> NoPatch]
  BY NothingType DEF Init
<1> QED
  BY <1>1 DEF Gone, Derived

LEMMA NextGone == Inv /\ Gone /\ [Next]_vars => Gone'
<1> SUFFICES ASSUME Inv, Gone, [Next]_vars PROVE Gone'
  OBVIOUS
<1>1. CASE EditTables
  BY <1>1, UpsertAliasKeepsGone, DeleteAliasKeepsGone DEF EditTables
<1>2. CASE EditRules
  BY <1>2, EditRulesKeepsGone
<1>3. CASE EditKeys
  <2>1. PICK id \in Ids : \/ KeyWrite(id) \/ DeleteKey(id)
                          \/ \E p \in Patchers, body \in KeyBodies : PatchRead(p, id, body)
    BY <1>3 DEF EditKeys
  <2>2. CASE KeyWrite(id)
    BY <2>2, CreateKeyKeepsGone, PatchWriteKeepsGone DEF KeyWrite
  <2>3. CASE DeleteKey(id)
    BY <2>3, DeleteKeyKeepsGone
  <2>4. CASE \E p \in Patchers, body \in KeyBodies : PatchRead(p, id, body)
    BY <2>4, PatchReadKeepsGone
  <2> QED
    BY <2>1, <2>2, <2>3, <2>4
<1>4. CASE FlushUsage
  BY <1>4, FlushUsageKeepsGone
<1>5. CASE Crash
  BY <1>5, CrashKeepsGone
<1>6. CASE \E c \in Configs : Configure(c)
  BY <1>6, ConfigureKeepsGone
<1>7. CASE UNCHANGED vars
  BY <1>7 DEF vars, memory, Gone
<1> QED
  BY <1>1, <1>2, <1>3, <1>4, <1>5, <1>6, <1>7 DEF Next

\* A target that an edit took out of an alias is neither in memory nor in the
\* file, whatever PATCH requests wrote, and flushes, loads and crashes did
\* since, unless someone asked for it again, config.yaml has it, or a PATCH had
\* copied its key before the edit.
THEOREM RemovedIsGone == Spec => []RemovedStaysRemoved
<1>1. Init => Inv /\ Gone
  BY InitInv, InitGone
<1>2. (Inv /\ Gone) /\ [Next]_vars => (Inv /\ Gone)'
  BY NextInv, NextGone
<1>3. Inv /\ Gone => RemovedStaysRemoved
  BY DEF Gone, RemovedStaysRemoved
<1> QED
  BY <1>1, <1>2, <1>3, PTL DEF Spec
----------------------------------------------------------------------------
(***************************************************************************)
(* The migration of an old file.                                           *)
(***************************************************************************)
LEMMA AppendAliases ==
  ASSUME NEW t \in Seq(Refs), NEW e \in Refs
  PROVE  AliasesOf(Append(t, e)) = AliasesOf(t) \cup {e.alias}
<1> DEFINE u == Append(t, e)
<1>1. DOMAIN u = 1..(Len(t) + 1) /\ DOMAIN t = 1..Len(t) /\ Len(t) \in Nat
  OBVIOUS
<1>2. u[Len(t) + 1] = e /\ \A i \in DOMAIN t : u[i] = t[i]
  OBVIOUS
<1>3. DOMAIN u = DOMAIN t \cup {Len(t) + 1}
  BY <1>1
<1> HIDE DEF u
<1>4. AliasesOf(u) = AliasesOf(t) \cup {e.alias}
  BY <1>2, <1>3 DEF AliasesOf
<1> QED
  BY <1>4 DEF u

\* The loop misses none of the aliases named that the sequence has.
LEMMA FirstOfEachFinds ==
  ASSUME NEW s \in Seq(Refs), NEW names
  PROVE  AliasesOf(s) \cap names \subseteq AliasesOf(FirstOfEach(s, names))
<1>1. PICK h : IsSelection(h, s, names)
  BY FirstOfEachSteps
<1>2. Len(s) \in Nat /\ DOMAIN s = 1..Len(s)
  OBVIOUS
<1> DEFINE L == Len(s)
           A == {n \in 0..L : \A i \in 1..n : s[i].alias \in names => s[i].alias \in AliasesOf(h[n])}
<1>3. 0 \in A
  BY <1>2
<1>4. ASSUME NEW n \in 1..L, n - 1 \in A PROVE n \in A
  <2>1. n - 1 \in 0..L /\ n \in 0..L /\ s[n] \in Refs
    BY <1>2
  <2>2. h[n-1] \in Seq(Refs)
    BY <1>1, <2>1 DEF IsSelection, Distinct
  <2>3. AliasesOf(h[n-1]) \subseteq AliasesOf(h[n]) /\ (s[n].alias \in names => s[n].alias \in AliasesOf(h[n]))
    <3>1. CASE s[n].alias \in names \ AliasesOf(h[n-1])
      <4>1. h[n] = Append(h[n-1], s[n])
        BY <1>1, <3>1 DEF IsSelection
      <4>2. AliasesOf(Append(h[n-1], s[n])) = AliasesOf(h[n-1]) \cup {s[n].alias}
        BY <2>1, <2>2, AppendAliases
      <4> QED
        BY <4>1, <4>2
    <3>2. CASE s[n].alias \notin names \ AliasesOf(h[n-1])
      <4>1. h[n] = h[n-1]
        BY <1>1, <3>2 DEF IsSelection
      <4> QED
        BY <3>2, <4>1
    <3> QED
      BY <3>1, <3>2
  <2>4. \A i \in 1..(n-1) : s[i].alias \in names => s[i].alias \in AliasesOf(h[n-1])
    BY <1>4
  <2>5. \A i \in 1..n : i = n \/ i \in 1..(n-1)
    BY <2>1
  <2> QED
    BY <2>1, <2>3, <2>4, <2>5
<1>5. L \in A
  <2> HIDE DEF A
  <2>1. 0..L \subseteq A
    BY <1>2, <1>3, <1>4, Induction
  <2> QED
    BY <1>2, <2>1
<1>6. \A i \in DOMAIN s : s[i].alias \in names => s[i].alias \in AliasesOf(FirstOfEach(s, names))
  BY <1>1, <1>2, <1>5 DEF IsSelection
<1> QED
  BY <1>6 DEF AliasesOf

\* A key is left with a reference to every alias that its models named.
LEMMA MigrateNames ==
  ASSUME NEW k \in Keys, k.models # <<>>
  PROVE  AliasesOf(k.models) \subseteq AliasesOf(Migrate(k).refs)
<1> DEFINE refs == k.refs
           models == k.models
           new == [i \in DOMAIN models |-> [alias |-> models[i].alias, price |-> Unset]]
           all == refs \o new
<1>1. refs \in Seq(Refs) /\ models \in Seq(ModelRules)
  BY DEF Keys
<1>2. \A i \in DOMAIN models : new[i] \in Refs
  BY <1>1, ModelFields DEF Refs
<1>3. Len(models) \in Nat /\ DOMAIN models = 1..Len(models) /\ new \in [1..Len(models) -> Refs]
  <2>1. Len(models) \in Nat /\ DOMAIN models = 1..Len(models)
    <3> HIDE DEF models
    <3> QED
      BY <1>1
  <2>2. DOMAIN new = DOMAIN models
    OBVIOUS
  <2>3. new = [i \in DOMAIN models |-> new[i]]
    OBVIOUS
  <2> HIDE DEF new, models
  <2> QED
    BY <1>2, <2>1, <2>3
<1>4. new \in Seq(Refs)
  BY <1>3, IsSequence
<1>5. AliasesOf(models) \subseteq AliasesOf(all)
  <2>1. \A i \in DOMAIN models : new[i].alias = models[i].alias
    OBVIOUS
  <2>2. DOMAIN new = DOMAIN models
    OBVIOUS
  <2> HIDE DEF new, refs, models
  <2>3. ASSUME NEW i \in DOMAIN new PROVE new[i].alias \in AliasesOf(all)
    <3>1. Len(refs) + i \in DOMAIN all /\ all[Len(refs) + i] = new[i]
      BY <1>1, <1>4
    <3> QED
      BY <3>1 DEF AliasesOf
  <2> QED
    BY <2>1, <2>2, <2>3 DEF AliasesOf
<1>6. all \in Seq(Refs)
  BY <1>1, <1>4
<1>7. Reconcile(refs, models) = FirstOfEach(all, AliasesOf(models))
  BY DEF Reconcile
<1>8. Reconcile(refs, models) \in Distinct(AliasesOf(models))
  BY <1>1, ReconcileType
<1>9. Migrate(k).refs = Heal(Reconcile(refs, models))
  BY DEF Migrate
<1> HIDE DEF refs, models, all
<1>10. AliasesOf(all) \cap AliasesOf(models) \subseteq AliasesOf(FirstOfEach(all, AliasesOf(models)))
  BY <1>6, FirstOfEachFinds
<1>11. Heal(Reconcile(refs, models)) = Reconcile(refs, models)
  BY <1>8, HealsNothing
<1> QED
  BY <1>5, <1>7, <1>9, <1>10, <1>11 DEF models

LEMMA PairsNameAliases ==
  ASSUME NEW models, NEW p \in PairsOf(models)
  PROVE  p[1] \in AliasesOf(models)
BY DEF PairsOf, AliasesOf

\* Loading a file installs keys that lead where the models in it did.
LEMMA LoadKeepsModels ==
  ASSUME NEW c \in Configs, NEW f, IsFile(f), Valid(Loaded(c, f)), Install(Loaded(c, f)),
         NEW id \in DOMAIN f.keys
  PROVE  PairsOf(f.keys[id].models) \subseteq PairsOf(keys'[id].models)
<1> DEFINE k == f.keys[id]
           d == [keys |-> f.keys,
                 table |-> IF Normalize(c).table = Nothing THEN f.table ELSE Normalize(c).table,
                 rules |-> IF Normalize(c).rules = <<>> THEN f.rules ELSE Normalize(c).rules]
           n == Normalize(d)
           tab == n.table
           refs == n.keys[id].refs
<1>1. Loaded(c, f) = n
  BY DEF Loaded
<1>2. IsTable(Normalize(c).table)
  BY LoadedType
<1>3. IsKeys(d.keys) /\ IsTable(d.table) /\ d.keys = f.keys
  BY <1>2 DEF IsFile
<1>4. k \in Keys
  BY DEF IsFile, IsKeys
<1> HIDE DEF d
<1>5. PairsOf(k.models) \subseteq Pairs(tab)
  <2>1. Pairs(Normalize(d).table) = Pairs(d.table) \cup UNION {PairsOf(d.keys[x].models) : x \in DOMAIN d.keys}
    BY <1>3, NormalizePairs
  <2> QED
    BY <1>3, <2>1
<1>6. n.keys[id] = Migrate(k) /\ id \in DOMAIN n.keys
  <2>1. n.keys = [x \in DOMAIN d.keys |-> Migrate(d.keys[x])]
    BY NormalizeIs
  <2> HIDE DEF n
  <2> QED
    BY <1>3, <2>1
<1>7. IsTable(tab) /\ n.keys[id] \in Keys
  BY <1>3, <1>6, NormalizeType DEF IsKeys
<1>8. refs \in Seq(Refs)
  BY <1>7 DEF Keys
<1>9. AliasesOf(refs) \subseteq DOMAIN tab
  BY <1>1, <1>6 DEF Valid
<1>10. keys'[id] = Resolved(n.keys[id], tab)
  BY <1>1, <1>6 DEF Install, ResolveAll
<1>11. CASE k.models = <<>>
  <2> HIDE DEF k
  <2> QED
    BY <1>11, NoPairs DEF k
<1>12. CASE k.models # <<>>
  <2>1. AliasesOf(k.models) \subseteq AliasesOf(refs)
    <3> HIDE DEF n
    <3>1. refs = Migrate(k).refs
      BY <1>6
    <3> HIDE DEF k, refs
    <3> QED
      BY <1>4, <1>12, <3>1, MigrateNames
  <2>2. \A p \in PairsOf(k.models) : p[1] \in AliasesOf(refs)
    <3> HIDE DEF k, refs
    <3> QED
      BY <2>1, PairsNameAliases
  <2>3. refs # <<>>
    <3>1. k.models \in Seq(ModelRules)
      BY <1>4 DEF Keys
    <3>2. AliasesOf(k.models) # {}
      <4> DEFINE ms == k.models
      <4>1. ms \in Seq(ModelRules) /\ ms # <<>>
        BY <1>12, <3>1
      <4> HIDE DEF ms
      <4>2. 1 \in DOMAIN ms
        BY <4>1
      <4>3. AliasesOf(ms) # {}
        BY <4>2 DEF AliasesOf
      <4> QED
        BY <4>3 DEF ms
    <3> HIDE DEF refs, k
    <3> QED
      BY <2>1, <3>2, NoPairs
  <2>4. Resolved(n.keys[id], tab).models = Resolve(refs, tab)
    <3> DEFINE m == n.keys[id]
    <3>1. m \in Keys /\ m.refs # <<>>
      BY <1>7, <2>3
    <3> HIDE DEF m
    <3>2. Resolved(m, tab).models = Resolve(m.refs, tab)
      BY <3>1 DEF Resolved, Keys
    <3> QED
      BY <3>2 DEF m
  <2> HIDE DEF refs, tab, n, k
  <2>5. PairsOf(Resolve(refs, tab)) = {p \in Pairs(tab) : p[1] \in AliasesOf(refs)}
    BY <1>7, <1>8, <1>9, ResolvePairs
  <2>6. PairsOf(k.models) \subseteq PairsOf(keys'[id].models)
    BY <1>5, <1>10, <2>2, <2>4, <2>5
  <2> QED
    BY <2>6 DEF k
<1> QED
  BY <1>11, <1>12

\* Only Configure brings a process up.
LEMMA OnlyConfigureStarts ==
  ASSUME Next, ~up, up'
  PROVE  \E c \in Configs : Configure(c)
<1>1. CASE EditTables
  BY <1>1 DEF EditTables, UpsertAlias, DeleteAlias, Edit
<1>2. CASE EditRules
  BY <1>2 DEF EditRules, UpsertClassifyRule, DeleteClassifyRule, ReorderClassifyRules, RuleEdit
<1>3. CASE EditKeys
  <2>1. PICK id \in Ids : \/ KeyWrite(id) \/ DeleteKey(id)
                          \/ \E p \in Patchers, body \in KeyBodies : PatchRead(p, id, body)
    BY <1>3 DEF EditKeys
  <2>2. CASE KeyWrite(id)
    BY <2>2 DEF KeyWrite, CreateKey, PatchWrite, InstallKey, Edit
  <2>3. CASE DeleteKey(id)
    BY <2>3 DEF DeleteKey, Edit
  <2>4. CASE \E p \in Patchers, body \in KeyBodies : PatchRead(p, id, body)
    BY <2>4 DEF PatchRead, Edit
  <2> QED
    BY <2>1, <2>2, <2>3, <2>4
<1>4. CASE FlushUsage \/ Crash
  BY <1>4 DEF FlushUsage, Crash
<1> QED
  BY <1>1, <1>2, <1>3, <1>4 DEF Next

\* Migrating an old state file takes nothing from a key: each target that its
\* models listed it still reaches under the alias it had, in the process that
\* loads the file first.
THEOREM MigrationIsKind == Spec => MigrationLosesNothing
<1> DEFINE Preserved == ~up /\ up' /\ file # NoFile =>
                     \A id \in DOMAIN file.keys :
                       PairsOf(file.keys[id].models) \subseteq PairsOf(keys'[id].models)
<1>1. Inv /\ [Next]_vars => [Preserved]_vars
  <2> SUFFICES ASSUME Inv, Next, ~up, up', file # NoFile, NEW id \in DOMAIN file.keys
               PROVE  PairsOf(file.keys[id].models) \subseteq PairsOf(keys'[id].models)
    OBVIOUS
  <2>1. PICK c \in Configs : Configure(c)
    BY OnlyConfigureStarts
  <2>2. Found = {file}
    BY DEF Found
  <2>3. Reload(c, file) \/ ReloadRefused(c, file)
    BY <2>1, <2>2 DEF Configure
  <2>4. Reload(c, file)
    BY <2>3 DEF ReloadRefused
  <2>5. Valid(Loaded(c, file)) /\ Install(Loaded(c, file)) /\ IsFile(file)
    BY <2>4 DEF Reload, Inv, Typed
  <2> QED
    BY <2>5, LoadKeepsModels
<1>2. Spec => [][Preserved]_vars
  <2> HIDE DEF Preserved
  <2> QED
    BY <1>1, InvHolds, PTL DEF Spec
<1> QED
  BY <1>2 DEF MigrationLosesNothing
----------------------------------------------------------------------------
(***************************************************************************)
(* What keys route and bill by.                                            *)
(***************************************************************************)
\* The models of one reference, in the terms of ModelsFollowTable.
FollowsRef(models, r, e) ==
    LET ms == Kept(models, {m \in ModelRules : m.alias = r.alias})
    IN  /\ ms # <<>>
        /\ IsPrefix([j \in DOMAIN ms |-> ms[j].target], e.targets)
        /\ \A j \in DOMAIN ms : ms[j].price = IF r.price = Unset THEN e.price ELSE r.price

Follows(k, tab) ==
    /\ AliasesOf(k.models) \subseteq AliasesOf(k.refs)
    /\ \A i \in DOMAIN k.refs : FollowsRef(k.models, k.refs[i], tab[k.refs[i].alias])

LEMMA AllFollow == ModelsFollowTable <=> \A id \in DOMAIN keys : Follows(keys[id], table)
BY Zenon DEF ModelsFollowTable, Follows, FollowsRef

\* Of the models derived from references to different aliases, those of one
\* alias are the targets of its entry.
LEMMA ResolveFollowsRef ==
  ASSUME NEW tab, IsTable(tab), LeadSomewhere(tab), NEW refs \in Distinct(Aliases),
         AliasesOf(refs) \subseteq DOMAIN tab, NEW one \in DOMAIN refs
  PROVE  FollowsRef(Resolve(refs, tab), refs[one], tab[refs[one].alias])
<1> DEFINE of(i) == [j \in DOMAIN tab[refs[i].alias].targets |->
              [alias |-> refs[i].alias, target |-> tab[refs[i].alias].targets[j],
               price |-> IF refs[i].price = Unset THEN tab[refs[i].alias].price ELSE refs[i].price]]
           ss == [i \in DOMAIN refs |-> of(i)]
           T == {m \in ModelRules : m.alias = refs[one].alias}
<1>1. refs \in Seq(Refs) /\ \A i, j \in DOMAIN refs : refs[i].alias = refs[j].alias => i = j
  BY DEF Distinct
<1>2. ASSUME NEW i \in DOMAIN refs
      PROVE  of(i) \in Seq(ModelRules) /\ \A m \in ToSet(of(i)) : m \in ModelRules /\ m.alias = refs[i].alias
  <2>1. of(i) \in Seq(ModelRules)
    BY <1>1, <1>2, ResolveRowType
  <2>2. \A j \in DOMAIN of(i) : of(i)[j].alias = refs[i].alias
    OBVIOUS
  <2> HIDE DEF of
  <2> QED
    BY <2>1, <2>2 DEF ToSet
<1>3. Resolve(refs, tab) = FlattenSeq(ss)
  BY DEF Resolve
<1> DEFINE e == tab[refs[one].alias]
           p == IF refs[one].price = Unset THEN e.price ELSE refs[one].price
<1>4. /\ DOMAIN of(one) = DOMAIN e.targets
      /\ \A j \in DOMAIN e.targets : of(one)[j].target = e.targets[j] /\ of(one)[j].price = p
  OBVIOUS
<1>5. e.targets \in Seq(Targets) /\ e.targets # <<>>
  <2>1. refs[one].alias \in DOMAIN tab
    BY DEF AliasesOf
  <2> QED
    BY <2>1 DEF IsTable, Entries, LeadSomewhere
<1> HIDE DEF of, e, p
<1>6. /\ ss \in Seq(Seq(ModelRules)) /\ DOMAIN ss = DOMAIN refs
      /\ \A i \in DOMAIN refs : ss[i] = of(i)
  <2>1. Len(refs) \in Nat /\ DOMAIN refs = 1..Len(refs)
    BY <1>1
  <2>2. ss \in [1..Len(refs) -> Seq(ModelRules)]
    BY <1>2, <2>1
  <2> QED
    BY <2>1, <2>2, IsSequence
<1>7. Kept(FlattenSeq(ss), T) = of(one)
  <2>1. ToSet(ss[one]) \subseteq T
    BY <1>2, <1>6
  <2>2. ASSUME NEW i \in DOMAIN ss \ {one} PROVE ToSet(ss[i]) \cap T = {}
    <3>1. i \in DOMAIN refs /\ refs[i].alias # refs[one].alias
      BY <1>1, <1>6
    <3> QED
      BY <1>2, <1>6, <3>1
  <2> HIDE DEF ss, T
  <2>3. Kept(FlattenSeq(ss), T) = ss[one]
    BY <1>6, <2>1, <2>2, KeptPart
  <2> QED
    BY <1>6, <2>3
<1> DEFINE ms == of(one)
<1>8. ms # <<>> /\ [j \in DOMAIN ms |-> ms[j].target] = e.targets
  <2>1. [j \in DOMAIN e.targets |-> e.targets[j]] = e.targets /\ DOMAIN e.targets # {}
    BY <1>5
  <2>2. DOMAIN <<>> = {}
    OBVIOUS
  <2> QED
    BY <1>4, <2>1, <2>2
<1>9. IsPrefix(e.targets, e.targets)
  BY <1>5 DEF IsPrefix
<1>10. \A j \in DOMAIN ms : ms[j].price = p
  BY <1>4
<1>11. Kept(Resolve(refs, tab), T) = ms
  BY <1>3, <1>7
<1> HIDE DEF ms, ss, T
<1> QED
  BY <1>8, <1>9, <1>10, <1>11 DEF FollowsRef, T, e, p

LEMMA ResolvedFollows ==
  ASSUME NEW tab, IsTable(tab), LeadSomewhere(tab), NEW k \in Keys, k.refs \in Distinct(Aliases),
         AliasesOf(k.refs) \subseteq DOMAIN tab, k.refs = <<>> => AliasesOf(k.models) = {}
  PROVE  Follows(Resolved(k, tab), tab)
<1>1. CASE k.refs = <<>>
  <2>1. Resolved(k, tab) = k /\ DOMAIN k.refs = {}
    BY <1>1 DEF Resolved
  <2> QED
    BY <1>1, <2>1 DEF Follows
<1>2. CASE k.refs # <<>>
  <2> DEFINE refs == k.refs
             models == Resolve(refs, tab)
             new == Resolved(k, tab)
  <2>1. new.refs = refs /\ new.models = models
    BY <1>2 DEF Resolved, Keys
  <2>2. refs \in Seq(Refs) /\ refs \in Distinct(Aliases) /\ AliasesOf(refs) \subseteq DOMAIN tab
    BY DEF Distinct
  <2> HIDE DEF refs, new
  <2>3. AliasesOf(models) \subseteq AliasesOf(refs)
    <3>1. \A q \in PairsOf(models) : q[1] \in AliasesOf(refs)
      BY <2>2, ResolvePairs
    <3> HIDE DEF models
    <3>2. \A i \in DOMAIN models : <<models[i].alias, models[i].target>> \in PairsOf(models)
      BY DEF PairsOf
    <3>3. \A i \in DOMAIN models : models[i].alias \in AliasesOf(refs)
      BY <3>1, <3>2
    <3> QED
      BY <3>3 DEF AliasesOf
  <2>4. \A i \in DOMAIN refs : FollowsRef(models, refs[i], tab[refs[i].alias])
    BY <2>2, ResolveFollowsRef
  <2> HIDE DEF models
  <2>5. Follows(new, tab)
    BY <2>1, <2>3, <2>4 DEF Follows
  <2> QED
    BY <2>5 DEF new
<1> QED
  BY <1>1, <1>2

\* Entries that keep their price and their targets in order, with others after
\* them, are followed by whoever followed them before.
Extends(tab, more, names) ==
    \A a \in names : /\ a \in DOMAIN tab /\ a \in DOMAIN more
                     /\ more[a].price = tab[a].price
                     /\ IsPrefix(tab[a].targets, more[a].targets)

LEMMA PrefixOfPrefix ==
  ASSUME NEW S, NEW s \in Seq(S), NEW t \in Seq(S), NEW u \in Seq(S), IsPrefix(s, t), IsPrefix(t, u)
  PROVE  IsPrefix(s, u)
<1>1. Len(s) <= Len(t) /\ Len(t) <= Len(u) /\ Len(s) \in Nat /\ Len(t) \in Nat /\ Len(u) \in Nat
  BY DEF IsPrefix
<1>2. ASSUME NEW i \in 1..Len(s) PROVE s[i] = u[i]
  <2>1. s[i] = SubSeq(s, 1, Len(s))[i] /\ SubSeq(t, 1, Len(s))[i] = t[i]
    BY <1>1
  <2>2. i \in 1..Len(t)
    BY <1>1
  <2>3. t[i] = SubSeq(t, 1, Len(t))[i] /\ SubSeq(u, 1, Len(t))[i] = u[i]
    BY <1>1, <2>2
  <2> QED
    BY <2>1, <2>3 DEF IsPrefix
<1> DEFINE a == SubSeq(s, 1, Len(s))
           b == SubSeq(u, 1, Len(s))
<1>3. a \in Seq(S) /\ b \in Seq(S) /\ Len(a) = Len(s) /\ Len(b) = Len(s)
  BY <1>1
<1>4. \A i \in 1..Len(s) : a[i] = b[i]
  BY <1>1, <1>2
<1> HIDE DEF a, b
<1>5. a = b
  BY <1>1, <1>3, <1>4
<1> QED
  BY <1>1, <1>5 DEF IsPrefix, a, b

LEMMA FollowsMore ==
  ASSUME NEW tab, IsTable(tab), NEW more, IsTable(more), NEW k \in Keys, Follows(k, tab),
         Extends(tab, more, AliasesOf(k.refs))
  PROVE  Follows(k, more)
<1> SUFFICES ASSUME NEW i \in DOMAIN k.refs
             PROVE  FollowsRef(k.models, k.refs[i], more[k.refs[i].alias])
  BY DEF Follows
<1> DEFINE r == k.refs[i]
           ms == Kept(k.models, {m \in ModelRules : m.alias = r.alias})
           ts == [j \in DOMAIN ms |-> ms[j].target]
<1>1. r.alias \in AliasesOf(k.refs)
  BY DEF AliasesOf
<1>2. /\ tab[r.alias] \in Entries /\ more[r.alias] \in Entries
      /\ more[r.alias].price = tab[r.alias].price
      /\ IsPrefix(tab[r.alias].targets, more[r.alias].targets)
  BY <1>1 DEF Extends, IsTable
<1>3. FollowsRef(k.models, r, tab[r.alias])
  BY DEF Follows
<1>4. ms \in Seq(ModelRules)
  BY KeptType DEF Keys
<1>5. /\ ms # <<>>
      /\ IsPrefix(ts, tab[r.alias].targets)
      /\ \A j \in DOMAIN ms : ms[j].price = IF r.price = Unset THEN tab[r.alias].price ELSE r.price
  BY <1>3 DEF FollowsRef
<1> HIDE DEF ms
<1>6. ts \in Seq(Targets)
  <2>1. Len(ms) \in Nat /\ DOMAIN ms = 1..Len(ms) /\ \A j \in DOMAIN ms : ms[j] \in ModelRules
    BY <1>4
  <2>2. ts \in [1..Len(ms) -> Targets]
    BY <2>1, ModelFields DEF ModelRules
  <2> QED
    BY <2>1, <2>2, IsSequence
<1>7. tab[r.alias].targets \in Seq(Targets) /\ more[r.alias].targets \in Seq(Targets)
  BY <1>2 DEF Entries
<1> DEFINE old == tab[r.alias].targets
           new == more[r.alias].targets
<1>8. IsPrefix(ts, new)
  <2>1. ts \in Seq(Targets) /\ old \in Seq(Targets) /\ new \in Seq(Targets)
        /\ IsPrefix(ts, old) /\ IsPrefix(old, new)
    BY <1>2, <1>5, <1>6, <1>7
  <2> HIDE DEF ts, old, new
  <2> QED
    BY <2>1, PrefixOfPrefix
<1> HIDE DEF r
<1> QED
  BY <1>2, <1>5, <1>8 DEF FollowsRef, ms, r

LEMMA AllFollowNext ==
  ASSUME \A id \in DOMAIN (keys') : Follows(keys'[id], table')
  PROVE  ModelsFollowTable'
BY Zenon DEF ModelsFollowTable, Follows, FollowsRef

LEMMA UnchangedFollows ==
  ASSUME ModelsFollowTable, UNCHANGED <<keys, table>>
  PROVE  ModelsFollowTable'
<1>1. keys' = keys /\ table' = table
  OBVIOUS
<1>2. \A id \in DOMAIN keys : Follows(keys[id], table)
  BY AllFollow
<1>3. \A id \in DOMAIN (keys') : Follows(keys'[id], table')
  BY <1>1, <1>2, Zenon
<1> QED
  BY <1>3, AllFollowNext

\* Keys that are derived anew follow the table they are derived from.
LEMMA ResolveAllFollows ==
  ASSUME NEW ks, IsKeys(ks), Ordered(ks), NEW tab, IsTable(tab), LeadSomewhere(tab),
         \A id \in DOMAIN ks : AliasesOf(ks[id].refs) \subseteq DOMAIN tab,
         \A id \in DOMAIN ks : ks[id].refs = <<>> => AliasesOf(ks[id].models) = {},
         keys' = ResolveAll(ks, tab), table' = tab
  PROVE  ModelsFollowTable'
<1>1. \A id \in DOMAIN ks : Follows(Resolved(ks[id], tab), tab)
  <2> SUFFICES ASSUME NEW id \in DOMAIN ks PROVE Follows(Resolved(ks[id], tab), tab)
    OBVIOUS
  <2> DEFINE k == ks[id]
  <2>1. k \in Keys /\ k.refs \in Distinct(Aliases) /\ AliasesOf(k.refs) \subseteq DOMAIN tab
        /\ (k.refs = <<>> => AliasesOf(k.models) = {})
    BY DEF IsKeys, Ordered
  <2> HIDE DEF k
  <2>2. Follows(Resolved(k, tab), tab)
    BY <2>1, ResolvedFollows
  <2> QED
    BY <2>2 DEF k
<1>2. DOMAIN (keys') = DOMAIN ks /\ \A id \in DOMAIN ks : keys'[id] = Resolved(ks[id], tab)
  BY DEF ResolveAll
<1>3. \A id \in DOMAIN (keys') : Follows(keys'[id], table')
  BY <1>1, <1>2
<1> QED
  BY <1>3, AllFollowNext

\* A key without references has no models.
LEMMA NothingToFollow ==
  ASSUME NEW k, NEW tab, Follows(k, tab), k.refs = <<>>
  PROVE  AliasesOf(k.models) = {}
BY NoPairs DEF Follows

LEMMA InstallsFollowers ==
  ASSUME NEW n, IsKeys(n.keys), IsTable(n.table), Ordered(n.keys), LeadSomewhere(n.table),
         \A id \in DOMAIN n.keys : AliasesOf(n.keys[id].refs) \subseteq DOMAIN n.table,
         \A id \in DOMAIN n.keys : n.keys[id].models = <<>>,
         Install(n)
  PROVE  ModelsFollowTable'
<1> DEFINE ks == n.keys
           tab == n.table
<1>1. keys' = ResolveAll(ks, tab) /\ table' = tab
  BY DEF Install
<1>2. /\ IsKeys(ks) /\ IsTable(tab) /\ Ordered(ks) /\ LeadSomewhere(tab)
      /\ \A id \in DOMAIN ks : AliasesOf(ks[id].refs) \subseteq DOMAIN tab
      /\ \A id \in DOMAIN ks : ks[id].refs = <<>> => AliasesOf(ks[id].models) = {}
  BY NoPairs
<1> HIDE DEF ks, tab
<1> QED
  BY <1>1, <1>2, ResolveAllFollows

LEMMA ConfigureKeepsFollowing ==
  ASSUME Inv, ModelsFollowTable, NEW c \in Configs, Configure(c)
  PROVE  ModelsFollowTable'
<1>1. PICK found \in Found : \/ found = NoFile /\ FirstBoot(c)
                             \/ found # NoFile /\ Reload(c, found)
                             \/ found # NoFile /\ ReloadRefused(c, found)
  BY DEF Configure
<1>2. CASE FirstBoot(c)
  <2> DEFINE n == Normalize(c)
  <2>1. IsKeys(c.keys) /\ IsTable(c.table)
    BY FilesAreTyped DEF IsTables
  <2>2. IsKeys(n.keys) /\ IsTable(n.table) /\ Ordered(n.keys) /\ \A id \in DOMAIN n.keys : n.keys[id].models = <<>>
    BY <2>1, NormalizeType, NormalizeStrips
  <2>3. Valid(n) /\ Install(n)
    BY <1>2, ConfigsAreValid DEF FirstBoot
  <2> HIDE DEF n
  <2> QED
    BY <2>2, <2>3, InstallsFollowers DEF Valid
<1>3. CASE found # NoFile /\ Reload(c, found)
  <2> DEFINE n == Loaded(c, found)
  <2>1. Valid(n) /\ Install(n)
    BY <1>3 DEF Reload
  <2>2. IsFile(found)
    BY <1>3, FoundType DEF Inv
  <2>3. IsKeys(n.keys) /\ IsTable(n.table) /\ Ordered(n.keys)
    BY <2>2, LoadedType
  <2>4. \A id \in DOMAIN n.keys : n.keys[id].models = <<>>
    <3> DEFINE m == Normalize(c)
               d == [keys |-> found.keys,
                     table |-> IF m.table = Nothing THEN found.table ELSE m.table,
                     rules |-> IF m.rules = <<>> THEN found.rules ELSE m.rules]
    <3>1. n = Normalize(d) /\ IsKeys(d.keys)
      BY <2>2 DEF Loaded, IsFile
    <3> HIDE DEF d, n
    <3> QED
      BY <3>1, NormalizeStrips
  <2> HIDE DEF n
  <2> QED
    BY <2>1, <2>3, <2>4, InstallsFollowers DEF Valid
<1>4. CASE ReloadRefused(c, found)
  BY <1>4, UnchangedFollows DEF ReloadRefused, memory
<1> QED
  BY <1>1, <1>2, <1>3, <1>4

LEMMA UpsertAliasKeepsFollowing ==
  ASSUME Inv, ModelsFollowTable, NEW a \in Aliases, NEW targets \in AliasBodies, NEW price \in Prices,
         UpsertAlias(a, targets, price)
  PROVE  ModelsFollowTable'
<1>1. Inv'
  BY UpsertAliasKeepsInv
<1>2. IsKeys(keys) /\ Ordered(keys) /\ RefsResolve
  BY DEF Inv, Typed
<1> DEFINE tab == table'
<1>3. IsTable(tab) /\ LeadSomewhere(tab) /\ table' = tab
  BY <1>1 DEF Inv, Typed, IsTable, LeadSomewhere
<1>4. keys' = ResolveAll(keys, tab) /\ DOMAIN table \subseteq DOMAIN tab
  BY DEF UpsertAlias, With
<1>5. \A id \in DOMAIN keys : AliasesOf(keys[id].refs) \subseteq DOMAIN tab
  BY <1>2, <1>4 DEF RefsResolve
<1>6. \A id \in DOMAIN keys : keys[id].refs = <<>> => AliasesOf(keys[id].models) = {}
  BY AllFollow, NothingToFollow
<1> HIDE DEF tab
<1> QED
  BY <1>2, <1>3, <1>4, <1>5, <1>6, ResolveAllFollows

LEMMA DeleteAliasKeepsFollowing ==
  ASSUME Inv, ModelsFollowTable, NEW a \in Aliases, DeleteAlias(a)
  PROVE  ModelsFollowTable'
<1>1. table' = Without(table, a) /\ UNCHANGED keys /\ ~Referenced(a)
  BY DEF DeleteAlias
<1>2. \A x \in DOMAIN table \ {a} : table'[x] = table[x]
  BY <1>1 DEF Without
<1>3. ASSUME NEW id \in DOMAIN keys PROVE Follows(keys'[id], table')
  <2>1. Follows(keys[id], table) /\ a \notin AliasesOf(keys[id].refs)
        /\ AliasesOf(keys[id].refs) \subseteq DOMAIN table
    BY <1>1, AllFollow DEF Referenced, Inv, RefsResolve
  <2>2. \A i \in DOMAIN keys[id].refs : keys[id].refs[i].alias \in DOMAIN table \ {a}
    BY <2>1 DEF AliasesOf
  <2>3. \A i \in DOMAIN keys[id].refs : table'[keys[id].refs[i].alias] = table[keys[id].refs[i].alias]
    BY <1>2, <2>2
  <2> QED
    BY <1>1, <2>1, <2>3 DEF Follows
<1> QED
  BY <1>1, <1>3, AllFollowNext

\* The key written is derived from the table as the write leaves it; the others
\* see at most targets added behind those they know.
LEMMA InstallKeyKeepsFollowing ==
  ASSUME Inv, ModelsFollowTable, NEW id \in Ids, NEW k \in Keys, NEW grants, KeyWrite(id),
         InstallKey(id, k, grants)
  PROVE  ModelsFollowTable'
<1> DEFINE c == [keys |-> With(Nothing, id, k), table |-> table, rules |-> rules]
           n == Normalize(c)
<1>1. Valid(n) /\ keys' = With(keys, id, Resolved(n.keys[id], n.table)) /\ table' = n.table
  BY DEF InstallKey, Checked
<1>2. IsKeys(keys) /\ IsTable(table)
  BY DEF Inv, Typed
<1>3. IsKeys(c.keys) /\ IsTable(c.table) /\ DOMAIN c.keys = {id}
  BY <1>2 DEF With, Nothing, IsKeys
<1> HIDE DEF c
<1>4. /\ IsKeys(n.keys) /\ IsTable(n.table) /\ DOMAIN n.keys = {id} /\ Ordered(n.keys)
      /\ n.keys[id].models = <<>>
  BY <1>3, NormalizeType, NormalizeStrips
<1> DEFINE new == n.keys[id]
           tab == n.table
<1>5. /\ new \in Keys /\ new.refs \in Distinct(Aliases) /\ AliasesOf(new.refs) \subseteq DOMAIN tab
      /\ IsTable(tab) /\ LeadSomewhere(tab)
      /\ new.refs = <<>> => AliasesOf(new.models) = {}
  BY <1>1, <1>4, NoPairs DEF IsKeys, Ordered, Valid
<1>6. keys' = With(keys, id, Resolved(new, tab)) /\ table' = tab
  BY <1>1
<1> HIDE DEF n, new, tab
<1>7. Follows(Resolved(new, tab), tab)
  BY <1>5, ResolvedFollows
<1>8. /\ DOMAIN (keys') = DOMAIN keys \cup {id}
      /\ keys'[id] = Resolved(new, tab)
      /\ \A other \in DOMAIN keys \ {id} : keys'[other] = keys[other]
  BY <1>6 DEF With
<1>9. ASSUME NEW other \in DOMAIN keys \ {id} PROVE Follows(keys'[other], table')
  <2> DEFINE o == keys[other]
  <2>1. o \in Keys /\ Follows(o, table) /\ AliasesOf(o.refs) \subseteq DOMAIN table
    BY <1>2, AllFollow DEF IsKeys, Inv, RefsResolve
  <2>2. \A a \in DOMAIN table : /\ a \in DOMAIN tab
                                /\ tab[a].price = table[a].price
                                /\ IsPrefix(table[a].targets, tab[a].targets)
    BY <1>6, KeyWriteIsPrivate
  <2> HIDE DEF o
  <2>3. Extends(table, tab, AliasesOf(o.refs))
    BY <2>1, <2>2 DEF Extends
  <2>4. Follows(o, tab)
    BY <1>2, <1>5, <2>1, <2>3, FollowsMore
  <2> QED
    BY <1>6, <1>8, <2>4 DEF o
<1>10. \A x \in DOMAIN (keys') : Follows(keys'[x], table')
  BY <1>6, <1>7, <1>8, <1>9
<1> QED
  BY <1>10, AllFollowNext

LEMMA KeyWriteKeepsFollowing ==
  ASSUME Inv, ModelsFollowTable, NEW id \in Ids, KeyWrite(id)
  PROVE  ModelsFollowTable'
<1>1. (\E k \in Keys : \E grants : InstallKey(id, k, grants)) \/ UNCHANGED memory
  BY KeyWriteInstalls
<1>2. CASE \E k \in Keys : \E grants : InstallKey(id, k, grants)
  BY <1>2, InstallKeyKeepsFollowing
<1>3. CASE UNCHANGED memory
  BY <1>3, UnchangedFollows DEF memory
<1> QED
  BY <1>1, <1>2, <1>3

LEMMA NextFollows == Inv /\ ModelsFollowTable /\ [Next]_vars => ModelsFollowTable'
<1> SUFFICES ASSUME Inv, ModelsFollowTable, [Next]_vars PROVE ModelsFollowTable'
  OBVIOUS
<1>1. CASE EditTables
  BY <1>1, UpsertAliasKeepsFollowing, DeleteAliasKeepsFollowing DEF EditTables
<1>2. ASSUME UNCHANGED <<keys, table>> PROVE ModelsFollowTable'
  BY <1>2, UnchangedFollows
<1>3. CASE EditRules
  BY <1>2, <1>3 DEF EditRules, UpsertClassifyRule, DeleteClassifyRule, ReorderClassifyRules
<1>4. CASE EditKeys
  <2>1. PICK id \in Ids : \/ KeyWrite(id) \/ DeleteKey(id)
                          \/ \E p \in Patchers, body \in KeyBodies : PatchRead(p, id, body)
    BY <1>4 DEF EditKeys
  <2>2. CASE KeyWrite(id)
    BY <2>2, KeyWriteKeepsFollowing
  <2>3. CASE DeleteKey(id)
    <3>1. keys' = Without(keys, id) /\ UNCHANGED table
      BY <2>3 DEF DeleteKey
    <3>2. \A x \in DOMAIN (keys') : x \in DOMAIN keys /\ keys'[x] = keys[x]
      BY <3>1 DEF Without
    <3>3. \A x \in DOMAIN (keys') : Follows(keys'[x], table')
      BY <3>1, <3>2, AllFollow
    <3> QED
      BY <3>3, AllFollowNext
  <2>4. CASE \E p \in Patchers, body \in KeyBodies : PatchRead(p, id, body)
    BY <1>2, <2>4 DEF PatchRead, memory
  <2> QED
    BY <2>1, <2>2, <2>3, <2>4
<1>5. CASE FlushUsage
  BY <1>2, <1>5 DEF FlushUsage, memory
<1>6. CASE Crash
  <2>1. keys' = Nothing
    BY <1>6 DEF Crash
  <2>2. DOMAIN (keys') = {}
    BY <2>1, NothingType
  <2>3. \A x \in DOMAIN (keys') : Follows(keys'[x], table')
    BY <2>2
  <2> QED
    BY <2>3, AllFollowNext
<1>7. CASE \E c \in Configs : Configure(c)
  BY <1>7, ConfigureKeepsFollowing
<1>8. CASE UNCHANGED vars
  BY <1>2, <1>8 DEF vars, memory
<1> QED
  BY <1>1, <1>3, <1>4, <1>5, <1>6, <1>7, <1>8 DEF Next

\* What a key routes and bills by is what its references and the table say, for
\* each reference the alias's targets in the table's order and at the override's
\* or the table's price, but for targets that another key's models added since.
THEOREM KeysFollowTable == Spec => []ModelsFollowTable
<1>1. Init => ModelsFollowTable
  <2>1. Init => keys = Nothing
    BY DEF Init
  <2>2. keys = Nothing => DOMAIN keys = {}
    BY NothingType
  <2> QED
    BY <2>1, <2>2 DEF ModelsFollowTable
<1>2. Inv /\ ModelsFollowTable /\ [Next]_vars => ModelsFollowTable'
  BY NextFollows
<1> QED
  BY <1>1, <1>2, InvHolds, PTL DEF Spec
----------------------------------------------------------------------------
(***************************************************************************)
(* Types: what the invariant does not say of them.                         *)
(***************************************************************************)
Counted ==
    /\ edits \in 0..MaxEdits /\ ruleEdits \in 0..MaxRuleEdits
    /\ loads \in 0..MaxLoads /\ faults \in 0..MaxFaults

Rest ==
    /\ rules \in Seq(Rules)
    /\ file = NoFile \/ file.rules \in Seq(Rules)
    /\ up \in BOOLEAN /\ synced \in BOOLEAN
    /\ removed \in SUBSET (Aliases \X Targets)
    /\ Counted

LEMMA NextCounted == Counted /\ [Next]_vars => Counted'
<1> SUFFICES ASSUME Counted, [Next]_vars PROVE Counted'
  OBVIOUS
<1> USE BoundsAreNaturals DEF Counted
<1>1. ASSUME NEW grants, NEW revokes, Save(grants, revokes) PROVE faults' \in 0..MaxFaults
  BY <1>1 DEF Save
<1>2. CASE EditTables
  <2>1. PICK a \in Aliases : \/ DeleteAlias(a)
                            \/ \E ts \in AliasBodies, p \in Prices : UpsertAlias(a, ts, p)
    BY <1>2 DEF EditTables
  <2>2. CASE DeleteAlias(a)
    BY <1>1, <2>2 DEF DeleteAlias, Edit
  <2>3. CASE \E ts \in AliasBodies, p \in Prices : UpsertAlias(a, ts, p)
    BY <1>1, <2>3 DEF UpsertAlias, Edit
  <2> QED
    BY <2>1, <2>2, <2>3
<1>3. CASE EditRules
  <2>1. Save({}, {}) /\ RuleEdit /\ UNCHANGED <<edits, loads>>
    BY <1>3 DEF EditRules, UpsertClassifyRule, DeleteClassifyRule, ReorderClassifyRules
  <2>2. faults' \in 0..MaxFaults
    BY <1>1, <2>1
  <2> QED
    BY <2>1, <2>2 DEF RuleEdit
<1>4. CASE EditKeys
  <2>1. PICK id \in Ids : \/ KeyWrite(id) \/ DeleteKey(id)
                          \/ \E p \in Patchers, body \in KeyBodies : PatchRead(p, id, body)
    BY <1>4 DEF EditKeys
  <2>3. ASSUME NEW body \in KeyBodies, CreateKey(id, body) PROVE Counted'
    <3>1. PICK k, grants : InstallKey(id, k, grants)
      BY <2>3 DEF CreateKey
    <3>2. faults' \in 0..MaxFaults
      BY <1>1, <3>1 DEF InstallKey
    <3> QED
      BY <2>3, <3>2 DEF CreateKey, Edit
  <2>4. ASSUME NEW p \in Patchers, PatchWrite(p) PROVE Counted'
    <3>1. InstallKey(patch[p].id, patch[p].key, {}) \/ UNCHANGED faults
      BY <2>4 DEF PatchWrite
    <3>2. faults' \in 0..MaxFaults
      BY <1>1, <3>1 DEF InstallKey
    <3> QED
      BY <2>4, <3>2 DEF PatchWrite
  <2>5. CASE KeyWrite(id)
    BY <2>3, <2>4, <2>5 DEF KeyWrite
  <2>6. CASE DeleteKey(id)
    BY <1>1, <2>6 DEF DeleteKey, Edit
  <2>7. CASE \E p \in Patchers, body \in KeyBodies : PatchRead(p, id, body)
    BY <2>7 DEF PatchRead, Edit
  <2> QED
    BY <2>1, <2>5, <2>6, <2>7
<1>5. CASE FlushUsage \/ Crash
  BY <1>5 DEF FlushUsage, Crash, bounds
<1>6. CASE \E c \in Configs : Configure(c)
  <2>1. PICK c \in Configs : Configure(c)
    BY <1>6
  <2>2. \/ FirstBoot(c)
        \/ \E found \in Found : Reload(c, found) \/ ReloadRefused(c, found)
    BY <2>1 DEF Configure
  <2>3. faults' \in 0..MaxFaults
    BY <1>1, <2>2 DEF FirstBoot, Reload, ReloadRefused
  <2> QED
    BY <2>1, <2>3 DEF Configure
<1>7. CASE UNCHANGED vars
  BY <1>7 DEF vars, bounds
<1> QED
  BY <1>2, <1>3, <1>4, <1>5, <1>6, <1>7 DEF Next

\* An edit that ends with a write, but for the counters.
LEMMA EditTypes ==
  ASSUME Rest, Counted', rules' \in Seq(Rules), up' \in BOOLEAN,
         NEW grants, NEW revokes \in SUBSET (Aliases \X Targets), Save(grants, revokes)
  PROVE  Rest'
<1>1. CASE SaveState /\ synced' = TRUE /\ removed' = (removed \ grants) \cup (revokes \ Held)
  <2>1. file'.rules = rules'
    BY <1>1 DEF SaveState
  <2>2. removed' \in SUBSET (Aliases \X Targets)
    BY <1>1 DEF Rest
  <2> QED
    BY <1>1, <2>1, <2>2 DEF Rest
<1>2. CASE synced' = FALSE /\ removed' = removed \ grants /\ UNCHANGED file
  BY <1>2 DEF Rest
<1> QED
  BY <1>1, <1>2 DEF Save

LEMMA PairsType ==
  ASSUME NEW tab, IsTable(tab)
  PROVE  Pairs(tab) \in SUBSET (Aliases \X Targets)
BY DEF Pairs, IsTable

LEMMA EditRulesTypes ==
  ASSUME Rest, Counted', EditRules
  PROVE  Rest'
<1>1. up' = up /\ Save({}, {})
  BY DEF EditRules, UpsertClassifyRule, DeleteClassifyRule, ReorderClassifyRules
<1>2. rules \in Seq(Rules) /\ up \in BOOLEAN
  BY DEF Rest
<1>3. \A T : Kept(rules, T) \in Seq(Rules)
  BY <1>2, KeptType
<1>4. rules' \in Seq(Rules)
  <2>1. ASSUME NEW r \in Rules, UpsertClassifyRule(r) PROVE rules' \in Seq(Rules)
    <3>1. Append(rules, r) \in Seq(Rules)
      BY <1>2
    <3> QED
      BY <1>2, <2>1, <3>1 DEF UpsertClassifyRule
  <2>2. ASSUME NEW r \in Rules, DeleteClassifyRule(r) PROVE rules' \in Seq(Rules)
    BY <1>3, <2>2 DEF DeleteClassifyRule
  <2>3. ASSUME NEW names \in BoundedSeq(Rules, 2), ReorderClassifyRules(names) PROVE rules' \in Seq(Rules)
    <3>1. PICK n \in 0..2 : names \in [1..n -> Rules]
      BY DEF BoundedSeq, SeqOf
    <3>2. names \in Seq(Rules)
      BY <3>1, IsSequence
    <3>3. \A T : Kept(names, T) \in Seq(Rules)
      BY <3>2, KeptType
    <3>4. \E T, U : rules' = Kept(names, T) \o Kept(rules, U)
      BY <2>3 DEF ReorderClassifyRules, Reordered
    <3> QED
      BY <1>3, <3>3, <3>4
  <2> QED
    BY <2>1, <2>2, <2>3 DEF EditRules
<1> QED
  BY <1>1, <1>2, <1>4, EditTypes

LEMMA ConfigureTypes ==
  ASSUME Inv, Rest, Counted', NEW c \in Configs, Configure(c)
  PROVE  Rest'
<1>1. PICK found \in Found : \/ found = NoFile /\ FirstBoot(c)
                             \/ found # NoFile /\ Reload(c, found)
                             \/ found # NoFile /\ ReloadRefused(c, found)
  BY DEF Configure
<1>2. c.rules \in Seq(Rules)
  BY FilesAreTyped DEF IsTables
<1>3. Normalize(c).rules = c.rules
  BY NormalizeIs
<1>4. CASE FirstBoot(c)
  <2>1. rules' = c.rules /\ up' = TRUE /\ Save(Pairs(table'), {})
    BY <1>3, <1>4 DEF FirstBoot, Install
  <2> QED
    BY <1>2, <2>1, EditTypes
<1>5. ASSUME found # NoFile PROVE found.rules \in Seq(Rules)
  <2>1. CASE found = file
    BY <1>5, <2>1 DEF Rest
  <2>2. CASE found = WithUsage(file)
    <3>1. CASE file = NoFile
      BY <2>2, <3>1 DEF WithUsage
    <3>2. CASE file # NoFile
      <4>1. file = [keys |-> file.keys, table |-> file.table, rules |-> file.rules]
        BY <3>2 DEF Inv, Typed, IsFile
      <4>2. WithUsage(file).rules = file.rules
        BY <3>2, <4>1 DEF WithUsage
      <4> QED
        BY <2>2, <3>2, <4>2 DEF Rest
    <3> QED
      BY <3>1, <3>2
  <2> QED
    BY <2>1, <2>2 DEF Found
<1>6. CASE found # NoFile /\ Reload(c, found)
  <2> DEFINE m == Normalize(c)
             d == [keys |-> found.keys,
                   table |-> IF m.table = Nothing THEN found.table ELSE m.table,
                   rules |-> IF m.rules = <<>> THEN found.rules ELSE m.rules]
  <2>1. Loaded(c, found) = Normalize(d) /\ d.rules \in Seq(Rules)
    BY <1>2, <1>3, <1>5, <1>6 DEF Loaded
  <2> HIDE DEF d
  <2>2. Loaded(c, found).rules \in Seq(Rules)
    BY <2>1, NormalizeIs
  <2>3. /\ rules' = Loaded(c, found).rules /\ up' = TRUE /\ file' = found
        /\ synced' \in BOOLEAN
        /\ removed' \subseteq removed
    BY <1>6 DEF Reload, Install
  <2> QED
    BY <1>5, <1>6, <2>2, <2>3 DEF Rest
<1>7. CASE found # NoFile /\ ReloadRefused(c, found)
  <2>1. UNCHANGED <<rules, up, removed>> /\ file' = found /\ synced' \in BOOLEAN
    BY <1>7 DEF ReloadRefused, SyncedWith, memory, Rest
  <2> QED
    BY <1>5, <1>7, <2>1 DEF Rest
<1> QED
  BY <1>1, <1>4, <1>6, <1>7

LEMMA NextTypes == Inv /\ Rest /\ [Next]_vars => Rest'
<1> SUFFICES ASSUME Inv, Rest, [Next]_vars PROVE Rest'
  OBVIOUS
<1>1. Counted' /\ Inv'
  BY NextCounted, NextInv DEF Rest
<1>2. rules \in Seq(Rules) /\ up \in BOOLEAN /\ {} \in SUBSET (Aliases \X Targets)
  BY DEF Rest
<1>3. CASE EditTables
  <2>1. UNCHANGED <<rules, up>>
        /\ \E grants : Save(grants, Pairs(table) \ Pairs(table'))
    BY <1>3 DEF EditTables, UpsertAlias, DeleteAlias
  <2>2. Pairs(table) \ Pairs(table') \in SUBSET (Aliases \X Targets)
    BY PairsType DEF Inv, Typed
  <2> QED
    BY <1>1, <1>2, <2>1, <2>2, EditTypes
<1>4. CASE EditRules
  BY <1>1, <1>4, EditRulesTypes
<1>5. CASE EditKeys
  <2>1. PICK id \in Ids : \/ KeyWrite(id) \/ DeleteKey(id)
                          \/ \E p \in Patchers, body \in KeyBodies : PatchRead(p, id, body)
    BY <1>5 DEF EditKeys
  <2>2. ASSUME NEW k, NEW other, NEW grants, InstallKey(other, k, grants) PROVE Rest'
    <3>1. UNCHANGED <<rules, up>> /\ Save(grants, {})
      BY <2>2 DEF InstallKey
    <3> QED
      BY <1>1, <1>2, <3>1, EditTypes
  <2>3. CASE KeyWrite(id)
    <3>1. CASE \E body \in KeyBodies : CreateKey(id, body)
      BY <2>2, <3>1 DEF CreateKey
    <3>2. CASE \E p \in Patchers : PatchWrite(p)
      <4>1. PICK p \in Patchers : PatchWrite(p)
        BY <3>2
      <4>2. CASE InstallKey(patch[p].id, patch[p].key, {})
        BY <2>2, <4>2
      <4>3. CASE UNCHANGED <<memory, up, file, synced, removed, faults>>
        BY <1>1, <4>3 DEF Rest, memory
      <4> QED
        BY <4>1, <4>2, <4>3 DEF PatchWrite
    <3> QED
      BY <2>3, <3>1, <3>2 DEF KeyWrite
  <2>4. CASE DeleteKey(id)
    <3>1. UNCHANGED <<rules, up>> /\ Save({}, {})
      BY <2>4 DEF DeleteKey
    <3> QED
      BY <1>1, <1>2, <3>1, EditTypes
  <2>5. CASE \E p \in Patchers, body \in KeyBodies : PatchRead(p, id, body)
    <3>1. UNCHANGED <<rules, up, file, synced>> /\ removed' \subseteq removed
      BY <2>5 DEF PatchRead, memory
    <3> QED
      BY <1>1, <3>1 DEF Rest
  <2> QED
    BY <2>1, <2>3, <2>4, <2>5
<1>6. CASE FlushUsage
  <2>1. UNCHANGED <<rules, up, removed>> /\ file' = WithUsage(file) /\ synced' \in BOOLEAN
    BY <1>6 DEF FlushUsage, SyncedWith, memory, Rest
  <2>2. WithUsage(file).rules \in Seq(Rules)
    <3>1. CASE file = NoFile
      BY <3>1 DEF WithUsage
    <3>2. CASE file # NoFile
      <4>1. file = [keys |-> file.keys, table |-> file.table, rules |-> file.rules]
        BY <3>2 DEF Inv, Typed, IsFile
      <4>2. WithUsage(file).rules = file.rules
        BY <3>2, <4>1 DEF WithUsage
      <4> QED
        BY <3>2, <4>2 DEF Rest
    <3> QED
      BY <3>1, <3>2
  <2> QED
    BY <1>1, <2>1, <2>2 DEF Rest
<1>7. CASE Crash
  <2>1. rules' = <<>> /\ up' = FALSE /\ synced' = FALSE /\ UNCHANGED <<file, removed>>
    BY <1>7 DEF Crash
  <2>2. <<>> \in Seq(Rules)
    OBVIOUS
  <2>3. rules' \in Seq(Rules)
    BY <2>1, <2>2
  <2> QED
    BY <1>1, <2>1, <2>3 DEF Rest
<1>8. CASE \E c \in Configs : Configure(c)
  BY <1>1, <1>8, ConfigureTypes
<1>9. CASE UNCHANGED vars
  BY <1>1, <1>9 DEF vars, memory, Rest
<1> QED
  BY <1>3, <1>4, <1>5, <1>6, <1>7, <1>8, <1>9 DEF Next

\* Every variable has its type: what a migration, a promotion, a merge or a load
\* installs are keys, entries and rules again, and no bound is exceeded.
THEOREM TypeCorrect == Spec => []TypeOK
<1>1. Inv /\ Rest => TypeOK
  BY DEF Inv, Typed, Rest, Counted, TypeOK, IsTables, IsFile
<1>2. Init => Rest
  <2> SUFFICES ASSUME Init PROVE Rest
    OBVIOUS
  <2>1. file = NoFile \/ file.rules \in Seq(Rules)
    BY FilesAreTyped DEF Init, IsTables
  <2>2. Counted
    BY BoundsAreNaturals DEF Init, Counted
  <2>3. <<>> \in Seq(Rules)
    OBVIOUS
  <2>4. rules \in Seq(Rules) /\ up \in BOOLEAN /\ synced \in BOOLEAN /\ removed = {}
    BY <2>3 DEF Init
  <2> QED
    BY <2>1, <2>2, <2>4 DEF Rest
<1> QED
  BY <1>1, <1>2, NextTypes, InvHolds, PTL DEF Spec
=============================================================================
