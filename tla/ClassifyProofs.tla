--------------------------- MODULE ClassifyProofs ---------------------------
(***************************************************************************)
(* What Classify's run checks on a small instance, proved for all auth     *)
(* files, rules and candidates the host may send, for every number of      *)
(* requests and picks, and for every size of the cache.                    *)
(***************************************************************************)
EXTENDS Classify, ListProofs, FiniteSetTheorems, TLAPS

----------------------------------------------------------------------------
(***************************************************************************)
(* The classification of an auth file.                                     *)
(***************************************************************************)
\* What the cache is keyed by decides the groups, whatever the rules are.
LEMMA KeyDecides ==
  ASSUME NEW o, NEW c, CacheKey(o) = CacheKey(c), NEW R
  PROVE  CandidateGroups(o, R) = CandidateGroups(c, R)
<1>1. o.id = c.id /\ o.provider = c.provider /\ o.plan = c.plan /\ o.tier = c.tier
  BY DEF CacheKey
<1>2. ASSUME NEW r PROVE Matches(r, o) <=> Matches(r, c)
  BY <1>1 DEF Matches, FieldValue
<1>3. CustomGroups(o, R) = CustomGroups(c, R)
  BY <1>2 DEF CustomGroups
<1>4. BuiltInGroup(o) = BuiltInGroup(c)
  BY <1>1 DEF BuiltInGroup, PlanOrTier
<1> QED
  BY <1>3, <1>4 DEF CandidateGroups

\* The candidates of a call are finitely many, each with an id of its own.
LEMMA CandidatesOfCall ==
  ASSUME NEW list \in Candidates
  PROVE  /\ Members(list) \subseteq Offers /\ IsFiniteSet(Members(list))
         /\ \A c, d \in Members(list) :
                c.id \in Nat /\ c.priority \in Int /\ (c.id = d.id => c = d)
<1>1. list \in Seq(Offers) /\ \A i, j \in DOMAIN list : list[i].id = list[j].id => i = j
  BY OneOfEachFile
<1>2. Members(list) \subseteq Offers
  BY <1>1 DEF Members
<1>3. Len(list) \in Nat /\ DOMAIN list = 1..Len(list)
  BY <1>1
<1>4. [i \in 1..Len(list) |-> list[i]] \in Surjection(1..Len(list), Members(list))
  BY <1>3 DEF Surjection, Members
<1>5. IsFiniteSet(Members(list))
  BY <1>3, <1>4, FS_Interval, FS_Surjection
<1>6. \A c, d \in Members(list) : c.id = d.id => c = d
  BY <1>1 DEF Members
<1> QED
  BY <1>2, <1>5, <1>6, OffersAreRecords

\* Of some of the candidates of a call, one is better than all the others.
LEMMA OneIsBest ==
  ASSUME NEW list \in Candidates, NEW S \in SUBSET Members(list), S # {}
  PROVE  \E b \in S : /\ Best(S) = b
                      /\ (CHOOSE c \in S : \A d \in S : ~Better(d, c)) = b
<1> DEFINE Beaten(c) == {d \in S : Better(d, c)}
<1>1. \A c, d \in S : c.id \in Nat /\ c.priority \in Int /\ (c.id = d.id => c = d)
  BY CandidatesOfCall
<1>2. IsFiniteSet(S)
  BY CandidatesOfCall, FS_Subset
<1>3. ASSUME NEW c \in S
      PROVE  IsFiniteSet(Beaten(c)) /\ Cardinality(Beaten(c)) \in Nat
  BY <1>2, FS_Subset, FS_CardinalityType
<1> DEFINE Sizes == {Cardinality(Beaten(c)) : c \in S}
<1>4. PICK n \in Sizes : \A m \in Sizes : n <= m
  <2>1. Sizes \subseteq Nat /\ Sizes # {}
    BY <1>3
  <2> QED
    BY <2>1, Least
<1>5. PICK b \in S : n = Cardinality(Beaten(b))
  OBVIOUS
<1>6. ASSUME NEW d \in S, Better(d, b)
      PROVE  FALSE
  <2>1. Beaten(d) \subseteq Beaten(b)
    BY <1>1, <1>6 DEF Better
  <2>2. d \in Beaten(b) /\ d \notin Beaten(d)
    BY <1>1, <1>6 DEF Better
  <2> HIDE DEF Beaten
  <2>3. /\ Cardinality(Beaten(d)) <= Cardinality(Beaten(b))
        /\ Cardinality(Beaten(d)) # Cardinality(Beaten(b))
    BY <1>3, <2>1, <2>2, FS_Subset
  <2>4. Cardinality(Beaten(d)) < Cardinality(Beaten(b))
    BY <1>3, <2>3
  <2>5. Cardinality(Beaten(d)) \in Sizes
    OBVIOUS
  <2> QED
    BY <1>3, <1>4, <1>5, <2>4, <2>5
<1> HIDE DEF Sizes, Beaten
<1>7. ASSUME NEW c \in S, c # b
      PROVE  Better(b, c) /\ ~Better(c, b)
  <2>1. ~Better(c, b)
    BY <1>6
  <2>2. c.id \in Nat /\ b.id \in Nat /\ c.id # b.id /\ c.priority \in Int /\ b.priority \in Int
    BY <1>1, <1>7
  <2> QED
    BY <2>1, <2>2 DEF Better
<1>8. \A c \in S : (\A d \in S : d = c \/ Better(c, d)) <=> c = b
  BY <1>7
<1>9. \A c \in S : (\A d \in S : ~Better(d, c)) <=> c = b
  BY <1>6, <1>7
<1>10. Best(S) = b
  BY <1>8 DEF Best
<1>11. (CHOOSE c \in S : \A d \in S : ~Better(d, c)) = b
  BY <1>9
<1> QED
  BY <1>10, <1>11

----------------------------------------------------------------------------
(***************************************************************************)
(* The states of a pick.                                                   *)
(***************************************************************************)
\* What is read from the rules has its type in Shaped, below.
IsPick(k) ==
    k \in [pc : {"idle", "lookup", "classify", "store", "done"}, group : {k.group},
           cands : {Members(list) : list \in Candidates} \cup {{}}, todo : Seq(Offers),
           snap : {k.snap}, matched : SUBSET Offers,
           result : {None, NotFound, Delegated} \cup {o.id : o \in Offers},
           raced : BOOLEAN, steady : BOOLEAN, tainted : BOOLEAN]

\* The choice is among the candidates; the one being classified is usable.
InHand(k) ==
    /\ k.matched \cup Members(k.todo) \subseteq k.cands
    /\ k.pc \in {"classify", "store"} => k.todo # <<>> /\ Usable(Head(k.todo))

Typed ==
    /\ admin \in [Admins -> {"idle", "changed", "cleared"}]
    /\ host \in {"idle", "installed"}
    /\ cache = [key \in CacheKeys |-> cache[key]]
    /\ \A key \in CacheKeys : cache[key] # None => cache[key].raced \in BOOLEAN
    /\ picker = [p \in Pickers |-> picker[p]]
    /\ \A p \in Pickers : IsPick(picker[p]) /\ InHand(picker[p])

LEMMA IdleIsPick == IsPick(Idle) /\ InHand(Idle) /\ ~Idle.steady /\ Idle.pc = "idle"
BY DEF IsPick, Idle, InHand, Members

\* The three ways to change the rules.
ChangesRules ==
    \/ Configure
    \/ \E a \in Admins : \E new : SetRules(a, new)

LEMMA EditsChangeRules ==
  ASSUME NEW a \in Admins, Edit(a)
  PROVE  (\E new : SetRules(a, new)) \/ CallClassifyRulesChanged(a) \/ SaveRules(a)
<1>1. CASE UpsertClassifyRule(a)
  <2>1. \E new : NoDuplicates(new) /\ SetRules(a, new)
    BY <1>1, Zenon DEF UpsertClassifyRule
  <2> QED
    BY <2>1
<1>2. CASE DeleteClassifyRule(a)
  BY <1>2, Zenon DEF DeleteClassifyRule
<1>3. CASE ReorderClassifyRules(a)
  BY <1>3, Zenon DEF ReorderClassifyRules
<1> QED
  BY <1>1, <1>2, <1>3 DEF Edit

\* The steps of the specification, as the proofs below tell them apart.
LEMMA StepKinds ==
  ASSUME [Next]_vars
  PROVE  \/ ChangesRules
         \/ ClearClassifyCache \/ (\E a \in Admins : CallClassifyRulesChanged(a))
         \/ \E a \in Admins : SaveRules(a)
         \/ \E p \in Pickers : Pick(p)
         \/ UNCHANGED vars
BY EditsChangeRules, Zenon DEF Next, ChangesRules

LEMMA Overtakes ==
  ASSUME Typed, ChangesRules
  PROVE  /\ UNCHANGED cache /\ picker' = Overtaken
         /\ admin' \in [Admins -> {"idle", "changed", "cleared"}] /\ host' \in {"idle", "installed"}
         /\ ClearPending'
<1>1. CASE Configure
  BY <1>1 DEF Typed, Configure, ClearPending
<1>2. ASSUME NEW a \in Admins, NEW new, SetRules(a, new)
      PROVE  /\ UNCHANGED cache /\ picker' = Overtaken /\ UNCHANGED host
             /\ admin' = [admin EXCEPT ![a] = "changed"]
  BY <1>2 DEF SetRules, NextStepAfter
<1>3. ASSUME NEW a \in Admins, admin' = [admin EXCEPT ![a] = "changed"]
      PROVE  admin' \in [Admins -> {"idle", "changed", "cleared"}] /\ ClearPending'
  BY <1>3 DEF Typed, ClearPending
<1> QED
  BY <1>1, <1>2, <1>3 DEF ChangesRules, Typed

\* A pick whose rules are overtaken is where it was.
LEMMA OvertakenPick ==
  ASSUME Typed, picker' = Overtaken
  PROVE  /\ picker' = [p \in Pickers |-> picker'[p]]
         /\ \A p \in Pickers : /\ IsPick(picker'[p]) /\ InHand(picker'[p])
                               /\ ~picker'[p].steady
                               /\ picker'[p].snap = picker[p].snap
                               /\ picker'[p].pc = picker[p].pc
                               /\ picker'[p].raced = (picker[p].pc = "store")
<1>1. picker' = [p \in Pickers |-> picker'[p]]
  BY DEF Overtaken
<1>2. ASSUME NEW p \in Pickers
      PROVE  /\ IsPick(picker'[p]) /\ InHand(picker'[p])
             /\ ~picker'[p].steady /\ picker'[p].snap = picker[p].snap
             /\ picker'[p].pc = picker[p].pc
             /\ picker'[p].raced = (picker[p].pc = "store")
  <2> DEFINE k == picker[p]
  <2>1. picker'[p] = [k EXCEPT !.raced = k.pc = "store", !.steady = FALSE]
    BY DEF Overtaken
  <2>2. IsPick(k) /\ InHand(k)
    BY DEF Typed
  <2> HIDE DEF k
  <2>3. PICK s : s = [k EXCEPT !.raced = k.pc = "store", !.steady = FALSE]
    OBVIOUS
  <2>4. /\ s.pc = k.pc /\ s.todo = k.todo /\ s.raced = (k.pc = "store") /\ s.steady = FALSE
        /\ s.group = k.group /\ s.cands = k.cands /\ s.snap = k.snap /\ s.matched = k.matched
        /\ s.result = k.result /\ s.tainted = k.tainted
    BY <2>2, <2>3 DEF IsPick
  <2>5. IsPick(s)
    BY <2>2, <2>3, <2>4 DEF IsPick
  <2>6. InHand(s)
    BY <2>2, <2>4 DEF InHand
  <2> QED
    BY <2>1, <2>3, <2>4, <2>5, <2>6 DEF k
<1> QED
  BY <1>1, <1>2

LEMMA HeadAndTail ==
  ASSUME NEW s \in Seq(Offers), s # <<>>
  PROVE  /\ Head(s) \in Offers /\ Tail(s) \in Seq(Offers)
         /\ Members(s) = {Head(s)} \cup Members(Tail(s))
<1>1. /\ Head(s) = s[1] /\ Len(s) \in Nat /\ Len(s) >= 1 /\ DOMAIN s = 1..Len(s)
      /\ Head(s) \in Offers /\ Tail(s) \in Seq(Offers)
      /\ Len(Tail(s)) = Len(s) - 1 /\ DOMAIN Tail(s) = 1..(Len(s) - 1)
      /\ \A i \in 1..(Len(s) - 1) : Tail(s)[i] = s[i + 1]
  OBVIOUS
<1>2. ASSUME NEW i \in DOMAIN s
      PROVE  s[i] = Head(s) \/ s[i] \in Members(Tail(s))
  <2>1. CASE i = 1
    BY <1>1, <2>1
  <2>2. CASE i # 1
    <3>1. i - 1 \in DOMAIN Tail(s) /\ Tail(s)[i - 1] = s[i]
      BY <1>1, <2>2
    <3> QED
      BY <3>1 DEF Members
  <2> QED
    BY <2>1, <2>2
<1>3. ASSUME NEW i \in DOMAIN Tail(s)
      PROVE  Tail(s)[i] \in Members(s)
  <2>1. i + 1 \in DOMAIN s /\ Tail(s)[i] = s[i + 1]
    BY <1>1
  <2> QED
    BY <2>1 DEF Members
<1>4. Head(s) \in Members(s)
  BY <1>1 DEF Members
<1> QED
  BY <1>1, <1>2, <1>3, <1>4 DEF Members

\* The usable candidates of a pick's group, under the rules R.
Own(k, R) == {c \in k.cands : c.usable /\ k.group \in CandidateGroups(c, R)}

\* While the rules R stay and no raced entry is met, a pick finds among the
\* candidates it has seen those of its group, and takes the best of them.
Right(k, R) ==
    /\ k.pc = "store" /\ ~k.raced => k.snap = R
    /\ k.steady => ~k.raced
    /\ k.steady /\ ~k.tainted /\ k.pc \in {"lookup", "classify", "store"} =>
           k.matched \subseteq Own(k, R) /\ Own(k, R) \subseteq k.matched \cup Members(k.todo)
    /\ k.steady /\ ~k.tainted /\ k.pc = "done" => k.result = Outcome(Own(k, R))

Quiet == \A p \in Pickers : picker[p].steady => ~ClearPending

Inv == /\ Typed /\ StaleOnlyByRace /\ Quiet
       /\ \A p \in Pickers : Right(picker[p], Members(rules))

\* What a step of one pick leaves alone.
Alone(p, s) ==
    /\ picker' = [picker EXCEPT ![p] = s]
    /\ UNCHANGED <<rules, admin, host>>

LEMMA PickAdvances ==
  ASSUME Inv, NEW p \in Pickers, NEW s, Alone(p, s),
         IsPick(s), InHand(s), Right(s, Members(rules)), s.steady => ~ClearPending
  PROVE  /\ admin' \in [Admins -> {"idle", "changed", "cleared"}] /\ host' \in {"idle", "installed"}
         /\ picker' = [q \in Pickers |-> picker'[q]]
         /\ \A q \in Pickers : IsPick(picker'[q]) /\ InHand(picker'[q])
         /\ \A q \in Pickers : Right(picker'[q], Members(rules'))
         /\ Quiet' /\ (ClearPending' <=> ClearPending)
<1>1. /\ picker' = [q \in Pickers |-> IF q = p THEN s ELSE picker[q]]
      /\ UNCHANGED <<rules, admin, host>>
  BY DEF Inv, Typed, Alone
<1>2. ClearPending' <=> ClearPending
  BY <1>1 DEF ClearPending
<1>3. \A q \in Pickers : /\ IsPick(picker'[q]) /\ InHand(picker'[q])
                         /\ Right(picker'[q], Members(rules'))
                         /\ picker'[q].steady => ~ClearPending
  BY <1>1 DEF Inv, Typed, Quiet
<1>4. Quiet'
  BY <1>2, <1>3 DEF Quiet
<1> QED
  BY <1>1, <1>2, <1>3, <1>4 DEF Inv, Typed

\* The same when the cache stays as it is.
LEMMA PickKeeps ==
  ASSUME Inv, NEW p \in Pickers, NEW s, Alone(p, s), UNCHANGED cache,
         IsPick(s), InHand(s), Right(s, Members(rules)), s.steady => ~ClearPending
  PROVE  Inv'
<1>1. /\ admin' \in [Admins -> {"idle", "changed", "cleared"}] /\ host' \in {"idle", "installed"}
      /\ picker' = [q \in Pickers |-> picker'[q]]
      /\ \A q \in Pickers : IsPick(picker'[q]) /\ InHand(picker'[q])
      /\ \A q \in Pickers : Right(picker'[q], Members(rules'))
      /\ Quiet' /\ (ClearPending' <=> ClearPending)
  BY PickAdvances
<1>2. Typed'
  BY <1>1 DEF Inv, Typed
<1>3. StaleOnlyByRace'
  BY <1>1 DEF Inv, StaleOnlyByRace, Alone
<1> QED
  BY <1>1, <1>2, <1>3 DEF Inv

----------------------------------------------------------------------------
(***************************************************************************)
(* The steps of a pick.                                                    *)
(***************************************************************************)
LEMMA Begins ==
  ASSUME Inv, NEW p \in Pickers, PickScheduler(p)
  PROVE  Inv'
<1>1. PICK list \in Candidates, g \in Pinned :
        picker' = [picker EXCEPT ![p] =
               IF g = NoGroup \/ list = <<>>
               THEN [Idle EXCEPT !.pc = "done", !.result = Delegated]
               ELSE [Idle EXCEPT !.pc = "lookup", !.group = g, !.cands = Members(list),
                                 !.todo = list, !.steady = ~ClearPending]]
  BY DEF PickScheduler
<1>2. UNCHANGED <<rules, admin, host, cache>>
  BY DEF PickScheduler
<1>3. CASE g = NoGroup \/ list = <<>>
  <2> DEFINE s == [Idle EXCEPT !.pc = "done", !.result = Delegated]
  <2>1. s.pc = "done" /\ ~s.steady /\ s.matched = {} /\ s.todo = <<>> /\ s.cands = {}
    BY DEF Idle
  <2>2. IsPick(s)
    <3>1. IsPick(Idle)
      BY IdleIsPick
    <3> QED
      BY <3>1 DEF IsPick
  <2>3. picker' = [picker EXCEPT ![p] = s]
    BY <1>1, <1>3
  <2> HIDE DEF s
  <2>4. InHand(s)
    BY <2>1 DEF InHand, Members
  <2> QED
    BY <1>2, <2>1, <2>2, <2>3, <2>4, PickKeeps DEF Alone, Right
<1>4. CASE ~(g = NoGroup \/ list = <<>>)
  <2>1. PICK b \in BOOLEAN : b = ~ClearPending
    OBVIOUS
  <2> DEFINE s == [Idle EXCEPT !.pc = "lookup", !.group = g, !.cands = Members(list),
                               !.todo = list, !.steady = b]
  <2>2. picker' = [picker EXCEPT ![p] = s]
    BY <1>1, <1>4, <2>1
  <2>3. list \in Seq(Offers)
    BY OneOfEachFile
  <2>4. /\ s.pc = "lookup" /\ s.cands = Members(list) /\ s.todo = list
        /\ s.matched = {} /\ s.steady = b /\ s.raced = FALSE
    BY DEF Idle
  <2>5. IsPick(s)
    BY <2>3 DEF Idle, IsPick
  <2> HIDE DEF s
  <2>6. InHand(s)
    BY <2>4 DEF InHand
  <2>7. Right(s, Members(rules))
    BY <2>4 DEF Right, Own
  <2>8. s.steady => ~ClearPending
    BY <2>1, <2>4
  <2> QED
    BY <1>2, <2>2, <2>5, <2>6, <2>7, <2>8, PickKeeps DEF Alone
<1> QED
  BY <1>3, <1>4

\* A candidate that is not usable is none of the pick's own.
LEMMA Skips ==
  ASSUME Inv, NEW p \in Pickers, Skip(p)
  PROVE  Inv'
<1> DEFINE k == picker[p]
<1> DEFINE s == [k EXCEPT !.todo = Tail(k.todo)]
<1>1. /\ IsPick(k) /\ InHand(k) /\ Right(k, Members(rules)) /\ (k.steady => ~ClearPending)
  BY DEF Inv, Typed, Quiet
<1>2. k.pc = "lookup" /\ k.todo # <<>> /\ ~Usable(Head(k.todo))
  BY DEF Skip
<1>3. picker' = [picker EXCEPT ![p] = s] /\ UNCHANGED <<rules, admin, host, cache>>
  BY DEF Skip, Inv, Typed
<1> HIDE DEF k
<1>4. k.todo \in Seq(Offers)
  BY <1>1 DEF IsPick
<1>5. /\ Head(k.todo) \in Offers /\ Tail(k.todo) \in Seq(Offers)
      /\ Members(k.todo) = {Head(k.todo)} \cup Members(Tail(k.todo))
  BY <1>2, <1>4, HeadAndTail
<1>6. /\ s.pc = k.pc /\ s.group = k.group /\ s.cands = k.cands /\ s.todo = Tail(k.todo)
      /\ s.snap = k.snap /\ s.matched = k.matched /\ s.result = k.result
      /\ s.raced = k.raced /\ s.steady = k.steady /\ s.tainted = k.tainted
  BY <1>1 DEF IsPick
<1>7. IsPick(s)
  BY <1>1, <1>5 DEF IsPick
<1> HIDE DEF s
<1>8. InHand(s)
  BY <1>1, <1>2, <1>5, <1>6 DEF InHand
<1>9. Own(s, Members(rules)) = Own(k, Members(rules)) /\ Head(k.todo) \notin Own(k, Members(rules))
  BY <1>2, <1>6 DEF Own, Usable
<1>10. Right(s, Members(rules))
  BY <1>1, <1>2, <1>5, <1>6, <1>9 DEF Right
<1> QED
  BY <1>1, <1>3, <1>6, <1>7, <1>8, <1>10, PickKeeps DEF Alone

\* The next candidate is accepted for its groups, which are those of the rules
\* unless the pick is tainted.
LEMMA ClassifiedRight ==
  ASSUME Inv, NEW p \in Pickers, NEW groups, NEW taint \in BOOLEAN, NEW s,
         picker[p].todo # <<>>, Usable(Head(picker[p].todo)),
         picker[p].pc \in {"lookup", "store"},
         s = [Classified(p, groups) EXCEPT !.tainted = taint],
         picker[p].tainted => taint,
         picker[p].steady /\ ~taint => groups = CandidateGroups(Head(picker[p].todo), Members(rules))
  PROVE  /\ IsPick(s) /\ InHand(s) /\ Right(s, Members(rules)) /\ (s.steady => ~ClearPending)
<1> DEFINE k == picker[p]
<1> DEFINE more == IF k.group \in groups THEN k.matched \cup {Head(k.todo)} ELSE k.matched
<1>1. /\ IsPick(k) /\ InHand(k) /\ Right(k, Members(rules)) /\ (k.steady => ~ClearPending)
  BY DEF Inv, Typed, Quiet
<1>2. s = [[k EXCEPT !.pc = "lookup", !.todo = Tail(k.todo), !.snap = {}, !.raced = FALSE,
                     !.matched = more] EXCEPT !.tainted = taint]
  BY <1>1 DEF Classified, IsPick
<1> HIDE DEF k
<1>4. k.todo \in Seq(Offers) /\ k.todo # <<>> /\ Usable(Head(k.todo))
  BY <1>1 DEF IsPick, k
<1>5. /\ Head(k.todo) \in Offers /\ Tail(k.todo) \in Seq(Offers)
      /\ Members(k.todo) = {Head(k.todo)} \cup Members(Tail(k.todo))
  BY <1>4, HeadAndTail
<1>6. more \subseteq k.cands /\ more \subseteq Offers
  BY <1>1, <1>5 DEF InHand, IsPick
<1> HIDE DEF more
<1>7. /\ s.pc = "lookup" /\ s.group = k.group /\ s.cands = k.cands /\ s.todo = Tail(k.todo)
      /\ s.snap = {} /\ s.matched = more /\ s.result = k.result
      /\ s.raced = FALSE /\ s.steady = k.steady /\ s.tainted = taint
  BY <1>1, <1>2 DEF IsPick
<1>8. IsPick(s)
  BY <1>1, <1>2, <1>5, <1>6 DEF IsPick
<1>9. InHand(s)
  BY <1>1, <1>5, <1>6, <1>7 DEF InHand
<1>10. ASSUME k.steady, ~taint
       PROVE  /\ more \subseteq Own(s, Members(rules))
              /\ Own(s, Members(rules)) \subseteq more \cup Members(Tail(k.todo))
  <2>1. Own(s, Members(rules)) = Own(k, Members(rules))
    BY <1>7 DEF Own
  <2>2. /\ k.matched \subseteq Own(k, Members(rules))
        /\ Own(k, Members(rules)) \subseteq k.matched \cup Members(k.todo)
    BY <1>1, <1>10 DEF Right, k
  <2>3. Head(k.todo) \in k.cands /\ Head(k.todo).usable
    BY <1>1, <1>4, <1>5 DEF InHand, Usable
  <2>4. groups = CandidateGroups(Head(k.todo), Members(rules))
    BY <1>10 DEF k
  <2>5. Head(k.todo) \in Own(k, Members(rules)) <=> k.group \in groups
    BY <2>3, <2>4 DEF Own
  <2> QED
    BY <1>5, <2>1, <2>2, <2>5 DEF more
<1>11. Right(s, Members(rules))
  BY <1>7, <1>10 DEF Right
<1> QED
  BY <1>1, <1>7, <1>8, <1>9, <1>11

\* What a cached entry says is what the rules say, unless it is raced.
LEMMA Looks ==
  ASSUME Inv, NEW p \in Pickers, Lookup(p)
  PROVE  Inv'
<1> DEFINE k == picker[p]
<1> DEFINE c == Head(k.todo)
<1> DEFINE e == cache[CacheKey(c)]
<1>1. /\ IsPick(k) /\ InHand(k) /\ Right(k, Members(rules)) /\ (k.steady => ~ClearPending)
  BY DEF Inv, Typed, Quiet
<1>2. k.pc = "lookup" /\ k.todo # <<>> /\ Usable(c)
  BY DEF Lookup
<1>3. UNCHANGED <<rules, admin, host, cache>>
  BY DEF Lookup
<1>4. CASE e = None
  <2> DEFINE s == [k EXCEPT !.pc = "classify"]
  <2>1. picker' = [picker EXCEPT ![p] = s]
    BY <1>4 DEF Lookup
  <2> HIDE DEF c, k
  <2>2. /\ s.pc = "classify" /\ s.group = k.group /\ s.cands = k.cands /\ s.todo = k.todo
        /\ s.snap = k.snap /\ s.matched = k.matched /\ s.result = k.result
        /\ s.raced = k.raced /\ s.steady = k.steady /\ s.tainted = k.tainted
    BY <1>1 DEF IsPick
  <2>3. IsPick(s)
    BY <1>1 DEF IsPick
  <2> HIDE DEF s
  <2>4. InHand(s)
    BY <1>1, <1>2, <2>2 DEF InHand, c
  <2>5. Own(s, Members(rules)) = Own(k, Members(rules))
    BY <2>2 DEF Own
  <2>6. Right(s, Members(rules))
    BY <1>1, <1>2, <2>2, <2>5 DEF Right
  <2> QED
    BY <1>1, <1>3, <2>1, <2>2, <2>3, <2>4, <2>6, PickKeeps DEF Alone
<1>5. CASE e # None
  <2>1. k.todo \in Seq(Offers)
    BY <1>1 DEF IsPick
  <2> HIDE DEF k
  <2>2. c \in Offers
    BY <1>2, <2>1, HeadAndTail
  <2> HIDE DEF c
  <2>3. CacheKey(c) \in CacheKeys
    BY <2>2 DEF CacheKeys
  <2>4. e.raced \in BOOLEAN /\ k.tainted \in BOOLEAN
    BY <1>1, <1>5, <2>3 DEF Inv, Typed, IsPick
  <2>5. ~ClearPending => e.raced \/ e.groups = CandidateGroups(c, Members(rules))
    BY <1>5, <2>2 DEF Inv, StaleOnlyByRace
  <2> HIDE DEF e
  <2>6. PICK taint \in BOOLEAN : taint = (k.tainted \/ e.raced)
    BY <2>4
  <2>7. PICK groups : groups = e.groups
    OBVIOUS
  <2> DEFINE s == [Classified(p, groups) EXCEPT !.tainted = taint]
  <2>8. picker' = [picker EXCEPT ![p] = [Classified(p, e.groups) EXCEPT !.tainted = @ \/ e.raced]]
    BY <1>5 DEF Lookup, e, c, k
  <2>9. Classified(p, e.groups).tainted = k.tainted
    BY <1>1 DEF Classified, IsPick, k
  <2>10. picker' = [picker EXCEPT ![p] = s]
    BY <2>6, <2>7, <2>8, <2>9
  <2>11. k.steady /\ ~taint => groups = CandidateGroups(c, Members(rules))
    BY <1>1, <2>5, <2>6, <2>7
  <2>12. k.tainted => taint
    BY <2>6
  <2> HIDE DEF s
  <2>13. s = [Classified(p, groups) EXCEPT !.tainted = taint]
    BY DEF s
  <2>14. IsPick(s) /\ InHand(s) /\ Right(s, Members(rules)) /\ (s.steady => ~ClearPending)
    BY <1>2, <2>11, <2>12, <2>13, ClassifiedRight DEF k, c
  <2> QED
    BY <1>3, <2>10, <2>14, PickKeeps DEF Alone
<1> QED
  BY <1>4, <1>5

LEMMA Snapshots ==
  ASSUME Inv, NEW p \in Pickers, SnapshotRules(p)
  PROVE  Inv'
<1> DEFINE k == picker[p]
<1> DEFINE R == Members(rules)
<1> DEFINE s == [k EXCEPT !.pc = "store", !.snap = R]
<1>1. /\ IsPick(k) /\ InHand(k) /\ Right(k, R) /\ (k.steady => ~ClearPending)
  BY DEF Inv, Typed, Quiet
<1>2. k.pc = "classify" /\ UNCHANGED <<rules, admin, host, cache>>
  BY DEF SnapshotRules
<1>3. picker' = [picker EXCEPT ![p] = s]
  BY DEF SnapshotRules, Inv, Typed
<1> HIDE DEF k, R
<1>4. /\ s.pc = "store" /\ s.group = k.group /\ s.cands = k.cands /\ s.todo = k.todo
      /\ s.snap = R /\ s.matched = k.matched /\ s.result = k.result
      /\ s.raced = k.raced /\ s.steady = k.steady /\ s.tainted = k.tainted
  BY <1>1 DEF IsPick
<1>5. IsPick(s)
  BY <1>1 DEF IsPick
<1> HIDE DEF s
<1>6. InHand(s)
  BY <1>1, <1>2, <1>4 DEF InHand
<1>7. Own(s, R) = Own(k, R)
  BY <1>4 DEF Own
<1>8. Right(s, R)
  BY <1>1, <1>2, <1>4, <1>7 DEF Right
<1> QED
  BY <1>1, <1>2, <1>3, <1>4, <1>5, <1>6, <1>8, PickKeeps DEF Alone, R

\* A pick stores what the rules say, or it is raced and its entry with it.
LEMMA Stores ==
  ASSUME Inv, NEW p \in Pickers, StoreGroups(p)
  PROVE  Inv'
<1> DEFINE k == picker[p]
<1> DEFINE c == Head(k.todo)
<1> DEFINE kept == IF Full THEN EmptyCache ELSE cache
<1>1. /\ IsPick(k) /\ InHand(k) /\ Right(k, Members(rules)) /\ (k.steady => ~ClearPending)
  BY DEF Inv, Typed, Quiet
<1>2. k.pc = "store" /\ UNCHANGED <<rules, admin, host>>
  BY DEF StoreGroups
<1>3. k.todo # <<>> /\ Usable(c) /\ k.tainted \in BOOLEAN /\ k.raced \in BOOLEAN
  BY <1>1, <1>2 DEF InHand, IsPick
<1>4. PICK groups : groups = CandidateGroups(c, k.snap)
  OBVIOUS
<1>5. picker' = [picker EXCEPT ![p] = Classified(p, groups)]
  BY <1>4 DEF StoreGroups
<1>6. cache' = [kept EXCEPT ![CacheKey(c)] = [groups |-> groups, raced |-> k.raced]]
  BY <1>4 DEF StoreGroups
<1>7. ~k.raced => groups = CandidateGroups(c, Members(rules))
  BY <1>1, <1>2, <1>4 DEF Right
<1> HIDE DEF c
<1>8. [Classified(p, groups) EXCEPT !.tainted = k.tainted] = Classified(p, groups)
  BY <1>1 DEF Classified, IsPick
<1>9. PICK s : s = Classified(p, groups)
  OBVIOUS
<1>10. IsPick(s) /\ InHand(s) /\ Right(s, Members(rules)) /\ (s.steady => ~ClearPending)
  <2>1. k.steady /\ ~k.tainted => groups = CandidateGroups(c, Members(rules))
    BY <1>1, <1>7 DEF Right
  <2>2. PICK taint \in BOOLEAN : taint = k.tainted
    BY <1>3
  <2>3. s = [Classified(p, groups) EXCEPT !.tainted = taint]
    BY <1>8, <1>9, <2>2
  <2> QED
    BY <1>2, <1>3, <2>1, <2>2, <2>3, ClassifiedRight DEF c
<1> HIDE DEF k
<1>11. Alone(p, s)
  BY <1>2, <1>5, <1>9 DEF Alone
<1>12. /\ admin' \in [Admins -> {"idle", "changed", "cleared"}] /\ host' \in {"idle", "installed"}
       /\ picker' = [q \in Pickers |-> picker'[q]]
       /\ \A q \in Pickers : IsPick(picker'[q]) /\ InHand(picker'[q])
       /\ \A q \in Pickers : Right(picker'[q], Members(rules'))
       /\ Quiet' /\ (ClearPending' <=> ClearPending)
  BY <1>10, <1>11, PickAdvances
<1>13. /\ kept = [key \in CacheKeys |-> kept[key]]
       /\ \A key \in CacheKeys : kept[key] = None \/ kept[key] = cache[key]
  BY DEF Inv, Typed, EmptyCache
<1> HIDE DEF kept
<1>14. cache' = [key \in CacheKeys |-> IF key = CacheKey(c)
                                       THEN [groups |-> groups, raced |-> k.raced] ELSE kept[key]]
  BY <1>6, <1>13
<1>15. \A key \in CacheKeys : cache'[key] # None => cache'[key].raced \in BOOLEAN
  BY <1>3, <1>13, <1>14 DEF Inv, Typed
<1>16. Typed'
  BY <1>12, <1>14, <1>15 DEF Typed
<1>17. ASSUME ~ClearPending, NEW o \in Offers, cache'[CacheKey(o)] # None
       PROVE  cache'[CacheKey(o)].raced
              \/ cache'[CacheKey(o)].groups = CandidateGroups(o, Members(rules))
  <2>1. CacheKey(o) \in CacheKeys
    BY DEF CacheKeys
  <2>2. CASE CacheKey(o) = CacheKey(c)
    <3>1. cache'[CacheKey(o)] = [groups |-> groups, raced |-> k.raced]
      BY <1>14, <2>1, <2>2
    <3>2. CandidateGroups(o, Members(rules)) = CandidateGroups(c, Members(rules))
      BY <2>2, KeyDecides
    <3> QED
      BY <1>7, <3>1, <3>2
  <2>3. CASE CacheKey(o) # CacheKey(c)
    BY <1>13, <1>14, <1>17, <2>1, <2>3 DEF Inv, StaleOnlyByRace
  <2> QED
    BY <2>2, <2>3
<1>18. StaleOnlyByRace'
  BY <1>2, <1>12, <1>17 DEF StaleOnlyByRace
<1> QED
  BY <1>12, <1>16, <1>18 DEF Inv

\* When all candidates were seen, those that match are the pick's own.
LEMMA Chooses ==
  ASSUME Inv, NEW p \in Pickers, Choose(p)
  PROVE  Inv'
<1> DEFINE k == picker[p]
<1>1. /\ IsPick(k) /\ InHand(k) /\ Right(k, Members(rules)) /\ (k.steady => ~ClearPending)
  BY DEF Inv, Typed, Quiet
<1>2. k.pc = "lookup" /\ k.todo = <<>> /\ UNCHANGED <<rules, admin, host, cache>>
  BY DEF Choose
<1>3. PICK r : r = Outcome(k.matched)
  OBVIOUS
<1> DEFINE s == [k EXCEPT !.pc = "done", !.matched = {}, !.result = r]
<1>4. picker' = [picker EXCEPT ![p] = s]
  BY <1>3 DEF Choose, Inv, Typed
<1> HIDE DEF k
<1>5. r \in {NotFound} \cup {o.id : o \in Offers}
  <2>1. CASE k.matched = {}
    BY <1>3, <2>1 DEF Outcome
  <2>2. CASE k.matched # {}
    <3>1. k.cands \in {Members(list) : list \in Candidates} \cup {{}}
      BY <1>1 DEF IsPick
    <3>2. k.matched \subseteq k.cands /\ k.matched \subseteq Offers
      BY <1>1 DEF InHand, IsPick
    <3>3. PICK list \in Candidates : k.cands = Members(list)
      BY <2>2, <3>1, <3>2
    <3>4. PICK b \in k.matched : Best(k.matched) = b
      BY <2>2, <3>2, <3>3, OneIsBest
    <3> QED
      BY <1>3, <2>2, <3>2, <3>4 DEF Outcome
  <2> QED
    BY <2>1, <2>2
<1>6. /\ s.pc = "done" /\ s.group = k.group /\ s.cands = k.cands /\ s.todo = <<>>
      /\ s.snap = k.snap /\ s.matched = {} /\ s.result = r
      /\ s.raced = k.raced /\ s.steady = k.steady /\ s.tainted = k.tainted
  BY <1>1, <1>2 DEF IsPick
<1>7. IsPick(s)
  BY <1>1, <1>5 DEF IsPick
<1> HIDE DEF s
<1>8. InHand(s)
  BY <1>6 DEF InHand, Members
<1>9. Own(s, Members(rules)) = Own(k, Members(rules))
  BY <1>6 DEF Own
<1>10. k.steady /\ ~k.tainted => k.matched = Own(k, Members(rules))
  <2>1. Members(k.todo) = {}
    BY <1>2 DEF Members
  <2>2. k.steady /\ ~k.tainted =>
            k.matched \subseteq Own(k, Members(rules)) /\ Own(k, Members(rules)) \subseteq k.matched \cup {}
    BY <1>1, <1>2, <2>1 DEF Right
  <2> QED
    BY <2>2
<1>11. Right(s, Members(rules))
  BY <1>1, <1>3, <1>6, <1>9, <1>10 DEF Right
<1> QED
  BY <1>1, <1>2, <1>4, <1>6, <1>7, <1>8, <1>11, PickKeeps DEF Alone

----------------------------------------------------------------------------
(***************************************************************************)
(* The other steps, and the invariant.                                     *)
(***************************************************************************)
LEMMA Starts ==
  ASSUME Init
  PROVE  Inv
<1>1. \A p \in Pickers : picker[p] = Idle
  BY DEF Init
<1>2. Typed
  BY <1>1, IdleIsPick DEF Init, Typed
<1>3. StaleOnlyByRace
  BY DEF Init, StaleOnlyByRace, CacheKeys
<1>4. Idle.steady = FALSE /\ Idle.pc = "idle"
  BY DEF Idle
<1>5. Quiet /\ \A p \in Pickers : Right(picker[p], Members(rules))
  BY <1>1, <1>4 DEF Quiet, Right
<1> QED
  BY <1>2, <1>3, <1>5 DEF Inv

\* New rules make the picks that hold old ones raced, and none is steady.
LEMMA ChangesKeep ==
  ASSUME Inv, ChangesRules
  PROVE  Inv'
<1>1. /\ UNCHANGED cache /\ picker' = Overtaken
      /\ admin' \in [Admins -> {"idle", "changed", "cleared"}] /\ host' \in {"idle", "installed"}
      /\ ClearPending'
  BY Overtakes DEF Inv
<1>2. /\ picker' = [p \in Pickers |-> picker'[p]]
      /\ \A p \in Pickers : /\ IsPick(picker'[p]) /\ InHand(picker'[p])
                            /\ ~picker'[p].steady
                            /\ picker'[p].pc = picker[p].pc
                            /\ picker'[p].raced = (picker[p].pc = "store")
  BY <1>1, OvertakenPick DEF Inv
<1>3. Typed'
  BY <1>1, <1>2 DEF Inv, Typed
<1>4. StaleOnlyByRace'
  BY <1>1 DEF StaleOnlyByRace
<1>5. Quiet'
  BY <1>2 DEF Quiet
<1>6. \A p \in Pickers : Right(picker'[p], Members(rules'))
  BY <1>2 DEF Right
<1> QED
  BY <1>3, <1>4, <1>5, <1>6 DEF Inv

\* An empty cache is not stale, and what was pending may be over.
LEMMA ClearsKeep ==
  ASSUME Inv, ClearClassifyCache \/ \E a \in Admins : CallClassifyRulesChanged(a)
  PROVE  Inv'
<1>1. /\ cache' = EmptyCache /\ UNCHANGED <<picker, rules>>
      /\ admin' \in [Admins -> {"idle", "changed", "cleared"}] /\ host' \in {"idle", "installed"}
      /\ ClearPending' => ClearPending
  <2>1. CASE ClearClassifyCache
    BY <2>1 DEF ClearClassifyCache, ClearPending, Inv, Typed
  <2>2. ASSUME NEW a \in Admins, CallClassifyRulesChanged(a)
        PROVE  <1>1!1 /\ <1>1!2 /\ <1>1!3
    BY <2>2 DEF CallClassifyRulesChanged, ClearPending, Inv, Typed
  <2> QED
    BY <2>1, <2>2
<1>2. /\ cache' = [key \in CacheKeys |-> None]
      /\ \A o \in Offers : cache'[CacheKey(o)] = None
  BY <1>1 DEF EmptyCache, CacheKeys
<1>3. Typed'
  BY <1>1, <1>2 DEF Inv, Typed
<1>4. StaleOnlyByRace'
  BY <1>2 DEF StaleOnlyByRace
<1>5. Quiet'
  BY <1>1 DEF Inv, Quiet
<1>6. \A p \in Pickers : Right(picker'[p], Members(rules'))
  BY <1>1 DEF Inv
<1> QED
  BY <1>3, <1>4, <1>5, <1>6 DEF Inv

LEMMA SavesKeep ==
  ASSUME Inv, NEW a \in Admins, SaveRules(a)
  PROVE  Inv'
<1>1. /\ UNCHANGED <<rules, host, cache, picker>>
      /\ admin[a] = "cleared" /\ admin' = [admin EXCEPT ![a] = "idle"]
  BY DEF SaveRules
<1>2. ClearPending' <=> ClearPending
  BY <1>1 DEF ClearPending, Inv, Typed
<1>3. Typed'
  BY <1>1 DEF Inv, Typed
<1>4. StaleOnlyByRace'
  BY <1>1, <1>2 DEF Inv, StaleOnlyByRace
<1>5. Quiet'
  BY <1>1, <1>2 DEF Inv, Quiet
<1>6. \A p \in Pickers : Right(picker'[p], Members(rules'))
  BY <1>1 DEF Inv
<1> QED
  BY <1>3, <1>4, <1>5, <1>6 DEF Inv

LEMMA Keeps ==
  ASSUME Inv, [Next]_vars
  PROVE  Inv'
<1>1. CASE ChangesRules
  BY <1>1, ChangesKeep
<1>2. CASE ClearClassifyCache \/ \E a \in Admins : CallClassifyRulesChanged(a)
  BY <1>2, ClearsKeep
<1>3. CASE \E a \in Admins : SaveRules(a)
  BY <1>3, SavesKeep
<1>4. ASSUME NEW p \in Pickers, Pick(p) PROVE Inv'
  BY <1>4, Begins, Skips, Looks, Snapshots, Stores, Chooses, Zenon DEF Pick
<1>5. CASE UNCHANGED vars
  <2>1. UNCHANGED <<rules, admin, host, cache, picker>>
    BY <1>5 DEF vars
  <2> QED
    BY <2>1 DEF Inv, Typed, StaleOnlyByRace, Quiet, ClearPending
<1> QED
  BY <1>1, <1>2, <1>3, <1>4, <1>5, StepKinds, Zenon

LEMMA InvHolds == Spec => []Inv
<1>1. Init => Inv
  BY Starts
<1>2. Inv /\ [Next]_vars => Inv'
  BY Keeps
<1> QED
  BY <1>1, <1>2, PTL DEF Spec

(***************************************************************************)
(* What follows.                                                           *)
(***************************************************************************)
\* Once the cache is cleared after a change of the rules, an entry that does
\* not say what they say comes from a pick that read them before the change.
THEOREM StaleByRaceAlone == Spec => []StaleOnlyByRace
<1>1. Inv => StaleOnlyByRace
  BY DEF Inv
<1> QED
  BY <1>1, InvHolds, PTL

\* The candidates of a pick are those of some call, so that one is the best.
LEMMA RightPick ==
  ASSUME Inv
  PROVE  PickIsRight
<1> SUFFICES ASSUME NEW p \in Pickers,
                    picker[p].pc = "done", picker[p].steady, ~picker[p].tainted
             PROVE  LET k == picker[p]
                        own == Own(k, Members(rules))
                    IN  k.result = IF own = {} THEN NotFound
                                   ELSE (CHOOSE c \in own : \A d \in own : ~Better(d, c)).id
  BY Zenon DEF PickIsRight, Own
<1> DEFINE k == picker[p]
<1> DEFINE own == Own(k, Members(rules))
<1>1. IsPick(k) /\ k.result = Outcome(own)
  BY DEF Inv, Typed, Right
<1>2. own \subseteq k.cands
  BY DEF Own
<1>3. k.cands \in {Members(list) : list \in Candidates} \cup {{}}
  BY <1>1 DEF IsPick
<1> HIDE DEF own, k
<1>4. CASE own = {}
  BY <1>1, <1>4 DEF Outcome, own, k
<1>5. CASE own # {}
  <2>1. PICK list \in Candidates : k.cands = Members(list)
    BY <1>2, <1>3, <1>5
  <2>2. PICK b \in own : Best(own) = b /\ (CHOOSE c \in own : \A d \in own : ~Better(d, c)) = b
    BY <1>2, <1>5, <2>1, OneIsBest
  <2>3. k.result = (CHOOSE c \in own : \A d \in own : ~Better(d, c)).id
    BY <1>1, <1>5, <2>2 DEF Outcome
  <2> QED
    BY <1>5, <2>3 DEF own, k
<1> QED
  BY <1>4, <1>5

\* A pick during which the rules stayed, and which met no stale entry, chooses
\* the best usable candidate of its group, or fails when there is none.
THEOREM RightFile == Spec => []PickIsRight
<1>1. Inv => PickIsRight
  BY RightPick
<1> QED
  BY <1>1, InvHolds, PTL

----------------------------------------------------------------------------
(***************************************************************************)
(* The other places that classify.                                         *)
(***************************************************************************)
\* What a rule reads of an auth file decides whether it matches.
LEMMA SameMatch ==
  ASSUME NEW o, NEW c, NEW r, o.id = c.id,
         r.field = "plan_type" => o.plan = c.plan,
         r.field = "provider" => o.provider = c.provider,
         r.field = "tier" => o.tier = c.tier
  PROVE  Matches(r, o) <=> Matches(r, c)
BY DEF Matches, FieldValue

LEMMA LoweredProvider ==
  ASSUME NEW o \in Offers, NEW l, NEW c, c = [o EXCEPT !.provider = l]
  PROVE  c.id = o.id /\ c.plan = o.plan /\ c.tier = o.tier /\ c.provider = l
BY OffersAreRecords

LEMMA ViewOfFile ==
  ASSUME NEW o \in Offers, NEW l, NEW c, c = [QuotaView(o) EXCEPT !.provider = l]
  PROVE  c.id = o.id /\ c.plan = Lower[o.plan]
BY OffersAreRecords DEF QuotaView

\* Of a built-in group and a rule's, the prefixes differ.
LEMMA PrefixesDiffer ==
  ASSUME NEW g, g[1] = "classify", NEW o, NEW R, g \in CandidateGroups(o, R)
  PROVE  g \in CustomGroups(o, R)
<1>1. BuiltInGroup(o)[1] = "tier"
  BY DEF BuiltInGroup, Builtin
<1>2. g # BuiltInGroup(o)
  BY <1>1
<1> QED
  BY <1>2 DEF CandidateGroups

\* A file that serves a rule's group is one the quota page finds.
LEMMA ServingFileIsFound ==
  ASSUME NEW files, NEW c \in files, c \in Offers, NEW g, g[1] = "classify",
         \A r \in Members(rules) : r.enabled => SameForPage(r, files),
         g \in CandidateGroups(c, Members(rules))
  PROVE  g \in GroupsForCredential(QuotaView(c), rules)
<1>1. PICK d : d = [QuotaView(c) EXCEPT !.provider = Lower[QuotaView(c).provider]]
  OBVIOUS
<1>2. d.id = c.id /\ d.plan = Lower[c.plan]
  BY <1>1, ViewOfFile
<1>3. ASSUME NEW r \in Members(rules), r.enabled
      PROVE  Matches(r, d) <=> Matches(r, c)
  BY <1>2, <1>3, SameMatch DEF SameForPage
<1>4. CustomGroups(d, Members(rules)) = CustomGroups(c, Members(rules))
  BY <1>3 DEF CustomGroups
<1>5. g \in CustomGroups(d, Members(rules))
  BY <1>4, PrefixesDiffer
<1>6. GroupsForCredential(QuotaView(c), rules) = CustomGroups(d, Members(rules))
  BY <1>1, <1>5 DEF GroupsForCredential
<1> QED
  BY <1>5, <1>6

\* When the quota page finds one auth file for a rule's group, the Codex
\* requests pinned to the group are served by that file, if the page and the
\* scheduler show the rules the same values: not of a rule on tiers or
\* providers, nor on plans while the host spells one with capitals.
THEOREM QuotaOfThatFile == Spec => []QuotaOfServingFile
<1>1. ASSUME Inv PROVE QuotaOfServingFile
  <2> SUFFICES ASSUME NEW p \in Pickers, picker[p].pc = "done", picker[p].steady,
                      ~picker[p].tainted, picker[p].group[1] = "classify",
                      \A r \in Members(rules) : r.enabled => SameForPage(r, picker[p].cands),
                      NEW o \in QuotaMatches(picker[p].cands, picker[p].group),
                      NEW c \in picker[p].cands,
                      Cardinality(QuotaMatches(picker[p].cands, picker[p].group)) = 1,
                      picker[p].result = c.id, Lower[c.provider] = "codex"
               PROVE  c = o
    BY Zenon DEF QuotaOfServingFile
  <2> DEFINE k == picker[p]
  <2> DEFINE own == Own(k, Members(rules))
  <2> DEFINE found == QuotaMatches(k.cands, k.group)
  <2>1. /\ k.cands \in {Members(list) : list \in Candidates} \cup {{}}
        /\ k.result = Outcome(own)
    BY <1>1 DEF Inv, Typed, Right, IsPick
  <2>2. PICK list \in Candidates : k.cands = Members(list)
    BY <2>1
  <2>3. /\ k.cands \subseteq Offers /\ IsFiniteSet(k.cands)
        /\ \A d \in k.cands : d.id = c.id => d = c
    BY <2>2, CandidatesOfCall
  <2>4. own \subseteq k.cands /\ k.group[1] = "classify" /\ k.result = c.id
    BY DEF Own
  <2> HIDE DEF k
  <2>5. own # {}
    <3>1. c.id \in {x.id : x \in Offers}
      BY <2>3 DEF k
    <3>2. c.id # NotFound
      BY <3>1, OffersAreRecords, Zenon
    <3> QED
      BY <2>1, <2>4, <3>2 DEF Outcome
  <2> HIDE DEF own
  <2>6. PICK b \in own : Best(own) = b
    BY <2>2, <2>4, <2>5, OneIsBest
  <2>7. c \in own
    BY <2>1, <2>3, <2>4, <2>5, <2>6 DEF Outcome
  <2>8. c \in Offers /\ k.group \in CandidateGroups(c, Members(rules))
    BY <2>3, <2>4, <2>7 DEF own, Own
  <2>9. k.group \in GroupsForCredential(QuotaView(c), rules)
    BY <2>4, <2>8, ServingFileIsFound DEF k
  <2>10. c \in found /\ o \in found
    BY <2>9 DEF QuotaMatches, k
  <2>11. IsFiniteSet(found) /\ Cardinality(found) = 1
    BY <2>3, FS_Subset DEF QuotaMatches, k
  <2> HIDE DEF found
  <2>12. PICK x : found = {x}
    BY <2>11, FS_Singleton
  <2> QED
    BY <2>10, <2>12
<1> QED
  BY <1>1, InvHolds, PTL

\* A group the model picker offers for an auth file is one the scheduler
\* accepts it for, unless a rule looks at a provider's capital letters.
THEOREM OfferedIsServed == Spec => []CatalogIsServed
<1>1. CatalogIsServed
  <2> SUFFICES ASSUME NEW o \in Offers,
                      \A r \in Members(rules) : r.enabled /\ r.field = "provider" =>
                                                    Lower[o.provider] = o.provider
               PROVE  GroupsForCredential(o, rules) \ {NoGroup} \subseteq
                          CandidateGroups(o, Members(rules))
    BY DEF CatalogIsServed
  <2>1. PICK c : c = [o EXCEPT !.provider = Lower[o.provider]]
    OBVIOUS
  <2>2. c.id = o.id /\ c.plan = o.plan /\ c.tier = o.tier /\ c.provider = Lower[o.provider]
    BY <2>1, LoweredProvider
  <2>3. ASSUME NEW r \in Members(rules), r.enabled
        PROVE  Matches(r, c) <=> Matches(r, o)
    BY <2>2, <2>3, SameMatch
  <2>4. CustomGroups(c, Members(rules)) = CustomGroups(o, Members(rules))
    BY <2>3 DEF CustomGroups
  <2>5. PlanOrTier(c) = PlanOrTier(o)
    BY <2>2 DEF PlanOrTier
  <2>6. CASE CustomGroups(c, Members(rules)) # {}
    BY <2>1, <2>4, <2>6 DEF GroupsForCredential, CandidateGroups
  <2>7. CASE CustomGroups(c, Members(rules)) = {} /\ PlanOrTier(c) # NoClaim
    <3>1. GroupsForCredential(o, rules) = {Builtin(PlanOrTier(c))}
      BY <2>1, <2>7 DEF GroupsForCredential
    <3>2. CandidateGroups(o, Members(rules)) = {Builtin(PlanOrTier(c))}
      BY <2>4, <2>5, <2>7 DEF CandidateGroups, BuiltInGroup
    <3> QED
      BY <3>1, <3>2
  <2>8. CASE CustomGroups(c, Members(rules)) = {} /\ PlanOrTier(c) = NoClaim
    <3>1. GroupsForCredential(o, rules) \subseteq {Builtin("supported"), NoGroup}
      BY <2>1, <2>8 DEF GroupsForCredential
    <3>2. CandidateGroups(o, Members(rules)) = {Builtin("supported")}
      BY <2>4, <2>5, <2>8 DEF CandidateGroups, BuiltInGroup
    <3> QED
      BY <3>1, <3>2
  <2> QED
    BY <2>6, <2>7, <2>8
<1> QED
  BY <1>1, PTL

(***************************************************************************)
(* The cache keeps within its capacity.                                    *)
(***************************************************************************)
Bounded == IsFiniteSet(Cached) /\ Cardinality(Cached) <= Capacity

LEMMA StoringKeepsBound ==
  ASSUME Inv, Bounded, NEW p \in Pickers, StoreGroups(p)
  PROVE  Bounded'
<1> DEFINE key == CacheKey(Head(picker[p].todo))
<1> DEFINE kept == IF Full THEN EmptyCache ELSE cache
<1> DEFINE before == {x \in CacheKeys : kept[x] # None}
<1>1. PICK e : cache' = [kept EXCEPT ![key] = e]
  BY DEF StoreGroups
<1>2. kept = [x \in CacheKeys |-> kept[x]]
  BY DEF Inv, Typed, EmptyCache
<1>3. IsFiniteSet(before) /\ Cardinality(before) \in Nat /\ Cardinality(before) < Capacity
  <2>1. Capacity \in Nat \ {0} /\ Cardinality(Cached) \in Nat
    BY BoundsAreNatural, FS_CardinalityType DEF Bounded
  <2>2. CASE Full
    <3>1. before = {}
      BY <2>2 DEF EmptyCache
    <3> QED
      BY <2>1, <3>1, FS_EmptySet
  <2>3. CASE ~Full
    <3>1. before = Cached
      BY <2>3 DEF Cached
    <3> QED
      BY <2>1, <2>3, <3>1 DEF Full, Bounded
  <2> QED
    BY <2>2, <2>3
<1> HIDE DEF kept, key
<1>4. Cached' \in SUBSET (before \cup {key})
  BY <1>1, <1>2 DEF Cached
<1> HIDE DEF before
<1>5. /\ IsFiniteSet(before \cup {key})
      /\ Cardinality(before \cup {key}) <= Cardinality(before) + 1
      /\ Cardinality(before \cup {key}) \in Nat
  <2>1. /\ IsFiniteSet(before \cup {key})
        /\ Cardinality(before \cup {key}) = Cardinality(before)
           \/ Cardinality(before \cup {key}) = Cardinality(before) + 1
    BY <1>3, FS_AddElement
  <2> QED
    BY <1>3, <2>1, FS_CardinalityType
<1>6. IsFiniteSet(Cached') /\ Cardinality(Cached') <= Cardinality(before \cup {key})
  BY <1>4, <1>5, FS_Subset
<1>7. Cardinality(Cached') \in Nat
  BY <1>6, FS_CardinalityType
<1> QED
  BY <1>3, <1>5, <1>6, <1>7, BoundsAreNatural DEF Bounded

LEMMA BoundHolds == Spec => []Bounded
<1>1. ASSUME Cached = {} PROVE Bounded
  BY <1>1, BoundsAreNatural, FS_EmptySet DEF Bounded
<1>2. Init => Bounded
  BY <1>1 DEF Init, Cached
<1>3. ASSUME Inv, Bounded, [Next]_vars PROVE Bounded'
  <2>1. ASSUME UNCHANGED cache PROVE Bounded'
    BY <1>3, <2>1 DEF Bounded, Cached
  <2>2. ASSUME cache' = EmptyCache PROVE Bounded'
    <3>1. Cached' = {}
      BY <2>2 DEF Cached, EmptyCache
    <3> QED
      BY <3>1, BoundsAreNatural, FS_EmptySet DEF Bounded
  <2>3. CASE ChangesRules
    BY <1>3, <2>1, <2>3, Overtakes DEF Inv
  <2>4. CASE ClearClassifyCache \/ \E a \in Admins : CallClassifyRulesChanged(a)
    BY <2>2, <2>4 DEF ClearClassifyCache, CallClassifyRulesChanged
  <2>5. CASE \E a \in Admins : SaveRules(a)
    BY <2>1, <2>5 DEF SaveRules
  <2>6. ASSUME NEW p \in Pickers, Pick(p) PROVE Bounded'
    <3>1. CASE StoreGroups(p)
      BY <1>3, <3>1, StoringKeepsBound
    <3>2. CASE ~StoreGroups(p)
      BY <2>1, <2>6, <3>2 DEF Pick, PickScheduler, Skip, Lookup, SnapshotRules, Choose
    <3> QED
      BY <3>1, <3>2
  <2>7. CASE UNCHANGED vars
    BY <2>1, <2>7 DEF vars
  <2> QED
    BY <1>3, <2>3, <2>4, <2>5, <2>6, <2>7, StepKinds, Zenon
<1> QED
  BY <1>2, <1>3, InvHolds, PTL DEF Spec

\* However many files, plans and providers the host reports, the cache of
\* their classifications never holds more than its capacity.
THEOREM CacheIsBounded == Spec => [](Cardinality(Cached) <= Capacity)
<1>1. Bounded => Cardinality(Cached) <= Capacity
  BY DEF Bounded
<1> QED
  BY <1>1, BoundHolds, PTL

(***************************************************************************)
(* The rules, what is read from them, and who may change them.             *)
(***************************************************************************)
OneUpdater ==
    /\ updater \in Admins \cup {NoOne}
    /\ \A a \in Admins : (admin[a] # "idle") <=> updater = a

Shaped ==
    /\ rules \in Seq(RuleSpace) /\ stored \in Seq(RuleSpace)
    /\ OneUpdater
    /\ cache \in [CacheKeys -> Entries \cup {None}]
    /\ \A p \in Pickers : picker[p].snap \subseteq RuleSpace

LEMMA MembersType ==
  ASSUME NEW S, NEW s \in Seq(S)
  PROVE  Members(s) \subseteq S
BY DEF Members

LEMMA GroupsType ==
  ASSUME NEW o \in Offers, NEW R \in SUBSET RuleSpace
  PROVE  CandidateGroups(o, R) \subseteq Groups
<1>1. CustomGroups(o, R) \subseteq Groups
  BY DEF CustomGroups, Groups
<1>2. BuiltInGroup(o) \in Groups
  <2> DEFINE T == {"supported"} \cup
                    UNION {{Lower[x.plan], Lower[x.tier]} \ {NoClaim} : x \in Offers}
  <2>1. PICK t : t = IF PlanOrTier(o) = NoClaim THEN "supported" ELSE PlanOrTier(o)
    OBVIOUS
  <2>2. t \in T
    BY <2>1 DEF PlanOrTier
  <2>3. BuiltInGroup(o) = Builtin(t)
    BY <2>1 DEF BuiltInGroup
  <2> HIDE DEF T
  <2>4. Builtin(t) \in {Builtin(x) : x \in T}
    BY <2>2
  <2> QED
    BY <2>3, <2>4 DEF Groups, T
<1> QED
  BY <1>1, <1>2 DEF CandidateGroups

\* A rule that replaces another, or comes last.
LEMMA UpsertType ==
  ASSUME Shaped, NEW r \in RuleSpace, NEW new, NEW at,
         new = Append(rules, r) \/ new = [rules EXCEPT ![at] = r]
  PROVE  new \in Seq(RuleSpace)
<1>1. rules \in Seq(RuleSpace) /\ Len(rules) \in Nat /\ DOMAIN rules = 1..Len(rules)
  BY DEF Shaped
<1>2. CASE new = Append(rules, r)
  BY <1>1, <1>2
<1>3. CASE new = [rules EXCEPT ![at] = r]
  <2> DEFINE D == 1..Len(rules)
  <2>0. rules \in [D -> RuleSpace]
    BY <1>1
  <2> HIDE DEF D
  <2>1. new \in [D -> RuleSpace]
    <3>1. new = [i \in D |-> IF i = at THEN r ELSE rules[i]]
      BY <1>3, <2>0
    <3>2. \A i \in D : (IF i = at THEN r ELSE rules[i]) \in RuleSpace
      BY <2>0
    <3> QED
      BY <3>1, <3>2
  <2> USE DEF D
  <2> QED
    BY <1>1, <2>1, IsSequence
<1> QED
  BY <1>2, <1>3

\* Every name that is kept is the name of a rule, and of a last one.
LEMMA ReorderType ==
  ASSUME Shaped, NEW list \in Seq(Names)
  PROVE  Reordered(list) \in Seq(RuleSpace)
<1> DEFINE LastOf(n) == CHOOSE i \in DOMAIN rules : /\ rules[i].name = n
                          /\ \A j \in DOMAIN rules : rules[j].name = n => j <= i
           T == {r.name : r \in Members(rules)}
           known == Kept(list, T)
           named == [i \in DOMAIN known |-> rules[LastOf(known[i])]]
           others == Kept(rules, {r \in RuleSpace : r.name \notin Members(list)})
<1>1. rules \in Seq(RuleSpace) /\ Len(rules) \in Nat /\ DOMAIN rules = 1..Len(rules)
  BY DEF Shaped
<1>2. known \in Seq(Names) /\ ToSet(known) \subseteq T
  <2> HIDE DEF T
  <2> QED
    BY KeptType
<1>3. Len(known) \in Nat /\ DOMAIN known = 1..Len(known) /\ \A i \in DOMAIN known : known[i] \in T
  <2>1. \A i \in DOMAIN known : known[i] \in ToSet(known)
    BY DEF ToSet
  <2> HIDE DEF known
  <2> QED
    BY <1>2, <2>1
<1>4. ASSUME NEW n \in T PROVE rules[LastOf(n)] \in RuleSpace
  <2> DEFINE at == {i \in DOMAIN rules : rules[i].name = n}
  <2>1. at \in SUBSET (1..Len(rules)) /\ at # {}
    BY <1>1, <1>4 DEF Members
  <2> HIDE DEF at
  <2>2. PICK i \in at : i = Max(at)
    BY <1>1, <2>1, GreatestExists
  <2>3. \A j \in at : j <= i
    BY <1>1, <2>1, <2>2, GreatestIsMost
  <2>4. \E x \in DOMAIN rules : /\ rules[x].name = n
                               /\ \A j \in DOMAIN rules : rules[j].name = n => j <= x
    BY <2>2, <2>3 DEF at
  <2>5. LastOf(n) \in DOMAIN rules
    BY <2>4, Zenon
  <2> HIDE DEF LastOf
  <2> QED
    BY <1>1, <2>5
<1>5. Reordered(list) = named \o others
  BY DEF Reordered
<1>6. others \in Seq(RuleSpace)
  BY <1>1, KeptType
<1> HIDE DEF LastOf, T, known, others
<1>7. named \in [1..Len(known) -> RuleSpace]
  BY <1>3, <1>4
<1>8. named \in Seq(RuleSpace)
  BY <1>3, <1>7, IsSequence
<1> HIDE DEF named
<1> QED
  BY <1>5, <1>6, <1>8

\* Whatever an edit makes of the rules, they are rules.
LEMMA EditTypes ==
  ASSUME Shaped, NEW a \in Admins,
         UpsertClassifyRule(a) \/ DeleteClassifyRule(a) \/ ReorderClassifyRules(a)
  PROVE  \E new \in Seq(RuleSpace) : SetRules(a, new)
<1>1. CASE UpsertClassifyRule(a)
  <2>1. \E r \in RuleSpace : \E new, at : (new = Append(rules, r) \/ new = [rules EXCEPT ![at] = r])
                                          /\ SetRules(a, new)
    <3>1. PICK r \in RuleSpace :
            LET same == {i \in DOMAIN rules : rules[i].name = r.name}
                new == IF same = {} THEN Append(rules, r)
                       ELSE [rules EXCEPT ![CHOOSE i \in same : \A j \in same : i <= j] = r]
            IN  NoDuplicates(new) /\ SetRules(a, new)
      BY <1>1 DEF UpsertClassifyRule
    <3> DEFINE same == {i \in DOMAIN rules : rules[i].name = r.name}
               first == CHOOSE i \in same : \A j \in same : i <= j
    <3>2. CASE same = {}
      BY <3>1, <3>2
    <3>3. CASE same # {}
      <4>1. SetRules(a, [rules EXCEPT ![first] = r])
        BY <3>1, <3>3
      <4> HIDE DEF first
      <4> QED
        BY <4>1
    <3> QED
      BY <3>2, <3>3
  <2> QED
    BY <2>1, UpsertType
<1>2. CASE DeleteClassifyRule(a)
  <2>1. PICK n \in Names : SetRules(a, Without(n))
    BY <1>2 DEF DeleteClassifyRule
  <2>2. Without(n) \in Seq(RuleSpace)
    BY KeptType DEF Without, Shaped
  <2> QED
    BY <2>1, <2>2
<1>3. CASE ReorderClassifyRules(a)
  <2>1. PICK list \in UNION {[1..n -> Names] : n \in 1..2} : SetRules(a, Reordered(list))
    BY <1>3 DEF ReorderClassifyRules
  <2>2. PICK n \in 1..2 : list \in [1..n -> Names]
    OBVIOUS
  <2>3. list \in Seq(Names)
    BY <2>2, IsSequence
  <2> QED
    BY <2>1, <2>3, ReorderType
<1> QED
  BY <1>1, <1>2, <1>3

LEMMA SettingIsShaped ==
  ASSUME Inv, Shaped, NEW a \in Admins, NEW new \in Seq(RuleSpace), SetRules(a, new)
  PROVE  Shaped'
<1>1. /\ admin[a] = "idle" /\ updater = NoOne
      /\ rules' = new /\ updater' = a /\ admin' = [admin EXCEPT ![a] = "changed"]
      /\ picker' = Overtaken /\ UNCHANGED <<stored, cache>>
  BY DEF SetRules, NextStepAfter
<1>2. \A p \in Pickers : picker'[p].snap \subseteq RuleSpace
  BY <1>1, OvertakenPick DEF Inv, Shaped
<1>3. \A b \in Admins : admin[b] = "idle" /\ admin'[b] = IF b = a THEN "changed" ELSE admin[b]
  BY <1>1, NoOneIsNoAdmin DEF Shaped, OneUpdater, Inv, Typed
<1>4. OneUpdater'
  BY <1>1, <1>3 DEF OneUpdater
<1> QED
  BY <1>1, <1>2, <1>4 DEF Shaped

LEMMA ConfigureIsShaped ==
  ASSUME Inv, Shaped, Configure
  PROVE  Shaped'
<1>1. picker' = Overtaken /\ UNCHANGED <<stored, updater, admin, cache>>
  BY DEF Configure
<1>2. \A p \in Pickers : picker'[p].snap \subseteq RuleSpace
  BY <1>1, OvertakenPick DEF Inv, Shaped
<1>3. rules' \in Seq(RuleSpace)
  BY RulesAreRules DEF Configure, Shaped
<1>4. OneUpdater'
  BY <1>1 DEF Shaped, OneUpdater
<1> QED
  BY <1>1, <1>2, <1>3, <1>4 DEF Shaped

\* An empty cache, and the end of an edit.
LEMMA EndingIsShaped ==
  ASSUME Inv, Shaped, NEW a \in Admins, CallClassifyRulesChanged(a) \/ SaveRules(a)
  PROVE  Shaped'
<1>1. UNCHANGED <<rules, picker>> /\ stored' \in Seq(RuleSpace)
  BY DEF CallClassifyRulesChanged, SaveRules, Shaped
<1>2. EmptyCache \in [CacheKeys -> Entries \cup {None}]
  BY DEF EmptyCache
<1>3. cache' \in [CacheKeys -> Entries \cup {None}]
  BY <1>2 DEF CallClassifyRulesChanged, SaveRules, Shaped
<1>4. updater = a
  BY DEF CallClassifyRulesChanged, SaveRules, Shaped, OneUpdater
<1>5. OneUpdater'
  <2>1. CASE CallClassifyRulesChanged(a)
    <3>1. admin' = [admin EXCEPT ![a] = "cleared"] /\ UNCHANGED updater
      BY <2>1 DEF CallClassifyRulesChanged
    <3>2. \A b \in Admins : admin'[b] = IF b = a THEN "cleared" ELSE admin[b]
      BY <3>1 DEF Inv, Typed
    <3> QED
      BY <1>4, <3>1, <3>2 DEF Shaped, OneUpdater
  <2>2. CASE SaveRules(a)
    <3>1. admin' = [admin EXCEPT ![a] = "idle"] /\ updater' = NoOne
      BY <2>2 DEF SaveRules
    <3>2. \A b \in Admins : admin'[b] = IF b = a THEN "idle" ELSE admin[b]
      BY <3>1 DEF Inv, Typed
    <3> QED
      BY <1>4, <3>1, <3>2, NoOneIsNoAdmin DEF Shaped, OneUpdater
  <2> QED
    BY <2>1, <2>2
<1> QED
  BY <1>1, <1>3, <1>5 DEF Shaped

\* A pick's step, once its new state and the cache are known to be good.
LEMMA PickIsShaped ==
  ASSUME Inv, Shaped, NEW p \in Pickers, NEW s, picker' = [picker EXCEPT ![p] = s],
         s.snap \subseteq RuleSpace, UNCHANGED <<rules, stored, updater, admin>>,
         cache' \in [CacheKeys -> Entries \cup {None}]
  PROVE  Shaped'
<1>1. \A q \in Pickers : picker'[q] = IF q = p THEN s ELSE picker[q]
  BY DEF Inv, Typed
<1>2. \A q \in Pickers : picker'[q].snap \subseteq RuleSpace
  BY <1>1 DEF Shaped
<1>3. OneUpdater'
  BY DEF Shaped, OneUpdater
<1> QED
  BY <1>2, <1>3 DEF Shaped

\* What a classification contributes leaves no rules behind.
LEMMA ClassifiedForgets ==
  ASSUME Inv, NEW p \in Pickers, NEW groups
  PROVE  /\ Classified(p, groups).snap = {}
         /\ \A e : [Classified(p, groups) EXCEPT !.tainted = @ \/ e].snap = {}
<1> DEFINE k == picker[p]
<1>1. IsPick(k)
  BY DEF Inv, Typed
<1>2. PICK u : u = IF k.group \in groups THEN k.matched \cup {Head(k.todo)} ELSE k.matched
  OBVIOUS
<1>3. Classified(p, groups) = [k EXCEPT !.pc = "lookup", !.todo = Tail(k.todo), !.snap = {},
                                        !.raced = FALSE, !.matched = u]
  BY <1>1, <1>2 DEF Classified, IsPick
<1> HIDE DEF k
<1>4. PICK c : c = [k EXCEPT !.pc = "lookup", !.todo = Tail(k.todo), !.snap = {},
                             !.raced = FALSE, !.matched = u]
  OBVIOUS
<1>5. /\ c.snap = {}
      /\ \A e : [c EXCEPT !.tainted = c.tainted \/ e].snap = {}
  BY <1>1, <1>4 DEF IsPick
<1> QED
  BY <1>3, <1>4, <1>5

LEMMA PicksAreShaped ==
  ASSUME Inv, Shaped, NEW p \in Pickers, Pick(p)
  PROVE  Shaped'
<1> DEFINE k == picker[p]
<1>1. IsPick(k) /\ InHand(k) /\ k.snap \subseteq RuleSpace /\ cache \in [CacheKeys -> Entries \cup {None}]
  BY DEF Inv, Typed, Shaped
<1>2. UNCHANGED <<rules, stored, updater, admin>>
  BY DEF Pick, PickScheduler, Skip, Lookup, SnapshotRules, StoreGroups, Choose
<1>3. CASE PickScheduler(p)
  <2>1. PICK list \in Candidates, g \in Pinned :
              picker' = [picker EXCEPT ![p] =
               IF g = NoGroup \/ list = <<>>
               THEN [Idle EXCEPT !.pc = "done", !.result = Delegated]
               ELSE [Idle EXCEPT !.pc = "lookup", !.group = g, !.cands = Members(list),
                                 !.todo = list, !.steady = ~ClearPending]]
    BY <1>3 DEF PickScheduler
  <2>2. PICK s : /\ s = IF g = NoGroup \/ list = <<>>
                        THEN [Idle EXCEPT !.pc = "done", !.result = Delegated]
                        ELSE [Idle EXCEPT !.pc = "lookup", !.group = g, !.cands = Members(list),
                                          !.todo = list, !.steady = ~ClearPending]
                 /\ picker' = [picker EXCEPT ![p] = s]
    BY <2>1
  <2>4. s.snap = {}
    BY <2>2 DEF Idle
  <2>3. UNCHANGED cache
    BY <1>3 DEF PickScheduler
  <2> QED
    BY <1>1, <1>2, <2>2, <2>3, <2>4, PickIsShaped
<1>4. CASE Skip(p)
  <2>1. picker' = [picker EXCEPT ![p] = [k EXCEPT !.todo = Tail(@)]] /\ UNCHANGED cache
    BY <1>4 DEF Skip, Inv, Typed
  <2>2. [k EXCEPT !.todo = Tail(@)].snap = k.snap
    BY <1>1 DEF IsPick
  <2> QED
    BY <1>1, <1>2, <2>1, <2>2, PickIsShaped
<1>5. CASE Lookup(p)
  <2> DEFINE e == cache[CacheKey(Head(picker[p].todo))]
  <2>1. UNCHANGED cache
    BY <1>5 DEF Lookup
  <2>2. CASE e = None
    <3>1. picker' = [picker EXCEPT ![p] = [k EXCEPT !.pc = "classify"]]
      BY <1>5, <2>2 DEF Lookup
    <3>2. [k EXCEPT !.pc = "classify"].snap = k.snap
      BY <1>1 DEF IsPick
    <3> QED
      BY <1>1, <1>2, <2>1, <3>1, <3>2, PickIsShaped
  <2>3. CASE e # None
    <3>1. picker' = [picker EXCEPT ![p] = [Classified(p, e.groups) EXCEPT !.tainted = @ \/ e.raced]]
      BY <1>5, <2>3 DEF Lookup
    <3>2. [Classified(p, e.groups) EXCEPT !.tainted = @ \/ e.raced].snap = {}
      BY ClassifiedForgets
    <3> QED
      BY <1>1, <1>2, <2>1, <3>1, <3>2, PickIsShaped
  <2> QED
    BY <2>2, <2>3
<1>6. CASE SnapshotRules(p)
  <2>1. picker' = [picker EXCEPT ![p] = [k EXCEPT !.pc = "store", !.snap = Members(rules)]]
        /\ UNCHANGED cache
    BY <1>6 DEF SnapshotRules, Inv, Typed
  <2>2. [k EXCEPT !.pc = "store", !.snap = Members(rules)].snap = Members(rules)
    BY <1>1 DEF IsPick
  <2>3. Members(rules) \subseteq RuleSpace
    BY MembersType DEF Shaped
  <2> QED
    BY <1>1, <1>2, <2>1, <2>2, <2>3, PickIsShaped
<1>7. CASE StoreGroups(p)
  <2> DEFINE c == Head(picker[p].todo)
             groups == CandidateGroups(c, k.snap)
             kept == IF Full THEN EmptyCache ELSE cache
             new == [groups |-> groups, raced |-> k.raced]
  <2>1. /\ cache' = [kept EXCEPT ![CacheKey(c)] = new]
        /\ picker' = [picker EXCEPT ![p] = Classified(p, groups)]
    BY <1>7 DEF StoreGroups
  <2>2. k.todo \in Seq(Offers) /\ k.todo # <<>> /\ k.raced \in BOOLEAN
    BY <1>1, <1>7 DEF IsPick, InHand, StoreGroups
  <2>3. c \in Offers
    BY <2>2
  <2>4. new \in Entries
    <3>1. groups \subseteq Groups
      BY <1>1, <2>3, GroupsType
    <3> HIDE DEF groups
    <3> QED
      BY <2>2, <3>1 DEF Entries
  <2>5. kept \in [CacheKeys -> Entries \cup {None}]
    BY <1>1 DEF EmptyCache
  <2>6. Classified(p, groups).snap = {}
    BY ClassifiedForgets
  <2> HIDE DEF kept, new, groups
  <2>7. cache' \in [CacheKeys -> Entries \cup {None}]
    BY <2>1, <2>4, <2>5
  <2> QED
    BY <1>2, <2>1, <2>6, <2>7, PickIsShaped
<1>8. CASE Choose(p)
  <2>1. picker' = [picker EXCEPT ![p] = [k EXCEPT !.pc = "done", !.matched = {},
                                                 !.result = Outcome(k.matched)]]
        /\ UNCHANGED cache
    BY <1>8 DEF Choose, Inv, Typed
  <2>2. [k EXCEPT !.pc = "done", !.matched = {}, !.result = Outcome(k.matched)].snap = k.snap
    BY <1>1 DEF IsPick
  <2> QED
    BY <1>1, <1>2, <2>1, <2>2, PickIsShaped
<1> QED
  BY <1>3, <1>4, <1>5, <1>6, <1>7, <1>8 DEF Pick

LEMMA StaysShaped ==
  ASSUME Inv, Shaped, [Next]_vars
  PROVE  Shaped'
<1>1. CASE Configure
  BY <1>1, ConfigureIsShaped
<1>2. CASE ClearClassifyCache
  <2>1. cache' = EmptyCache /\ UNCHANGED <<rules, stored, updater, admin, picker>>
    BY <1>2 DEF ClearClassifyCache
  <2>2. EmptyCache \in [CacheKeys -> Entries \cup {None}]
    BY DEF EmptyCache
  <2> QED
    BY <2>1, <2>2 DEF Shaped, OneUpdater
<1>3. ASSUME NEW a \in Admins, Edit(a) PROVE Shaped'
  <2>1. CASE UpsertClassifyRule(a) \/ DeleteClassifyRule(a) \/ ReorderClassifyRules(a)
    BY <2>1, EditTypes, SettingIsShaped
  <2>2. CASE CallClassifyRulesChanged(a) \/ SaveRules(a)
    BY <2>2, EndingIsShaped
  <2> QED
    BY <1>3, <2>1, <2>2 DEF Edit
<1>4. ASSUME NEW p \in Pickers, Pick(p) PROVE Shaped'
  BY <1>4, PicksAreShaped
<1>5. CASE UNCHANGED vars
  BY <1>5 DEF vars, Shaped, OneUpdater
<1> QED
  BY <1>1, <1>2, <1>3, <1>4, <1>5, Zenon DEF Next

\* Every variable has its type: a group that the cache holds is a rule's or a
\* built-in one, whoever holds updateMu is the one management request that is
\* under way, and what a pick matched is among its candidates.
THEOREM TypeCorrect == Spec => []TypeOK
<1>1. Inv /\ Bounded /\ Shaped => TypeOK
  <2> SUFFICES ASSUME Inv, Bounded, Shaped PROVE TypeOK
    OBVIOUS
  <2>1. ASSUME NEW p \in Pickers
        PROVE  /\ picker[p].matched \cup Members(picker[p].todo) \subseteq picker[p].cands
               /\ picker[p].cands \subseteq Offers
    <3>1. picker[p].cands \in {Members(list) : list \in Candidates} \cup {{}}
      BY DEF Inv, Typed, IsPick
    <3>2. picker[p].cands \subseteq Offers
      BY <3>1, CandidatesOfCall
    <3> QED
      BY <3>2 DEF Inv, Typed, InHand
  <2> QED
    BY <2>1 DEF Inv, Typed, Bounded, Shaped, OneUpdater, TypeOK
<1>2. Init => Shaped
  <2> SUFFICES ASSUME Init PROVE Shaped
    OBVIOUS
  <2>1. rules \in Seq(RuleSpace) /\ stored = rules
    BY RulesAreRules DEF Init
  <2>2. OneUpdater
    BY NoOneIsNoAdmin DEF Init, OneUpdater
  <2>3. \A p \in Pickers : picker[p].snap = {}
    BY DEF Init, Idle
  <2>4. cache \in [CacheKeys -> Entries \cup {None}]
    BY DEF Init
  <2> QED
    BY <2>1, <2>2, <2>3, <2>4 DEF Shaped
<1>3. Inv /\ Shaped /\ [Next]_vars => Shaped'
  BY StaysShaped
<1> QED
  BY <1>1, <1>2, <1>3, InvHolds, BoundHolds, PTL DEF Spec
=============================================================================
