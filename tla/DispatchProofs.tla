--------------------------- MODULE DispatchProofs ---------------------------
(***************************************************************************)
(* What Dispatch's run checks on a small instance, proved for every set of *)
(* keys, requests and targets, every list an alias may be given, with      *)
(* targets listed twice or not, and all lengths of queues and lifetimes.   *)
(***************************************************************************)
EXTENDS Dispatch, SequenceTheorems, WellFoundedInduction, TLAPS

USE NoTargetIsNone, ListsAreLists, NumbersAreNatural
----------------------------------------------------------------------------
(***************************************************************************)
(* The queues.                                                             *)
(***************************************************************************)
LEMMA Least ==
  ASSUME NEW S, S \subseteq Nat, S # {}
  PROVE  \E n \in S : \A m \in S : n <= m
<1>1. \E n \in S : \A m \in S : ~ <<m, n>> \in OpToRel(<, Nat)
  BY NatLessThanWellFounded, WFMin
<1>2. PICK n \in S : \A m \in S : ~ <<m, n>> \in OpToRel(<, Nat)
  BY <1>1
<1>3. ASSUME NEW m \in S PROVE n <= m
  <2>1. <<m, n>> \in Nat \X Nat
    OBVIOUS
  <2>2. ~ (m < n)
    BY <1>2, <2>1 DEF OpToRel
  <2> QED
    BY <2>2
<1> QED
  BY <1>3

LEMMA PicksHaveTimes == \A p \in Picks : p.at \in Nat /\ p.at <= MaxEvents /\ p.rule \in Targets
BY DEF Picks

\* What prunePendingLocked leaves starts with the first entry that is fresh.
LEMMA PruneDrops ==
  ASSUME NEW q \in Seq(Picks), NEW t \in Nat
  PROVE  \E n \in 0..Len(q) : /\ Prune(q, t) = SubSeq(q, n + 1, Len(q))
                              /\ \A i \in 1..n : q[i].at + TTL < t
                              /\ n < Len(q) => q[n + 1].at + TTL >= t
<1> DEFINE stale == {n \in 0..Len(q) : \A i \in 1..n : q[i].at + TTL < t}
           first == CHOOSE n \in stale : \A i \in stale : i <= n
           rests == {Len(q) - n : n \in stale}
<1>1. Len(q) \in Nat /\ 0 \in stale /\ stale \subseteq 0..Len(q)
  OBVIOUS
<1>2. rests \subseteq Nat /\ rests # {}
  BY <1>1
<1>3. PICK m \in rests : \A x \in rests : m <= x
  BY <1>2, Least
<1>4. PICK n \in stale : m = Len(q) - n
  BY <1>3
<1>5. \A i \in stale : i <= n
  <2>1. ASSUME NEW i \in stale PROVE i <= n
    <3>1. Len(q) - i \in rests
      OBVIOUS
    <3>2. Len(q) - n <= Len(q) - i
      BY <1>3, <1>4, <3>1
    <3> QED
      BY <1>1, <3>2
  <2> QED
    BY <2>1
<1>6. first \in stale /\ \A i \in stale : i <= first
  BY <1>5
<1>7. first < Len(q) => q[first + 1].at + TTL >= t
  <2>1. SUFFICES ASSUME first < Len(q), ~(q[first + 1].at + TTL >= t) PROVE FALSE
    OBVIOUS
  <2>2. first \in 0..Len(q) /\ \A i \in 1..first : q[i].at + TTL < t
    BY <1>6
  <2> HIDE DEF first
  <2>3. q[first + 1] \in Picks
    BY <1>1, <2>1, <2>2
  <2>4. q[first + 1].at + TTL < t
    BY <2>1, <2>3, PicksHaveTimes
  <2>5. \A i \in 1 .. first + 1 : i \in 1..first \/ i = first + 1
    BY <2>2
  <2>6. \A i \in 1 .. first + 1 : q[i].at + TTL < t
    BY <2>2, <2>4, <2>5
  <2>7. first + 1 \in 0..Len(q)
    BY <1>1, <2>1, <2>2
  <2>8. first + 1 \in stale
    BY <2>6, <2>7
  <2> QED
    BY <1>6, <2>2, <2>8
<1>8. Prune(q, t) = SubSeq(q, first + 1, Len(q))
  BY DEF Prune
<1> HIDE DEF first
<1> QED
  BY <1>1, <1>6, <1>7, <1>8

LEMMA PruneKeeps ==
  ASSUME NEW q \in Seq(Picks), NEW t \in Nat
  PROVE  /\ Prune(q, t) \in Seq(Picks) /\ Len(Prune(q, t)) <= Len(q)
         /\ \A i \in 1..Len(Prune(q, t)) : \E j \in 1..Len(q) : Prune(q, t)[i] = q[j]
         /\ Prune(q, t) # <<>> => Prune(q, t)[1].at + TTL >= t
         /\ Len(q) = 1 /\ q[1].at + TTL >= t => Len(Prune(q, t)) = 1 /\ Prune(q, t)[1] = q[1]
<1>1. PICK n \in 0..Len(q) : /\ Prune(q, t) = SubSeq(q, n + 1, Len(q))
                             /\ \A i \in 1..n : q[i].at + TTL < t
                             /\ n < Len(q) => q[n + 1].at + TTL >= t
  BY PruneDrops
<1>2. /\ SubSeq(q, n + 1, Len(q)) \in Seq(Picks)
      /\ Len(SubSeq(q, n + 1, Len(q))) = Len(q) - n
      /\ \A i \in 1 .. Len(q) - n : SubSeq(q, n + 1, Len(q))[i] = q[n + i]
  OBVIOUS
<1> DEFINE p == Prune(q, t)
<1>3. p \in Seq(Picks) /\ Len(p) = Len(q) - n /\ \A i \in 1 .. Len(q) - n : p[i] = q[n + i]
  BY <1>1, <1>2
<1>4. \A i \in 1..n : q[i].at \in Nat
  <2>1. \A i \in 1..n : q[i] \in Picks
    OBVIOUS
  <2> QED
    BY <2>1, PicksHaveTimes
<1> HIDE DEF p
<1>5. p # <<>> => n < Len(q)
  BY <1>3
<1>6. Len(q) = 1 /\ q[1].at + TTL >= t => n = 0
  BY <1>1, <1>4
<1> QED
  BY <1>1, <1>3, <1>5, <1>6 DEF p

LEMMA PruneNothing == \A t \in Nat : Prune(<<>>, t) = <<>>
<1>1. ASSUME NEW t \in Nat PROVE Prune(<<>>, t) = <<>>
  <2>1. <<>> \in Seq(Picks) /\ Len(<<>>) = 0
    OBVIOUS
  <2>2. Prune(<<>>, t) \in Seq(Picks) /\ Len(Prune(<<>>, t)) <= 0
    BY <2>1, PruneKeeps
  <2> DEFINE p == Prune(<<>>, t)
  <2> HIDE DEF p
  <2>3. p \in Seq(Picks) /\ Len(p) <= 0 => p = <<>>
    OBVIOUS
  <2> QED
    BY <2>2, <2>3 DEF p
<1> QED
  BY <1>1

\* rememberPick's queue: within its limit, and a lone selection is kept.
LEMMA NewestKeeps ==
  ASSUME NEW q \in Seq(Picks), Len(q) <= MaxQueue, NEW p \in Picks
  PROVE  LET n == Newest(Append(q, p))
         IN  /\ n \in Seq(Picks) /\ Len(n) <= MaxQueue
             /\ \A i \in 1..Len(n) : n[i] = p \/ \E j \in 1..Len(q) : n[i] = q[j]
             /\ Len(q) = 0 => Len(n) = 1 /\ n[1] = p
<1> DEFINE a == Append(q, p)
<1>1. /\ a \in Seq(Picks) /\ Len(a) = Len(q) + 1 /\ Len(q) \in Nat
      /\ \A i \in 1..Len(a) : a[i] = p \/ \E j \in 1..Len(q) : a[i] = q[j]
      /\ Len(q) = 0 => a[1] = p
  OBVIOUS
<1> HIDE DEF a
<1>2. CASE Len(a) <= MaxQueue
  <2>1. Newest(a) = a
    BY <1>1, <1>2 DEF Newest
  <2> QED
    BY <1>1, <1>2, <2>1 DEF a
<1>3. CASE Len(a) > MaxQueue
  <2> DEFINE n == Newest(a)
  <2>1. n = SubSeq(a, 2, Len(a)) /\ Len(a) = MaxQueue + 1
    <3>1. n = SubSeq(a, Len(a) - MaxQueue + 1, Len(a)) /\ Len(a) = MaxQueue + 1
      BY <1>1, <1>3 DEF Newest
    <3>2. Len(a) - MaxQueue + 1 = 2
      BY <3>1
    <3> QED
      BY <3>1, <3>2
  <2>2. /\ SubSeq(a, 2, Len(a)) \in Seq(Picks) /\ Len(SubSeq(a, 2, Len(a))) = Len(a) - 1
        /\ \A i \in 1 .. Len(a) - 1 : SubSeq(a, 2, Len(a))[i] = a[i + 1]
    BY <1>1
  <2> HIDE DEF n
  <2>3. n \in Seq(Picks) /\ Len(n) = MaxQueue /\ \A i \in 1..Len(n) : n[i] = a[i + 1]
    BY <1>1, <2>1, <2>2
  <2>4. Len(q) # 0
    BY <1>1, <2>1
  <2>5. \A i \in 1..Len(n) : i + 1 \in 1..Len(a)
    BY <2>1, <2>3
  <2> QED
    BY <1>1, <2>3, <2>4, <2>5 DEF n, a
<1> QED
  BY <1>1, <1>2, <1>3
----------------------------------------------------------------------------
(***************************************************************************)
(* Types.                                                                  *)
(***************************************************************************)
\* Also, what a request keeps fits the step it is at.
InStep == \A r \in Requests : /\ req[r].pc = "chosen" => req[r].rule \in Targets
                              /\ req[r].since <= now
Typed == TypeOK /\ InStep

LEMMA ListsOf == \A list \in TargetLists : Members(list) \subseteq Targets
BY DEF TargetLists, Members

\* The next place of the rotation.
LEMMA NextPlace ==
  ASSUME NEW n \in Nat, NEW i \in Nat, i < n
  PROVE  Advance(i, n) = IF i + 1 = n THEN 0 ELSE i + 1
<1>1. CASE i + 1 < n
  <2>1. (i + 1) % n = i + 1
    BY <1>1
  <2> QED
    BY <1>1, <2>1 DEF Advance
<1>2. CASE i + 1 = n
  <2>1. n % n = 0
    OBVIOUS
  <2> QED
    BY <1>2, <2>1 DEF Advance
<1> QED
  BY <1>1, <1>2

\* The place of the list that is selected, counted from 1.
Place(r) == IF Len(req[r].list) = 1 \/ priority \/ rr >= Len(req[r].list) THEN 1 ELSE rr + 1

LEMMA SelectTyped ==
  ASSUME TypeOK, NEW r \in Requests, NEW t, Select(r, t)
  PROVE  /\ t \in Members(req[r].list) /\ t \in Targets
         /\ Place(r) \in 1..Len(req[r].list)
         /\ rr' \in Nat /\ even' \in BOOLEAN
         /\ rr' = IF Len(req[r].list) = 1 \/ priority THEN rr
                  ELSE IF Place(r) = Len(req[r].list) THEN 0 ELSE Place(r)
         /\ chosen' = IF req[r].list = table THEN [chosen EXCEPT ![Place(r)] = @ + 1] ELSE chosen
         /\ chosen' \in [DOMAIN table -> Nat]
<1> DEFINE list == req[r].list
           i == IF rr >= Len(list) THEN 0 ELSE rr
<1>1. list \in Seq(Targets) /\ list # <<>> /\ rr \in Nat /\ chosen \in [DOMAIN table -> Nat]
      /\ table \in Seq(Targets)
  BY DEF TypeOK, RequestStates, TargetLists, Select
<1> HIDE DEF list
<1>2. Len(list) \in Nat /\ Len(list) > 0 /\ DOMAIN list = 1..Len(list)
  BY <1>1
<1>3. i \in Nat /\ i < Len(list) /\ Place(r) \in 1..Len(list)
      /\ (~(Len(list) = 1 \/ priority) => Place(r) = i + 1)
  BY <1>1, <1>2 DEF Place, list
<1>4. t = list[Place(r)]
  BY <1>1, <1>2 DEF Select, Place, list
<1>5. t \in Members(list) /\ t \in Targets
  BY <1>1, <1>2, <1>3, <1>4 DEF Members
<1>6. rr' = IF Len(list) = 1 \/ priority THEN rr ELSE IF Place(r) = Len(list) THEN 0 ELSE Place(r)
  <2>1. Advance(i, Len(list)) = IF i + 1 = Len(list) THEN 0 ELSE i + 1
    BY <1>2, <1>3, NextPlace
  <2>2. rr' = IF Len(list) = 1 \/ priority THEN rr ELSE Advance(i, Len(list))
    BY DEF Select, list
  <2> QED
    BY <1>3, <2>1, <2>2
<1>7. rr' \in Nat
  BY <1>1, <1>3, <1>6
<1>8. chosen' = IF list = table THEN [chosen EXCEPT ![Place(r)] = @ + 1] ELSE chosen
  <2> DEFINE n == IF Len(list) = 1 \/ priority THEN 1 ELSE i + 1
  <2>1. chosen' = IF list = table THEN [chosen EXCEPT ![n] = @ + 1] ELSE chosen
    BY DEF Select, list
  <2>2. n = Place(r)
    BY <1>1, <1>2 DEF Place, list
  <2> HIDE DEF n
  <2> QED
    BY <2>1, <2>2
<1>9. chosen' \in [DOMAIN table -> Nat]
  BY <1>1, <1>2, <1>3, <1>8
<1>10. even' \in BOOLEAN
  BY DEF Select, TypeOK
<1> QED
  BY <1>3, <1>5, <1>6, <1>7, <1>8, <1>9, <1>10 DEF list

LEMMA RequestsTyped ==
  ASSUME Typed, NEW r \in Requests, RequestStep(r)
  PROVE  Typed'
<1>t. /\ req \in [Requests -> RequestStates] /\ req[r] \in RequestStates /\ req[r].key \in Keys
      /\ picks \in [Keys -> Queues] /\ models \in [Keys -> TargetLists] /\ secret \in [Keys -> Nat]
      /\ now \in 0..MaxEvents /\ now \in Nat /\ req[r].since \in Nat
  BY DEF Typed, TypeOK, RequestStates
<1> DEFINE Rest == UNCHANGED <<table, priority, models, live, secret, now, edits, granted>>
           Selection == rr' \in Nat /\ chosen' \in [DOMAIN table -> Nat] /\ even' \in BOOLEAN
           Lists == picks' \in [Keys -> Queues]
           Mixed == mixed' \in SUBSET Requests
           Req(s) == /\ req' = [req EXCEPT ![r] = s] /\ s \in RequestStates
                     /\ s.pc = "chosen" => s.rule \in Targets
                     /\ s.since <= now
<1>a. ASSUME NEW s, Req(s), Rest, Selection, Lists, Mixed PROVE Typed'
  <2>1. req' \in [Requests -> RequestStates] /\ InStep'
    BY <1>t, <1>a DEF InStep, Typed
  <2> QED
    BY <1>a, <2>1 DEF Typed, TypeOK
<1>o. <<>> \in TargetLists /\ 0 \in 0..MaxEvents
  BY DEF TargetLists
<1>x. Over(r) \in RequestStates /\ Over(r).pc = "over" /\ Over(r).since = 0
  BY <1>t, <1>o DEF Over, RequestStates, Phases
<1>q. \A k \in Keys : picks[k] \in Seq(Picks) /\ Len(picks[k]) <= MaxQueue
  BY <1>t DEF Queues
<1>u. Rest /\ UNCHANGED <<rr, chosen, even>> => Selection
  BY DEF Typed, TypeOK
<1>v. (UNCHANGED picks => Lists) /\ (UNCHANGED mixed => Mixed)
  BY DEF Typed, TypeOK
<1>w. \A k : Waiting(k) \subseteq Requests
  BY DEF Waiting
<1>y. UNCHANGED store => Lists /\ UNCHANGED <<table, priority, models, live, secret, rr>>
  BY <1>v DEF store
<1>z. UNCHANGED history => Mixed /\ UNCHANGED <<granted, chosen, even>>
  BY <1>v DEF history
<1>0. req' = [req EXCEPT ![r] = Over(r)] => Req(Over(r))
  BY <1>t, <1>x
<1>g. ASSUME NEW t, Select(r, t) PROVE Selection /\ t \in Targets
  BY <1>g, SelectTyped DEF Typed
<1> HIDE DEF Rest, Selection, Lists, Mixed, Req
<1>1. CASE FindBySecret(r)
  <2> DEFINE s == [req[r] EXCEPT !.pc = "found", !.secret = secret[req[r].key], !.list = models[req[r].key]]
  <2>1. s \in RequestStates /\ s.pc = "found" /\ s.since = req[r].since
    BY <1>t DEF RequestStates, Phases
  <2>2. req' = [req EXCEPT ![r] = s]
    BY <1>1 DEF FindBySecret
  <2> HIDE DEF s
  <2>3. Req(s)
    BY <2>1, <2>2 DEF Req, InStep, Typed
  <2>4. Rest
    BY <1>1, <1>y, <1>z DEF FindBySecret, Rest
  <2> QED
    BY <1>1, <1>a, <1>u, <1>y, <1>z, <2>3, <2>4 DEF FindBySecret
<1>2. ASSUME NEW t, Select(r, t), AuthSelect(r),
             req' = [req EXCEPT ![r] = [@ EXCEPT !.pc = "chosen", !.rule = t, !.list = <<>>, !.since = now]]
      PROVE  Typed'
  <2> DEFINE s == [req[r] EXCEPT !.pc = "chosen", !.rule = t, !.list = <<>>, !.since = now]
  <2>1. s \in RequestStates /\ s.rule = t /\ s.since = now /\ t \in Targets
    BY <1>2, <1>g, <1>t, <1>o DEF RequestStates, Phases
  <2>2. req' = [req EXCEPT ![r] = s]
    BY <1>2
  <2> HIDE DEF s
  <2>3. Req(s)
    BY <1>t, <2>1, <2>2 DEF Req
  <2>4. Rest
    BY <1>2 DEF AuthSelect, Rest
  <2> QED
    BY <1>2, <1>a, <1>g, <1>v, <2>3, <2>4 DEF AuthSelect
<1>3. CASE Reject(r)
  <2>1. Rest
    BY <1>3, <1>y, <1>z DEF Reject, Rest
  <2> QED
    BY <1>3, <1>0, <1>a, <1>u, <1>y, <1>z, <2>1 DEF Reject
<1>4. CASE RememberPick(r)
  <2> DEFINE k == req[r].key
  <2>1. PICK t \in req[r].since .. now :
             /\ picks' = [picks EXCEPT ![k] = Newest(Append(Prune(picks[k], t), [rule |-> req[r].rule, at |-> t]))]
             /\ req' = [req EXCEPT ![r] = [@ EXCEPT !.pc = "admitted", !.since = 0, !.at = t]]
             /\ mixed' \subseteq mixed \cup Waiting(k) \cup {r}
    BY <1>4 DEF RememberPick, PendingPickKey
  <2> DEFINE s == [req[r] EXCEPT !.pc = "admitted", !.since = 0, !.at = t]
             p == [rule |-> req[r].rule, at |-> t]
             q == Prune(picks[k], t)
  <2>2. t \in Nat /\ t \in 0..MaxEvents /\ req[r].rule \in Targets
    BY <1>t, <1>4, <2>1 DEF RememberPick, Typed, InStep
  <2>3. p \in Picks /\ s \in RequestStates /\ s.pc = "admitted" /\ s.since = 0
    BY <1>t, <1>o, <2>2 DEF Picks, RequestStates, Phases
  <2>4. q \in Seq(Picks) /\ Len(q) <= MaxQueue
    <3>1. q \in Seq(Picks) /\ Len(q) <= Len(picks[k]) /\ Len(picks[k]) <= MaxQueue
      BY <1>t, <1>q, <2>2, PruneKeeps
    <3> HIDE DEF q
    <3> QED
      BY <1>t, <1>q, <3>1
  <2>5. req' = [req EXCEPT ![r] = s] /\ picks' = [picks EXCEPT ![k] = Newest(Append(q, p))]
    BY <2>1
  <2> HIDE DEF s, p, q
  <2>6. Newest(Append(q, p)) \in Queues
    BY <2>3, <2>4, NewestKeeps DEF Queues
  <2>7. Lists
    BY <1>t, <2>5, <2>6 DEF Lists
  <2>8. Mixed
    BY <1>w, <2>1 DEF Typed, TypeOK, Mixed
  <2>9. Req(s)
    BY <1>t, <2>3, <2>5 DEF Req
  <2>10. Rest
    BY <1>4 DEF RememberPick, Rest
  <2> QED
    BY <1>4, <1>a, <1>u, <2>7, <2>8, <2>9, <2>10 DEF RememberPick
<1>5. ASSUME NEW from, NEW found \in Phases \ {"chosen"}, Lookup(r, from, found) PROVE Typed'
  <2> DEFINE s == [req[r] EXCEPT !.pc = found, !.list = models[req[r].key], !.since = now]
  <2>1. s \in RequestStates /\ s.pc = found /\ s.since = now
    BY <1>t, <1>5 DEF RequestStates
  <2>2. req' = [req EXCEPT ![r] = s] \/ req' = [req EXCEPT ![r] = Over(r)]
    BY <1>5 DEF Lookup
  <2> HIDE DEF s
  <2>3. Rest /\ Selection /\ Lists /\ Mixed
    <3>1. Rest
      BY <1>5, <1>y, <1>z DEF Lookup, Rest
    <3> QED
      BY <1>5, <1>u, <1>y, <1>z, <3>1 DEF Lookup
  <2>4. Req(s) \/ Req(Over(r))
    BY <1>t, <1>0, <2>1, <2>2 DEF Req
  <2> QED
    BY <1>a, <2>3, <2>4
<1>6. ASSUME NEW pick, TakePick(r, pick) PROVE Lists /\ Mixed /\ pick \in Picks
  <2> DEFINE k == req[r].key
  <2>1. PICK t \in req[r].since .. now :
             /\ Prune(picks[k], t) # <<>> /\ pick = Head(Prune(picks[k], t))
             /\ picks' = [picks EXCEPT ![k] = Tail(Prune(picks[k], t))]
             /\ mixed' \subseteq mixed \cup Waiting(k)
    BY <1>6 DEF TakePick, PendingPickKey
  <2> DEFINE q == Prune(picks[k], t)
  <2>2. q \in Seq(Picks) /\ Len(q) <= Len(picks[k]) /\ Len(picks[k]) <= MaxQueue
    BY <1>t, <1>q, <2>1, PruneKeeps
  <2> HIDE DEF q
  <2>3. q # <<>> => Tail(q) \in Seq(Picks) /\ Len(Tail(q)) = Len(q) - 1 /\ Head(q) \in Picks
    BY <2>2
  <2>4. Len(q) \in Nat /\ Len(picks[k]) \in Nat
    BY <1>t, <1>q, <2>2
  <2>5. q # <<>> => Tail(q) \in Queues
    BY <2>2, <2>3, <2>4 DEF Queues
  <2>6. Lists /\ pick \in Picks
    BY <1>t, <2>1, <2>3, <2>5 DEF q, Lists
  <2>7. Mixed
    BY <1>w, <2>1 DEF Typed, TypeOK, Mixed
  <2> QED
    BY <2>6, <2>7
<1>7. ASSUME NoPick(r) PROVE Lists
  <2>1. <<>> \in Queues
    BY DEF Queues
  <2> QED
    BY <1>t, <1>7, <2>1 DEF NoPick, PendingPickKey, Lists
<1>8. CASE RouteTake(r)
  <2>1. PICK pick : /\ TakePick(r, pick)
                    /\ req' = [req EXCEPT ![r] = [@ EXCEPT !.pc = "routed", !.list = <<>>,
                                                           !.routed = pick.rule, !.at = pick.at]]
    BY <1>8 DEF RouteTake
  <2>2. pick \in Picks /\ Lists /\ Mixed
    BY <1>6, <2>1
  <2> DEFINE s == [req[r] EXCEPT !.pc = "routed", !.list = <<>>, !.routed = pick.rule, !.at = pick.at]
  <2>3. s \in RequestStates /\ s.pc = "routed" /\ s.since = req[r].since
    BY <1>t, <1>o, <2>2 DEF RequestStates, Phases, Picks
  <2>4. req' = [req EXCEPT ![r] = s]
    BY <2>1
  <2> HIDE DEF s
  <2>5. Req(s)
    BY <2>3, <2>4 DEF Req, InStep, Typed
  <2>6. Rest
    BY <1>8 DEF RouteTake, Rest
  <2> QED
    BY <1>8, <1>a, <1>u, <2>2, <2>5, <2>6 DEF RouteTake
<1>9. ASSUME NEW from \in Phases, NEW to \in Phases \ {"chosen"}, req[r].pc = from, NoPick(r),
             req' = [req EXCEPT ![r] = IF req[r].list = <<>> THEN Over(r) ELSE [@ EXCEPT !.pc = to]],
             UNCHANGED <<table, priority, models, live, secret, rr, now, edits, history>>
      PROVE  Typed'
  <2> DEFINE s == [req[r] EXCEPT !.pc = to]
  <2>1. s \in RequestStates /\ s.pc = to /\ s.since = req[r].since
    BY <1>t, <1>9 DEF RequestStates
  <2>2. req' = [req EXCEPT ![r] = s] \/ req' = [req EXCEPT ![r] = Over(r)]
    BY <1>9
  <2> HIDE DEF s
  <2>3. Req(s) \/ Req(Over(r))
    BY <1>0, <2>1, <2>2 DEF Req, InStep, Typed
  <2>4. Rest
    BY <1>9, <1>z DEF Rest
  <2> QED
    BY <1>9, <1>7, <1>a, <1>u, <1>z, <2>3, <2>4
<1>10. CASE RouteSelect(r)
  <2>1. PICK t \in Targets :
           /\ Select(r, t)
           /\ req' = [req EXCEPT ![r] = [@ EXCEPT !.pc = "routed", !.list = <<>>, !.routed = t, !.at = now]]
    BY <1>10 DEF RouteSelect
  <2> DEFINE s == [req[r] EXCEPT !.pc = "routed", !.list = <<>>, !.routed = t, !.at = now]
  <2>2. s \in RequestStates /\ s.pc = "routed" /\ s.since = req[r].since
    BY <1>t, <1>o DEF RequestStates, Phases
  <2>3. req' = [req EXCEPT ![r] = s]
    BY <2>1
  <2> HIDE DEF s
  <2>4. Req(s)
    BY <2>2, <2>3 DEF Req, InStep, Typed
  <2>5. Rest
    BY <1>10 DEF RouteSelect, Rest
  <2> QED
    BY <1>10, <1>a, <1>g, <1>v, <2>1, <2>4, <2>5 DEF RouteSelect
<1>11. CASE AnswerTake(r)
  <2>1. Lists /\ Mixed
    BY <1>11, <1>6 DEF AnswerTake
  <2>2. Rest
    BY <1>11 DEF AnswerTake, Rest
  <2> QED
    BY <1>11, <1>0, <1>a, <1>u, <2>1, <2>2 DEF AnswerTake
<1>12. CASE AnswerSelect(r)
  <2>1. Selection
    BY <1>12, <1>g DEF AnswerSelect
  <2>2. Rest
    BY <1>12 DEF AnswerSelect, Rest
  <2> QED
    BY <1>12, <1>0, <1>a, <1>v, <2>1, <2>2 DEF AnswerSelect
<1> QED
  BY <1>1, <1>2, <1>3, <1>4, <1>5, <1>8, <1>9, <1>10, <1>11, <1>12
  DEF RequestStep, AuthSelect, RouteLookup, AnswerLookup, RouteMiss, AnswerMiss, Phases

\* What an edit leaves of the tables is typed, and so is its history.
LEMMA RestartTyped ==
  ASSUME Typed, Restart, table' \in TargetLists, models' \in [Keys -> TargetLists]
  PROVE  /\ granted' \in [Keys -> SUBSET Targets]
         /\ chosen' \in [DOMAIN table' -> Nat]
         /\ even' \in BOOLEAN
<1>1. ASSUME NEW k \in Keys PROVE granted[k] \cup Members(models'[k]) \subseteq Targets
  BY ListsOf DEF Typed, TypeOK
<1>2. granted' \in [Keys -> SUBSET Targets]
  BY <1>1 DEF Restart
<1> QED
  BY <1>2 DEF Restart

LEMMA AdminTyped == ASSUME Typed, AdminStep PROVE Typed'
<1>t. /\ table \in TargetLists /\ models \in [Keys -> TargetLists] /\ live \in SUBSET Keys
      /\ secret \in [Keys -> Nat] /\ picks \in [Keys -> Queues] /\ mixed \in SUBSET Requests
      /\ edits \in 0..MaxEvents /\ now \in 0..MaxEvents /\ <<>> \in TargetLists /\ <<>> \in Queues
  BY DEF Typed, TypeOK, TargetLists, Queues
<1>k. \A k \in Keys : ClearPicks(k) \in [Keys -> Queues]
  BY <1>t DEF ClearPicks
<1>w. \A k : Waiting(k) \subseteq Requests
  BY DEF Waiting
<1>e. Edit => edits' \in 0..MaxEvents
  BY <1>t DEF Edit
<1> DEFINE Rest == /\ UNCHANGED <<req, now>> /\ edits' \in 0..MaxEvents
                   /\ rr' \in Nat /\ priority' \in BOOLEAN
           Tables == table' \in TargetLists /\ models' \in [Keys -> TargetLists]
           Other == /\ live' \in SUBSET Keys /\ secret' \in [Keys -> Nat]
                    /\ picks' \in [Keys -> Queues] /\ mixed' \in SUBSET Requests
           Past == /\ granted' \in [Keys -> SUBSET Targets] /\ chosen' \in [DOMAIN table' -> Nat]
                   /\ even' \in BOOLEAN
<1>a. Rest /\ Tables /\ Other /\ Past => Typed'
  BY DEF Typed, TypeOK, InStep
<1>b. Tables /\ Restart => Past
  BY RestartTyped
<1>c. UNCHANGED <<table, granted, chosen, even>> => Past
  BY DEF Typed, TypeOK
<1>1. CASE UpsertAlias
  <2>1. PICK ts \in AliasEdits, p \in BOOLEAN :
             /\ table' = ts /\ priority' = p
             /\ models' = [k \in Keys |-> IF models[k] = <<>> THEN <<>> ELSE ts]
    BY <1>1 DEF UpsertAlias
  <2>2. ts \in TargetLists
    OBVIOUS
  <2>3. Tables
    BY <1>t, <2>1, <2>2
  <2>4. Other
    BY <1>1, <1>t DEF UpsertAlias
  <2>5. Rest
    BY <1>1, <1>e, <2>1 DEF UpsertAlias, Typed, TypeOK
  <2> QED
    BY <1>1, <1>a, <1>b, <2>3, <2>4, <2>5 DEF UpsertAlias
<1>2. CASE DeleteAlias
  <2>1. Tables /\ Other
    BY <1>2, <1>t DEF DeleteAlias
  <2>2. Rest
    BY <1>2, <1>e DEF DeleteAlias, Typed, TypeOK
  <2> QED
    BY <1>2, <1>a, <1>b, <2>1, <2>2 DEF DeleteAlias
<1>3. ASSUME NEW k \in Keys, UpsertKey(k) PROVE Typed'
  <2>1. PICK ts \in {table, <<>>} \cup {Append(table, t) : t \in Targets \ Members(table)} :
             /\ table' = IF ts = <<>> THEN table ELSE ts
             /\ priority' = (priority /\ table # <<>>)
             /\ models' = [models EXCEPT ![k] = ts]
    BY <1>3 DEF UpsertKey
  <2>2. ts \in TargetLists
    <3>1. \A t \in Targets : Append(table, t) \in TargetLists
      BY <1>t DEF TargetLists
    <3> QED
      BY <1>t, <2>1, <3>1
  <2>3. Tables
    BY <1>t, <2>1, <2>2
  <2>4. Other
    BY <1>3, <1>t, <1>k, <1>w DEF UpsertKey
  <2>5. Rest
    BY <1>3, <1>e, <2>1 DEF UpsertKey, Typed, TypeOK
  <2> QED
    BY <1>3, <1>a, <1>b, <2>3, <2>4, <2>5 DEF UpsertKey
<1>4. ASSUME NEW k \in Keys, RotateKey(k) PROVE Typed'
  <2>1. Tables /\ Other
    BY <1>4, <1>t, <1>k, <1>w DEF RotateKey
  <2>2. Rest
    BY <1>4, <1>e DEF RotateKey, Typed, TypeOK
  <2> QED
    BY <1>4, <1>a, <1>c, <2>1, <2>2 DEF RotateKey
<1>5. ASSUME NEW k \in Keys, DeleteKey(k) PROVE Typed'
  <2>1. Tables /\ Other
    BY <1>5, <1>t, <1>k, <1>w DEF DeleteKey
  <2>2. Rest
    BY <1>5, <1>e DEF DeleteKey, Typed, TypeOK
  <2> QED
    BY <1>5, <1>a, <1>c, <2>1, <2>2 DEF DeleteKey
<1>6. CASE Configure
  <2>1. Tables
    BY <1>6, <1>t DEF Configure
  <2>2. Other
    BY <1>6, <1>t, <1>w DEF Configure
  <2>3. Rest
    BY <1>6, <1>e DEF Configure, Typed, TypeOK
  <2> QED
    BY <1>6, <1>a, <1>b, <2>1, <2>2, <2>3 DEF Configure
<1> QED
  BY <1>1, <1>2, <1>3, <1>4, <1>5, <1>6 DEF AdminStep

LEMMA TickTyped == ASSUME Typed, Tick PROVE Typed'
<1>1. /\ now \in 0..MaxEvents /\ edits \in 0..MaxEvents /\ req \in [Requests -> RequestStates]
      /\ mixed \in SUBSET Requests
  BY DEF Typed, TypeOK
<1>2. now' \in 0..MaxEvents /\ now' = now + 1
  BY <1>1 DEF Tick
<1>3. mixed' \in SUBSET Requests
  BY <1>1 DEF Tick, Waiting
<1>4. \A r \in Requests : req[r].since \in Nat
  BY <1>1 DEF RequestStates
<1>5. InStep'
  BY <1>1, <1>2, <1>4 DEF Tick, Typed, InStep
<1> QED
  BY <1>2, <1>3, <1>5 DEF Tick, Typed, TypeOK, store

LEMMA TypedInit == Init => Typed
<1> SUFFICES ASSUME Init PROVE Typed
  OBVIOUS
<1>1. table \in TargetLists /\ <<>> \in TargetLists /\ <<>> \in Queues
  BY DEF Init, TargetLists, Queues
<1>2. models \in [Keys -> TargetLists]
  BY <1>1 DEF Init
<1>3. granted \in [Keys -> SUBSET Targets]
  BY <1>2, ListsOf DEF Init
<1>4. req \in [Requests -> RequestStates] /\ InStep
  <2>1. ASSUME NEW r \in Requests
        PROVE  req[r] \in RequestStates /\ req[r].pc = "new" /\ req[r].since = 0
    <3>1. PICK k \in Keys :
            req[r] = [pc |-> "new", key |-> k, secret |-> 0, list |-> <<>>, since |-> 0, at |-> 0,
                      rule |-> NoTarget, routed |-> NoTarget]
      BY DEF Init
    <3> QED
      BY <1>1, <3>1 DEF RequestStates, Phases
  <2>2. now = 0 /\ req \in [Requests -> RequestStates]
    BY <2>1 DEF Init
  <2> QED
    BY <2>1, <2>2 DEF InStep
<1>5. /\ live \in SUBSET Keys /\ secret \in [Keys -> Nat] /\ picks \in [Keys -> Queues]
      /\ chosen \in [DOMAIN table -> Nat]
      /\ now \in 0..MaxEvents /\ edits \in 0..MaxEvents
  BY <1>1 DEF Init
<1> QED
  BY <1>1, <1>2, <1>3, <1>4, <1>5 DEF Init, Typed, TypeOK

LEMMA TypedStep == Typed /\ [Next]_vars => Typed'
<1>1. Typed /\ UNCHANGED vars => Typed'
  BY DEF Typed, TypeOK, InStep, vars, store, history
<1> QED
  BY <1>1, RequestsTyped, AdminTyped, TickTyped DEF Next

LEMMA AlwaysTyped == Spec => []Typed
BY TypedInit, TypedStep, PTL DEF Spec

\* Among what TypeOK says: no queue of selections outgrows its limit, however
\* many requests never come for theirs.
THEOREM TypeCorrect == Spec => []TypeOK
<1>1. Typed => TypeOK
  BY DEF Typed
<1> QED
  BY <1>1, AlwaysTyped, PTL
----------------------------------------------------------------------------
(***************************************************************************)
(* Taking and leaving selections.                                          *)
(***************************************************************************)
\* Every entry of the queues after a step was in the same queue before.
NoneAdded == \A k \in Keys : \A i \in 1..Len(picks'[k]) :
                \E j \in 1..Len(picks[k]) : picks'[k][i] = picks[k][j]

\* The one entry of the queue is of this selection, and cannot expire yet.
Alone(k, rule, at) == /\ Len(picks[k]) = 1 /\ picks[k][1].rule = rule /\ picks[k][1].at = at
                      /\ now <= at + TTL

LEMMA QueuesTyped ==
  ASSUME Typed, NEW k \in Keys
  PROVE  /\ picks[k] \in Seq(Picks) /\ Len(picks[k]) <= MaxQueue
         /\ \A i \in 1..Len(picks[k]) : picks[k][i] \in Picks /\ picks[k][i].at \in Nat
<1>1. picks[k] \in Seq(Picks) /\ Len(picks[k]) <= MaxQueue
  BY DEF Typed, TypeOK, Queues
<1>2. \A i \in 1..Len(picks[k]) : picks[k][i] \in Picks
  BY <1>1
<1> QED
  BY <1>1, <1>2, PicksHaveTimes

LEMMA RequestTyped ==
  ASSUME Typed, NEW r \in Requests
  PROVE  /\ req \in [Requests -> RequestStates] /\ req[r] \in RequestStates /\ req[r].key \in Keys
         /\ req[r].since \in Nat /\ req[r].at \in Nat /\ now \in Nat /\ req[r].since <= now
         /\ req[r].list \in Seq(Targets)
BY DEF Typed, TypeOK, InStep, RequestStates, TargetLists

LEMMA TakeMoves ==
  ASSUME Typed, NEW r \in Requests, NEW pick, TakePick(r, pick)
  PROVE  LET k == req[r].key
         IN  /\ \E j \in 1..Len(picks[k]) : pick = picks[k][j]
             /\ req[r].since <= pick.at + TTL
             /\ NoneAdded
             /\ \A p \in Keys \ {k} : picks'[p] = picks[p]
             /\ mixed' = mixed \cup (Waiting(k) \ {r})
             /\ \A rule, at : Alone(k, rule, at) => pick.rule = rule
<1> DEFINE k == req[r].key
<1>t. k \in Keys /\ req[r].since \in Nat /\ now \in Nat /\ picks \in [Keys -> Queues]
  BY RequestTyped DEF Typed, TypeOK
<1>1. PICK t \in req[r].since .. now :
           /\ Prune(picks[k], t) # <<>> /\ pick = Head(Prune(picks[k], t))
           /\ picks' = [picks EXCEPT ![k] = Tail(Prune(picks[k], t))]
           /\ mixed' = mixed \cup (Waiting(k) \ {r})
  BY DEF TakePick, PendingPickKey
<1> DEFINE q == Prune(picks[k], t)
           old == picks[k]
<1>2. t \in Nat /\ req[r].since <= t /\ t <= now /\ old \in Seq(Picks)
  BY <1>t, <1>1, QueuesTyped
<1>3. /\ q \in Seq(Picks) /\ q # <<>> /\ q[1].at + TTL >= t
      /\ \A i \in 1..Len(q) : \E j \in 1..Len(old) : q[i] = old[j]
      /\ Len(old) = 1 /\ old[1].at + TTL >= t => q[1] = old[1]
  BY <1>1, <1>2, PruneKeeps
<1>4. picks' = [picks EXCEPT ![k] = Tail(q)] /\ pick = Head(q)
  BY <1>1
<1> HIDE DEF q
<1>5. /\ pick = q[1] /\ pick \in Picks /\ 1 \in 1..Len(q)
      /\ Len(Tail(q)) = Len(q) - 1 /\ \A i \in 1..Len(q) - 1 : Tail(q)[i] = q[i + 1]
  BY <1>3, <1>4
<1>6. \E j \in 1..Len(old) : pick = old[j]
  BY <1>3, <1>5
<1>7. req[r].since <= pick.at + TTL
  BY <1>t, <1>2, <1>3, <1>5, PicksHaveTimes
<1>8. ASSUME NEW i \in 1..Len(Tail(q)) PROVE \E j \in 1..Len(old) : Tail(q)[i] = old[j]
  <2>1. i + 1 \in 1..Len(q) /\ Tail(q)[i] = q[i + 1]
    BY <1>3, <1>5
  <2> QED
    BY <1>3, <2>1
<1>9. picks'[k] = Tail(q) /\ \A p \in Keys \ {k} : picks'[p] = picks[p]
  BY <1>t, <1>4
<1>10. NoneAdded
  <2>1. \A i \in 1..Len(picks'[k]) : \E j \in 1..Len(picks[k]) : picks'[k][i] = picks[k][j]
    BY <1>8, <1>9
  <2>2. ASSUME NEW p \in Keys, p # k, NEW i \in 1..Len(picks'[p])
        PROVE  \E j \in 1..Len(picks[p]) : picks'[p][i] = picks[p][j]
    BY <1>9, <2>2
  <2> HIDE DEF k
  <2> QED
    BY <2>1, <2>2 DEF NoneAdded
<1>11. ASSUME NEW rule, NEW at, Alone(k, rule, at) PROVE pick.rule = rule
  <2>1. Len(old) = 1 /\ old[1] \in Picks /\ old[1].rule = rule /\ now <= old[1].at + TTL
    BY <1>t, <1>11, QueuesTyped DEF Alone
  <2> HIDE DEF old
  <2>2. old[1].at + TTL >= t
    BY <1>t, <1>2, <2>1, PicksHaveTimes
  <2> QED
    BY <1>3, <1>5, <2>1, <2>2
<1> QED
  BY <1>1, <1>6, <1>7, <1>9, <1>10, <1>11

LEMMA NoPickMoves ==
  ASSUME Typed, NEW r \in Requests, NoPick(r)
  PROVE  LET k == req[r].key
         IN  /\ NoneAdded
             /\ \A p \in Keys \ {k} : picks'[p] = picks[p]
             /\ \A rule, at : ~Alone(k, rule, at)
<1> DEFINE k == req[r].key
           old == picks[k]
<1>t. k \in Keys /\ req[r].since \in Nat /\ now \in Nat /\ picks \in [Keys -> Queues]
  BY RequestTyped DEF Typed, TypeOK
<1>1. PICK t \in req[r].since .. now : Prune(old, t) = <<>> /\ picks' = [picks EXCEPT ![k] = <<>>]
  BY DEF NoPick, PendingPickKey
<1>2. picks'[k] = <<>> /\ \A p \in Keys \ {k} : picks'[p] = picks[p]
  BY <1>t, <1>1
<1>3. NoneAdded
  BY <1>2 DEF NoneAdded
<1>4. ASSUME NEW rule, NEW at, Alone(k, rule, at) PROVE FALSE
  <2>1. /\ old \in Seq(Picks) /\ Len(old) = 1 /\ old[1] \in Picks /\ now <= old[1].at + TTL
        /\ t \in Nat /\ t <= now
    BY <1>t, <1>1, <1>4, QueuesTyped DEF Alone
  <2> HIDE DEF old
  <2>2. old[1].at + TTL >= t
    BY <1>t, <2>1, PicksHaveTimes
  <2>3. Len(Prune(old, t)) = 1
    BY <2>1, <2>2, PruneKeeps
  <2> QED
    BY <1>1, <2>3
<1> QED
  BY <1>2, <1>3, <1>4

LEMMA RememberMoves ==
  ASSUME Typed, NEW r \in Requests, RememberPick(r)
  PROVE  LET k == req[r].key
         IN  \E t \in Nat :
             /\ req' = [req EXCEPT ![r] = [@ EXCEPT !.pc = "admitted", !.since = 0, !.at = t]]
             /\ \A i \in 1..Len(picks'[k]) : \/ picks'[k][i] = [rule |-> req[r].rule, at |-> t]
                                             \/ \E j \in 1..Len(picks[k]) : picks'[k][i] = picks[k][j]
             /\ \A p \in Keys \ {k} : picks'[p] = picks[p]
             /\ Waiting(k) \cup mixed \subseteq mixed'
             /\ \/ r \in mixed'
                \/ /\ Len(picks'[k]) = 1 /\ picks'[k][1] = [rule |-> req[r].rule, at |-> t]
                   /\ now' <= t + TTL
<1> DEFINE k == req[r].key
<1>t. /\ k \in Keys /\ req[r].since \in Nat /\ now \in Nat /\ picks \in [Keys -> Queues]
      /\ now \in 0..MaxEvents
  BY RequestTyped DEF Typed, TypeOK
<1>1. PICK t \in req[r].since .. now :
           /\ picks' = [picks EXCEPT ![k] = Newest(Append(Prune(picks[k], t), [rule |-> req[r].rule, at |-> t]))]
           /\ req' = [req EXCEPT ![r] = [@ EXCEPT !.pc = "admitted", !.since = 0, !.at = t]]
           /\ mixed' = mixed \cup Waiting(k) \cup (IF picks[k] = <<>> /\ now <= t + TTL THEN {} ELSE {r})
           /\ UNCHANGED now
  BY DEF RememberPick, PendingPickKey
<1> DEFINE p == [rule |-> req[r].rule, at |-> t]
           old == picks[k]
           q == Prune(old, t)
           n == Newest(Append(q, p))
<1>2. t \in Nat /\ t \in 0..MaxEvents /\ req[r].rule \in Targets /\ old \in Seq(Picks) /\ Len(old) <= MaxQueue
  BY <1>t, <1>1, QueuesTyped DEF RememberPick, Typed, InStep
<1>3. p \in Picks /\ p.rule = req[r].rule /\ p.at = t
  BY <1>2 DEF Picks
<1>4. /\ q \in Seq(Picks) /\ Len(q) <= Len(old)
      /\ \A i \in 1..Len(q) : \E j \in 1..Len(old) : q[i] = old[j]
  BY <1>2, PruneKeeps
<1>5. picks'[k] = n /\ \A x \in Keys \ {k} : picks'[x] = picks[x]
  BY <1>t, <1>1
<1>m. Waiting(k) \cup mixed \subseteq mixed' /\ (r \in mixed' \/ (old = <<>> /\ now <= t + TTL))
  BY <1>1
<1>o. old = <<>> => Len(old) = 0
  OBVIOUS
<1> HIDE DEF old, q, p
<1>6. Len(q) <= MaxQueue
  BY <1>2, <1>4
<1>7. /\ \A i \in 1..Len(n) : n[i] = p \/ \E j \in 1..Len(q) : n[i] = q[j]
      /\ Len(q) = 0 => Len(n) = 1 /\ n[1] = p
  BY <1>3, <1>4, <1>6, NewestKeeps
<1> HIDE DEF n
<1>8. \A i \in 1..Len(n) : n[i] = p \/ \E j \in 1..Len(old) : n[i] = old[j]
  BY <1>4, <1>7
<1>9. ASSUME r \notin mixed' PROVE Len(n) = 1 /\ n[1] = p /\ now' <= t + TTL
  <2>1. Len(old) = 0 /\ now <= t + TTL
    BY <1>9, <1>m, <1>o
  <2> QED
    BY <1>1, <1>4, <1>7, <2>1
<1> QED
  <2> DEFINE New(x) == [rule |-> req[r].rule, at |-> x]
             Conclusion(x) ==
               /\ \A i \in 1..Len(picks'[k]) : \/ picks'[k][i] = New(x)
                                               \/ \E j \in 1..Len(picks[k]) : picks'[k][i] = picks[k][j]
               /\ Waiting(k) \cup mixed \subseteq mixed'
               /\ r \in mixed' \/ (Len(picks'[k]) = 1 /\ picks'[k][1] = New(x) /\ now' <= x + TTL)
  <2>1. p = New(t)
    BY DEF p
  <2> HIDE DEF New
  <2>2. Conclusion(t)
    BY <1>5, <1>8, <1>9, <1>m, <2>1 DEF old
  <2> QED
    BY <1>1, <1>2, <1>5, <2>2 DEF New
----------------------------------------------------------------------------
(***************************************************************************)
(* Own targets, and fresh ones.                                            *)
(***************************************************************************)
\* Whatever a key has, whatever was selected for it and whatever its requests
\* carry was its own at some time.
OwnKey(k) == /\ Members(models[k]) \subseteq granted[k]
             /\ \A i \in 1..Len(picks[k]) : picks[k][i].rule \in granted[k]
OwnRequest(r) == LET own == granted[req[r].key]
                 IN  /\ Members(req[r].list) \subseteq own
                     /\ req[r].rule \in own \cup {NoTarget}
                     /\ req[r].routed \in own \cup {NoTarget}
                     /\ req[r].pc = "routed" => req[r].routed # NoTarget
InTime(r) == req[r].pc = "routed" => req[r].since <= req[r].at + TTL

Rightful == /\ \A k \in Keys : OwnKey(k)
            /\ \A r \in Requests : OwnRequest(r) /\ InTime(r)

LEMMA RightfulRequests ==
  ASSUME Typed, Rightful, NEW r \in Requests, RequestStep(r)
  PROVE  Rightful'
<1> DEFINE own == granted[req[r].key]
           Fits(s) == /\ req' = [req EXCEPT ![r] = s] /\ s.key = req[r].key
                      /\ Members(s.list) \subseteq own
                      /\ s.rule \in own \cup {NoTarget} /\ s.routed \in own \cup {NoTarget}
                      /\ s.pc = "routed" => s.routed # NoTarget /\ s.since <= s.at + TTL
           QueuesFit == \A k \in Keys : \A i \in 1..Len(picks'[k]) : picks'[k][i].rule \in granted[k]
<1>t. /\ req \in [Requests -> RequestStates] /\ req[r] \in RequestStates /\ req[r].key \in Keys
      /\ req[r].since \in Nat /\ now \in Nat /\ req[r].since <= now
  BY RequestTyped
<1>o. /\ Members(req[r].list) \subseteq own /\ Members(models[req[r].key]) \subseteq own
      /\ req[r].rule \in own \cup {NoTarget} /\ req[r].routed \in own \cup {NoTarget}
      /\ \A k \in Keys : \A i \in 1..Len(picks[k]) : picks[k][i].rule \in granted[k]
  BY <1>t DEF Rightful, OwnRequest, OwnKey
<1>e. Members(<<>>) = {}
  BY DEF Members
<1>a. ASSUME NEW s, Fits(s), QueuesFit, UNCHANGED <<models, granted>> PROVE Rightful'
  <2>1. req'[r] = s /\ \A p \in Requests \ {r} : req'[p] = req[p]
    BY <1>t, <1>a
  <2>2. ASSUME NEW p \in Requests PROVE OwnRequest(p)' /\ InTime(p)'
    <3>1. CASE p = r
      BY <1>a, <2>1, <3>1 DEF OwnRequest, InTime
    <3>2. CASE p # r
      BY <1>a, <2>1, <3>2 DEF Rightful, OwnRequest, InTime
    <3> QED
      BY <3>1, <3>2
  <2>3. ASSUME NEW k \in Keys PROVE OwnKey(k)'
    BY <1>a DEF Rightful, OwnKey
  <2> QED
    BY <2>2, <2>3 DEF Rightful
<1>b. UNCHANGED picks => QueuesFit
  BY <1>o
<1>c. NoneAdded => QueuesFit
  BY <1>o DEF NoneAdded
<1>x. req' = [req EXCEPT ![r] = Over(r)] => Fits(Over(r))
  <2>1. /\ Over(r).key = req[r].key /\ Over(r).pc = "over" /\ Over(r).list = <<>>
        /\ Over(r).rule = NoTarget /\ Over(r).routed = req[r].routed
    BY <1>t DEF Over, RequestStates
  <2> QED
    BY <1>o, <1>e, <2>1
<1>g. ASSUME NEW t, Select(r, t) PROVE t \in own /\ t # NoTarget
  BY <1>o, <1>g, SelectTyped DEF Typed
<1> HIDE DEF Fits, QueuesFit, own
<1>1. CASE FindBySecret(r)
  <2> DEFINE s == [req[r] EXCEPT !.pc = "found", !.secret = secret[req[r].key], !.list = models[req[r].key]]
  <2>1. /\ s.key = req[r].key /\ s.pc = "found" /\ s.list = models[req[r].key]
        /\ s.rule = req[r].rule /\ s.routed = req[r].routed
    BY <1>t DEF RequestStates
  <2>2. req' = [req EXCEPT ![r] = s]
    BY <1>1 DEF FindBySecret
  <2> HIDE DEF s
  <2>3. Fits(s)
    BY <1>o, <2>1, <2>2 DEF Fits
  <2> QED
    BY <1>1, <1>a, <1>b, <2>3 DEF FindBySecret, store, history
<1>2. CASE AuthSelect(r)
  <2>1. PICK t \in Targets : /\ Select(r, t)
           /\ req' = [req EXCEPT ![r] = [@ EXCEPT !.pc = "chosen", !.rule = t, !.list = <<>>, !.since = now]]
    BY <1>2 DEF AuthSelect
  <2> DEFINE s == [req[r] EXCEPT !.pc = "chosen", !.rule = t, !.list = <<>>, !.since = now]
  <2>2. /\ s.key = req[r].key /\ s.pc = "chosen" /\ s.list = <<>>
        /\ s.rule = t /\ s.routed = req[r].routed
    BY <1>t DEF RequestStates
  <2>3. req' = [req EXCEPT ![r] = s]
    BY <2>1
  <2> HIDE DEF s
  <2>4. Fits(s)
    BY <1>o, <1>e, <1>g, <2>1, <2>2, <2>3 DEF Fits
  <2> QED
    BY <1>2, <1>a, <1>b, <2>4 DEF AuthSelect
<1>3. CASE Reject(r)
  BY <1>3, <1>a, <1>b, <1>x DEF Reject, store, history
<1>4. CASE RememberPick(r)
  <2>1. PICK t \in Nat :
             /\ req' = [req EXCEPT ![r] = [@ EXCEPT !.pc = "admitted", !.since = 0, !.at = t]]
             /\ \A i \in 1..Len(picks'[req[r].key]) :
                  \/ picks'[req[r].key][i] = [rule |-> req[r].rule, at |-> t]
                  \/ \E j \in 1..Len(picks[req[r].key]) : picks'[req[r].key][i] = picks[req[r].key][j]
             /\ \A p \in Keys \ {req[r].key} : picks'[p] = picks[p]
    BY <1>4, RememberMoves
  <2> DEFINE s == [req[r] EXCEPT !.pc = "admitted", !.since = 0, !.at = t]
             k == req[r].key
  <2>2. /\ s.key = k /\ s.pc = "admitted" /\ s.list = req[r].list
        /\ s.rule = req[r].rule /\ s.routed = req[r].routed
    BY <1>t DEF RequestStates
  <2>3. req' = [req EXCEPT ![r] = s]
    BY <2>1
  <2>4. req[r].rule \in own
    BY <1>4, <1>o DEF RememberPick, Typed, InStep
  <2> HIDE DEF s
  <2>5. Fits(s)
    BY <1>o, <2>2, <2>3 DEF Fits
  <2>6. QueuesFit
    <3>1. ASSUME NEW i \in 1..Len(picks'[k]) PROVE picks'[k][i].rule \in granted[k]
      BY <1>t, <1>o, <2>1, <2>4 DEF own
    <3>2. ASSUME NEW p \in Keys, p # k, NEW i \in 1..Len(picks'[p]) PROVE picks'[p][i].rule \in granted[p]
      BY <1>o, <2>1, <3>2
    <3> HIDE DEF k
    <3> QED
      BY <3>1, <3>2 DEF QueuesFit
  <2> QED
    BY <1>4, <1>a, <2>5, <2>6 DEF RememberPick
<1>5. ASSUME NEW from, NEW found \in Phases \ {"routed"}, Lookup(r, from, found) PROVE Rightful'
  <2> DEFINE s == [req[r] EXCEPT !.pc = found, !.list = models[req[r].key], !.since = now]
  <2>1. /\ s.key = req[r].key /\ s.pc = found /\ s.list = models[req[r].key]
        /\ s.rule = req[r].rule /\ s.routed = req[r].routed
    BY <1>t DEF RequestStates
  <2>2. req' = [req EXCEPT ![r] = s] \/ req' = [req EXCEPT ![r] = Over(r)]
    BY <1>5 DEF Lookup
  <2> HIDE DEF s
  <2>3. Fits(s) \/ Fits(Over(r))
    BY <1>5, <1>o, <1>x, <2>1, <2>2 DEF Fits
  <2> QED
    BY <1>5, <1>a, <1>b, <2>3 DEF Lookup, store, history
<1>6. CASE RouteTake(r)
  <2>1. PICK pick : /\ TakePick(r, pick)
                    /\ req' = [req EXCEPT ![r] = [@ EXCEPT !.pc = "routed", !.list = <<>>,
                                                           !.routed = pick.rule, !.at = pick.at]]
    BY <1>6 DEF RouteTake
  <2> DEFINE s == [req[r] EXCEPT !.pc = "routed", !.list = <<>>, !.routed = pick.rule, !.at = pick.at]
  <2>2. /\ \E j \in 1..Len(picks[req[r].key]) : pick = picks[req[r].key][j]
        /\ req[r].since <= pick.at + TTL /\ NoneAdded
    BY <2>1, TakeMoves
  <2>3. /\ s.key = req[r].key /\ s.pc = "routed" /\ s.list = <<>> /\ s.rule = req[r].rule
        /\ s.routed = pick.rule /\ s.since = req[r].since /\ s.at = pick.at
    BY <1>t DEF RequestStates
  <2>4. req' = [req EXCEPT ![r] = s]
    BY <2>1
  <2> HIDE DEF s
  <2>5. pick.rule \in own /\ pick.rule # NoTarget
    BY <1>t, <1>o, <2>2, QueuesTyped, PicksHaveTimes DEF own
  <2>6. Fits(s)
    BY <1>o, <1>e, <2>2, <2>3, <2>4, <2>5 DEF Fits
  <2> QED
    BY <1>6, <1>a, <1>c, <2>2, <2>6 DEF RouteTake
<1>7. ASSUME NEW to \in Phases \ {"routed"}, NoPick(r),
             req' = [req EXCEPT ![r] = IF req[r].list = <<>> THEN Over(r) ELSE [@ EXCEPT !.pc = to]],
             UNCHANGED <<models, granted>>
      PROVE  Rightful'
  <2> DEFINE s == [req[r] EXCEPT !.pc = to]
  <2>1. /\ s.key = req[r].key /\ s.pc = to /\ s.list = req[r].list
        /\ s.rule = req[r].rule /\ s.routed = req[r].routed
    BY <1>t DEF RequestStates
  <2>2. req' = [req EXCEPT ![r] = s] \/ req' = [req EXCEPT ![r] = Over(r)]
    BY <1>7
  <2> HIDE DEF s
  <2>3. Fits(s) \/ Fits(Over(r))
    BY <1>7, <1>o, <1>x, <2>1, <2>2 DEF Fits
  <2> QED
    BY <1>7, <1>a, <1>c, <2>3, NoPickMoves
<1>8. CASE RouteSelect(r)
  <2>1. PICK t \in Targets : /\ Select(r, t)
           /\ req' = [req EXCEPT ![r] = [@ EXCEPT !.pc = "routed", !.list = <<>>, !.routed = t, !.at = now]]
    BY <1>8 DEF RouteSelect
  <2> DEFINE s == [req[r] EXCEPT !.pc = "routed", !.list = <<>>, !.routed = t, !.at = now]
  <2>2. /\ s.key = req[r].key /\ s.pc = "routed" /\ s.list = <<>> /\ s.rule = req[r].rule
        /\ s.routed = t /\ s.since = req[r].since /\ s.at = now
    BY <1>t DEF RequestStates
  <2>3. req' = [req EXCEPT ![r] = s]
    BY <2>1
  <2> HIDE DEF s
  <2>4. req[r].since <= now + TTL
    BY <1>t
  <2>5. Fits(s)
    BY <2>4, <1>t, <1>o, <1>e, <1>g, <2>1, <2>2, <2>3 DEF Fits
  <2> QED
    BY <1>8, <1>a, <1>b, <2>5 DEF RouteSelect
<1>9. CASE AnswerTake(r)
  BY <1>9, <1>a, <1>c, <1>x, TakeMoves DEF AnswerTake
<1>10. CASE AnswerSelect(r)
  BY <1>10, <1>a, <1>b, <1>x DEF AnswerSelect
<1> QED
  BY <1>1, <1>2, <1>3, <1>4, <1>5, <1>6, <1>7, <1>8, <1>9, <1>10
  DEF RequestStep, RouteLookup, AnswerLookup, RouteMiss, AnswerMiss, Phases, history

\* An edit of the lists gives every key what it has from now on.
LEMMA RightfulRestart ==
  ASSUME Typed, Rightful, Restart, UNCHANGED req,
         \A k \in Keys : picks'[k] = picks[k] \/ picks'[k] = <<>>
  PROVE  Rightful'
<1>1. \A k \in Keys : granted'[k] = granted[k] \cup Members(models'[k])
  BY DEF Restart
<1>2. ASSUME NEW k \in Keys PROVE OwnKey(k)'
  BY <1>1, <1>2 DEF Rightful, OwnKey
<1>3. ASSUME NEW r \in Requests PROVE OwnRequest(r)' /\ InTime(r)'
  <2>1. granted[req[r].key] \subseteq granted'[req[r].key]
    BY <1>1, RequestTyped
  <2> QED
    BY <2>1 DEF Rightful, OwnRequest, InTime
<1> QED
  BY <1>2, <1>3 DEF Rightful

LEMMA RightfulAdmin == ASSUME Typed, Rightful, AdminStep PROVE Rightful'
<1>t. picks \in [Keys -> Queues] /\ models \in [Keys -> TargetLists]
  BY DEF Typed, TypeOK
<1>c. ASSUME NEW k \in Keys, picks' = ClearPicks(k)
      PROVE  \A p \in Keys : picks'[p] = picks[p] \/ picks'[p] = <<>>
  BY <1>t, <1>c DEF ClearPicks
<1>1. CASE UpsertAlias
  BY <1>1, RightfulRestart DEF UpsertAlias
<1>2. CASE DeleteAlias
  BY <1>2, RightfulRestart DEF DeleteAlias
<1>3. ASSUME NEW k \in Keys, UpsertKey(k) PROVE Rightful'
  BY <1>3, <1>c, RightfulRestart DEF UpsertKey
<1>4. CASE Configure
  BY <1>4, RightfulRestart DEF Configure
<1>5. ASSUME NEW k \in Keys, RotateKey(k) \/ DeleteKey(k) PROVE Rightful'
  <2>1. picks' = ClearPicks(k) /\ UNCHANGED <<granted, req>>
    BY <1>5 DEF RotateKey, DeleteKey
  <2>2. \A p \in Keys : models'[p] = models[p] \/ (Members(models[p]))' = {}
    BY <1>t, <1>5 DEF RotateKey, DeleteKey, Members
  <2>3. ASSUME NEW p \in Keys PROVE OwnKey(p)'
    <3>1. OwnKey(p)
      BY DEF Rightful
    <3>2. (Members(models[p]))' \subseteq granted[p]
      BY <2>2, <3>1 DEF OwnKey
    <3>3. picks'[p] = picks[p] \/ picks'[p] = <<>>
      BY <1>c, <2>1
    <3> QED
      BY <2>1, <3>1, <3>2, <3>3 DEF OwnKey
  <2>4. ASSUME NEW r \in Requests PROVE OwnRequest(r)' /\ InTime(r)'
    BY <2>1 DEF Rightful, OwnRequest, InTime
  <2> QED
    BY <2>3, <2>4 DEF Rightful
<1> QED
  BY <1>1, <1>2, <1>3, <1>4, <1>5 DEF AdminStep

LEMMA RightfulInit == Init => Rightful
<1> SUFFICES ASSUME Init PROVE Rightful
  OBVIOUS
<1>1. \A k \in Keys : granted[k] = Members(models[k]) /\ picks[k] = <<>>
  BY DEF Init
<1>2. ASSUME NEW k \in Keys PROVE OwnKey(k)
  BY <1>1 DEF OwnKey
<1>3. ASSUME NEW r \in Requests PROVE OwnRequest(r) /\ InTime(r)
  <2>1. req[r].pc = "new" /\ req[r].list = <<>> /\ req[r].rule = NoTarget /\ req[r].routed = NoTarget
    BY DEF Init
  <2>2. Members(<<>>) = {}
    BY DEF Members
  <2> QED
    BY <2>1, <2>2 DEF OwnRequest, InTime
<1> QED
  BY <1>2, <1>3 DEF Rightful

LEMMA AlwaysRightful == Spec => []Rightful
<1>1. Typed /\ Rightful /\ Tick => Rightful'
  BY DEF Rightful, OwnKey, OwnRequest, InTime, Tick, store
<1>2. Typed /\ Rightful /\ UNCHANGED vars => Rightful'
  BY DEF Rightful, OwnKey, OwnRequest, InTime, vars, store, history
<1>3. Typed /\ Rightful /\ [Next]_vars => Rightful'
  BY <1>1, <1>2, RightfulRequests, RightfulAdmin DEF Next
<1> QED
  BY <1>3, RightfulInit, AlwaysTyped, PTL DEF Spec

\* No request goes to a target its key never had, in whatever order the lists
\* are edited, copied and selected from, and whoever's selection is taken.
THEOREM RoutedToOwn == Spec => []OwnTargets
<1>1. Rightful => OwnTargets
  BY DEF Rightful, OwnRequest, OwnTargets
<1> QED
  BY <1>1, AlwaysRightful, PTL

\* No selection that had expired when Route was called is used, although the
\* clock is read before the queue is locked and entries need not be in order.
THEOREM RoutedInTime == Spec => []FreshPicks
<1>1. Rightful => FreshPicks
  BY DEF Rightful, InTime, FreshPicks
<1> QED
  BY <1>1, AlwaysRightful, PTL
----------------------------------------------------------------------------
(***************************************************************************)
(* The same target for the same request.  As long as nothing else came     *)
(* upon it, the selection a request left is alone in the queue and cannot  *)
(* have expired, so that Route finds it and nothing else.                  *)
(***************************************************************************)
Held(r) == /\ req[r].pc \in {"admitted", "routing"} => Alone(req[r].key, req[r].rule, req[r].at)
           /\ req[r].pc # "resolving"
           /\ req[r].pc = "routed" => req[r].routed = req[r].rule
Undisturbed == \A r \in Requests \ mixed : Held(r)

\* A step of request r disturbs no other unless the other becomes mixed.
LEMMA OthersHeld ==
  ASSUME Typed, Undisturbed, NEW r \in Requests, NEW s,
         req' = [req EXCEPT ![r] = s], UNCHANGED now, mixed \subseteq mixed',
         r \in mixed' \/ Held(r)',
         \A p \in Keys \ {req[r].key} : picks'[p] = picks[p],
         \/ UNCHANGED picks
         \/ Waiting(req[r].key) \subseteq mixed' \cup {r}
         \/ \A rule, at : ~Alone(req[r].key, rule, at)
  PROVE  Undisturbed'
<1>1. SUFFICES ASSUME NEW p \in Requests, p \notin mixed', p # r PROVE Held(p)'
  BY DEF Undisturbed
<1>2. req'[p] = req[p] /\ Held(p) /\ req[p].key \in Keys
  BY <1>1, RequestTyped DEF Undisturbed
<1>3. CASE req[p].pc \notin {"admitted", "routing"}
  BY <1>2, <1>3 DEF Held
<1>4. CASE req[p].pc \in {"admitted", "routing"}
  <2>1. Alone(req[p].key, req[p].rule, req[p].at)
    BY <1>2, <1>4 DEF Held
  <2>2. picks'[req[p].key] = picks[req[p].key]
    <3>1. CASE req[p].key = req[r].key
      BY <1>1, <1>4, <2>1, <3>1 DEF Waiting
    <3>2. CASE req[p].key # req[r].key
      BY <1>2, <3>2
    <3> QED
      BY <3>1, <3>2
  <2> QED
    BY <1>2, <2>1, <2>2 DEF Held, Alone
<1> QED
  BY <1>3, <1>4

LEMMA UndisturbedRequests ==
  ASSUME Typed, Undisturbed, NEW r \in Requests, RequestStep(r)
  PROVE  Undisturbed'
<1>t. /\ req \in [Requests -> RequestStates] /\ req[r] \in RequestStates /\ req[r].key \in Keys
      /\ mixed \subseteq Requests
  BY RequestTyped DEF Typed, TypeOK
<1>h. r \in mixed \/ Held(r)
  BY DEF Undisturbed
<1> DEFINE Kept == UNCHANGED <<now, picks>> /\ mixed \subseteq mixed'
           Idle == {"found", "chosen", "answering", "renaming", "over"}
<1>a. ASSUME NEW s, req' = [req EXCEPT ![r] = s], s.pc \in Idle, Kept PROVE Undisturbed'
  <2>1. req'[r] = s
    BY <1>t, <1>a
  <2>2. Held(r)'
    BY <1>a, <2>1 DEF Held
  <2> QED
    BY <1>a, <2>2, OthersHeld
<1>x. Over(r).pc = "over"
  BY <1>t DEF Over, RequestStates
<1>1. CASE FindBySecret(r)
  <2> DEFINE s == [req[r] EXCEPT !.pc = "found", !.secret = secret[req[r].key], !.list = models[req[r].key]]
  <2>1. s.pc = "found" /\ req' = [req EXCEPT ![r] = s]
    BY <1>1, <1>t DEF FindBySecret, RequestStates
  <2> HIDE DEF s
  <2> QED
    BY <1>1, <1>a, <2>1 DEF FindBySecret, store, history
<1>2. CASE AuthSelect(r)
  <2>1. PICK t \in Targets :
           req' = [req EXCEPT ![r] = [@ EXCEPT !.pc = "chosen", !.rule = t, !.list = <<>>, !.since = now]]
    BY <1>2 DEF AuthSelect
  <2> DEFINE s == [req[r] EXCEPT !.pc = "chosen", !.rule = t, !.list = <<>>, !.since = now]
  <2>2. s.pc = "chosen" /\ req' = [req EXCEPT ![r] = s]
    BY <1>t, <2>1 DEF RequestStates
  <2> HIDE DEF s
  <2> QED
    BY <1>2, <1>a, <2>2 DEF AuthSelect
<1>3. CASE Reject(r)
  BY <1>3, <1>a, <1>x DEF Reject, store, history
<1>4. CASE RememberPick(r)
  <2> DEFINE k == req[r].key
  <2>1. PICK t \in Nat :
             /\ req' = [req EXCEPT ![r] = [@ EXCEPT !.pc = "admitted", !.since = 0, !.at = t]]
             /\ \A p \in Keys \ {k} : picks'[p] = picks[p]
             /\ Waiting(k) \cup mixed \subseteq mixed'
             /\ \/ r \in mixed'
                \/ /\ Len(picks'[k]) = 1 /\ picks'[k][1] = [rule |-> req[r].rule, at |-> t]
                   /\ now' <= t + TTL
    BY <1>4, RememberMoves
  <2> DEFINE s == [req[r] EXCEPT !.pc = "admitted", !.since = 0, !.at = t]
  <2>2. /\ req' = [req EXCEPT ![r] = s] /\ s.pc = "admitted" /\ s.key = k
        /\ s.rule = req[r].rule /\ s.at = t
    BY <1>t, <2>1 DEF RequestStates
  <2> DEFINE new == [rule |-> req[r].rule, at |-> t]
  <2>p. new.rule = s.rule /\ new.at = s.at
    BY <2>2
  <2>q. r \in mixed' \/ (Len(picks'[k]) = 1 /\ picks'[k][1] = new /\ now' <= t + TTL)
    BY <2>1
  <2> HIDE DEF s, new
  <2>3. req'[r] = s
    BY <1>t, <2>2
  <2>4. r \in mixed' \/ Held(r)'
    <3>1. CASE r \in mixed'
      BY <3>1
    <3>2. CASE Len(picks'[k]) = 1 /\ picks'[k][1] = new /\ now' <= t + TTL
      <4>1. /\ req'[r].pc = "admitted" /\ req'[r].key = k /\ req'[r].rule = new.rule
            /\ req'[r].at = new.at /\ new.at = t
        BY <2>p, <2>2, <2>3
      <4> HIDE DEF k
      <4> QED
        BY <3>2, <4>1 DEF Held, Alone
    <3> QED
      BY <2>q, <3>1, <3>2
  <2>5. UNCHANGED now
    BY <1>4 DEF RememberPick
  <2>6. /\ \A p \in Keys \ {req[r].key} : picks'[p] = picks[p]
        /\ mixed \subseteq mixed' /\ Waiting(req[r].key) \subseteq mixed' \cup {r}
    BY <2>1 DEF k
  <2> QED
    BY <2>2, <2>4, <2>5, <2>6, OthersHeld
<1>5. CASE RouteLookup(r)
  <2> DEFINE s == [req[r] EXCEPT !.pc = "routing", !.list = models[req[r].key], !.since = now]
  <2>1. /\ s.pc = "routing" /\ s.key = req[r].key /\ s.rule = req[r].rule /\ s.at = req[r].at
        /\ (req' = [req EXCEPT ![r] = s] \/ req' = [req EXCEPT ![r] = Over(r)])
    BY <1>5, <1>t DEF RouteLookup, Lookup, RequestStates
  <2> HIDE DEF s
  <2>2. Kept /\ mixed' = mixed /\ req[r].pc = "admitted"
    BY <1>5 DEF RouteLookup, Lookup, store, history
  <2>3. ASSUME req' = [req EXCEPT ![r] = s] PROVE Undisturbed'
    <3>1. req'[r] = s
      BY <1>t, <2>3
    <3>2. r \in mixed' \/ Held(r)'
      BY <1>h, <2>1, <2>2, <3>1 DEF Held, Alone
    <3> QED
      BY <2>2, <2>3, <3>2, OthersHeld
  <2> QED
    BY <1>a, <1>x, <2>1, <2>2, <2>3
<1>6. CASE AnswerLookup(r)
  <2> DEFINE s == [req[r] EXCEPT !.pc = "answering", !.list = models[req[r].key], !.since = now]
  <2>1. s.pc = "answering" /\ (req' = [req EXCEPT ![r] = s] \/ req' = [req EXCEPT ![r] = Over(r)])
    BY <1>6, <1>t DEF AnswerLookup, Lookup, RequestStates
  <2> HIDE DEF s
  <2> QED
    BY <1>6, <1>a, <1>x, <2>1 DEF AnswerLookup, Lookup, store, history
<1>7. CASE RouteTake(r)
  <2>1. PICK pick : /\ TakePick(r, pick)
                    /\ req' = [req EXCEPT ![r] = [@ EXCEPT !.pc = "routed", !.list = <<>>,
                                                           !.routed = pick.rule, !.at = pick.at]]
    BY <1>7 DEF RouteTake
  <2> DEFINE s == [req[r] EXCEPT !.pc = "routed", !.list = <<>>, !.routed = pick.rule, !.at = pick.at]
             k == req[r].key
  <2>2. /\ req' = [req EXCEPT ![r] = s] /\ s.pc = "routed" /\ s.routed = pick.rule
        /\ s.rule = req[r].rule
    BY <1>t, <2>1 DEF RequestStates
  <2>3. /\ \A p \in Keys \ {k} : picks'[p] = picks[p]
        /\ mixed' = mixed \cup (Waiting(k) \ {r})
        /\ \A rule, at : Alone(k, rule, at) => pick.rule = rule
    BY <2>1, TakeMoves
  <2> HIDE DEF s
  <2>4. req'[r] = s
    BY <1>t, <2>2
  <2>5. r \in mixed' \/ Held(r)'
    BY <1>7, <1>h, <2>2, <2>3, <2>4 DEF Held, RouteTake
  <2> QED
    BY <1>7, <2>2, <2>3, <2>5, OthersHeld DEF RouteTake
<1>8. CASE RouteMiss(r)
  <2>1. /\ \A p \in Keys \ {req[r].key} : picks'[p] = picks[p]
        /\ \A rule, at : ~Alone(req[r].key, rule, at)
    BY <1>8, NoPickMoves DEF RouteMiss
  <2>2. r \in mixed /\ mixed' = mixed /\ UNCHANGED now
    BY <1>8, <1>h, <2>1 DEF RouteMiss, Held, history
  <2>3. PICK s : req' = [req EXCEPT ![r] = s]
    BY <1>8 DEF RouteMiss
  <2> QED
    BY <2>1, <2>2, <2>3, OthersHeld
<1>9. CASE RouteSelect(r)
  <2>1. r \in mixed
    BY <1>9, <1>h DEF RouteSelect, Held
  <2>2. PICK s : req' = [req EXCEPT ![r] = s]
    BY <1>9 DEF RouteSelect
  <2> QED
    BY <1>9, <2>1, <2>2, OthersHeld DEF RouteSelect
<1>10. CASE AnswerTake(r)
  <2>1. PICK pick : TakePick(r, pick)
    BY <1>10 DEF AnswerTake
  <2>2. /\ \A p \in Keys \ {req[r].key} : picks'[p] = picks[p]
        /\ mixed' = mixed \cup (Waiting(req[r].key) \ {r})
    BY <2>1, TakeMoves
  <2>3. req' = [req EXCEPT ![r] = Over(r)] /\ UNCHANGED now
    BY <1>10 DEF AnswerTake
  <2>4. Held(r)'
    BY <1>t, <1>x, <2>3 DEF Held
  <2> QED
    BY <2>2, <2>3, <2>4, OthersHeld
<1>11. CASE AnswerMiss(r)
  <2> DEFINE s == IF req[r].list = <<>> THEN Over(r) ELSE [req[r] EXCEPT !.pc = "renaming"]
  <2>1. /\ \A p \in Keys \ {req[r].key} : picks'[p] = picks[p]
        /\ \A rule, at : ~Alone(req[r].key, rule, at)
    BY <1>11, NoPickMoves DEF AnswerMiss
  <2>2. req' = [req EXCEPT ![r] = s] /\ s.pc \in {"over", "renaming"} /\ UNCHANGED <<now, mixed>>
    BY <1>11, <1>t, <1>x DEF AnswerMiss, RequestStates, history
  <2> HIDE DEF s
  <2>3. Held(r)'
    BY <1>t, <2>2 DEF Held
  <2> QED
    BY <2>1, <2>2, <2>3, OthersHeld
<1>12. CASE AnswerSelect(r)
  BY <1>12, <1>a, <1>x DEF AnswerSelect
<1> QED
  BY <1>1, <1>2, <1>3, <1>4, <1>5, <1>6, <1>7, <1>8, <1>9, <1>10, <1>11, <1>12 DEF RequestStep

LEMMA UndisturbedAdmin == ASSUME Typed, Undisturbed, AdminStep PROVE Undisturbed'
<1>t. picks \in [Keys -> Queues] /\ \A r \in Requests : req[r].key \in Keys
  BY RequestTyped DEF Typed, TypeOK
<1>a. ASSUME UNCHANGED <<req, now>>, mixed \subseteq mixed',
             \A k \in Keys : picks'[k] = picks[k] \/ Waiting(k) \subseteq mixed'
      PROVE  Undisturbed'
  <2>1. SUFFICES ASSUME NEW r \in Requests, r \notin mixed' PROVE Held(r)'
    BY DEF Undisturbed
  <2>2. Held(r)
    BY <1>a, <2>1 DEF Undisturbed
  <2>3. req[r].pc \in {"admitted", "routing"} => picks'[req[r].key] = picks[req[r].key]
    BY <1>a, <1>t, <2>1 DEF Waiting
  <2> QED
    BY <1>a, <2>2, <2>3 DEF Held, Alone
<1>c. ASSUME NEW k \in Keys, picks' = ClearPicks(k), mixed' = mixed \cup Waiting(k)
      PROVE  \A p \in Keys : picks'[p] = picks[p] \/ Waiting(p) \subseteq mixed'
  BY <1>t, <1>c DEF ClearPicks
<1>1. CASE UpsertAlias
  BY <1>1, <1>a DEF UpsertAlias
<1>2. CASE DeleteAlias
  BY <1>2, <1>a DEF DeleteAlias
<1>3. ASSUME NEW k \in Keys, UpsertKey(k) \/ RotateKey(k) \/ DeleteKey(k) PROVE Undisturbed'
  BY <1>3, <1>a, <1>c DEF UpsertKey, RotateKey, DeleteKey
<1>4. CASE Configure
  BY <1>4, <1>a DEF Configure
<1> QED
  BY <1>1, <1>2, <1>3, <1>4 DEF AdminStep

LEMMA UndisturbedTick == ASSUME Typed, Undisturbed, Tick PROVE Undisturbed'
<1>1. SUFFICES ASSUME NEW r \in Requests, r \notin mixed' PROVE Held(r)'
  BY DEF Undisturbed
<1>2. /\ UNCHANGED <<req, picks>> /\ r \notin mixed
      /\ r \notin {p \in UNION {Waiting(k) : k \in Keys} : req[p].at + TTL < now'}
  BY <1>1 DEF Tick, store
<1>3. now' \in Nat /\ req[r].at \in Nat /\ req[r].key \in Keys
  BY RequestTyped DEF Tick
<1>4. req[r].pc \in {"admitted", "routing"} => r \in Waiting(req[r].key)
  BY DEF Waiting
<1>5. req[r].pc \in {"admitted", "routing"} => now' <= req[r].at + TTL
  BY <1>2, <1>3, <1>4
<1>6. Held(r)
  BY <1>2 DEF Undisturbed
<1> QED
  BY <1>2, <1>5, <1>6 DEF Held, Alone

\* A request is routed to the target that was selected, and whose group was
\* stamped into its metadata, when it was authenticated, unless something the
\* definition of mixed names came upon its selection.
THEOREM RoutedAsSelected == Spec => []AlignedUndisturbed
<1>1. Init => Undisturbed
  <2>1. ASSUME Init, NEW r \in Requests PROVE req[r].pc = "new"
    BY <2>1 DEF Init
  <2> QED
    BY <2>1 DEF Undisturbed, Held
<1>2. Typed /\ Undisturbed /\ UNCHANGED vars => Undisturbed'
  BY DEF Undisturbed, Held, Alone, vars, store, history
<1>3. Typed /\ Undisturbed /\ [Next]_vars => Undisturbed'
  BY <1>2, UndisturbedRequests, UndisturbedAdmin, UndisturbedTick DEF Next
<1>4. Undisturbed => AlignedUndisturbed
  BY DEF Undisturbed, Held, AlignedUndisturbed
<1> QED
  BY <1>1, <1>3, <1>4, AlwaysTyped, PTL DEF Spec
----------------------------------------------------------------------------
(***************************************************************************)
(* The rotation.  Counted from the place that is next, the places of the   *)
(* list have been selected more and more often, the last at most once more *)
(* than the first: the counter may stand anywhere when a count begins.     *)
(***************************************************************************)
NextOne == IF rr >= Len(table) THEN 1 ELSE rr + 1
Before(i, j) == \/ i <= j /\ (j < NextOne \/ i >= NextOne)
                \/ i >= NextOne /\ j < NextOne
Rotation ==
    even /\ ~priority =>
      \A i, j \in DOMAIN table : Before(i, j) => chosen[i] <= chosen[j] /\ chosen[j] <= chosen[i] + 1

LEMMA RotationSelect ==
  ASSUME Typed, Rotation, NEW r \in Requests, NEW t, Select(r, t), UNCHANGED <<table, priority>>
  PROVE  Rotation'
<1>1. SUFFICES ASSUME even', ~priority', NEW i \in DOMAIN table', NEW j \in DOMAIN table', Before(i, j)'
               PROVE  (chosen[i] <= chosen[j] /\ chosen[j] <= chosen[i] + 1)'
  BY DEF Rotation
<1>2. even /\ ~priority /\ req[r].list = table /\ table # <<>>
  BY <1>1 DEF Select
<1> DEFINE n == Len(table)
           p == NextOne
<1>3. /\ table \in Seq(Targets) /\ rr \in Nat /\ chosen \in [DOMAIN table -> Nat]
  BY DEF Typed, TypeOK, TargetLists
<1>4. n \in Nat /\ n > 0 /\ DOMAIN table = 1..n /\ i \in 1..n /\ j \in 1..n
  BY <1>1, <1>2, <1>3
<1> HIDE DEF n
<1>5. p \in 1..n
  BY <1>3, <1>4 DEF NextOne, n
<1>6. chosen' = [chosen EXCEPT ![Place(r)] = @ + 1]
  BY <1>2, SelectTyped DEF Typed
<1>7. Place(r) = p
  BY <1>2, <1>3, <1>4 DEF Place, NextOne, n
<1>8. \A x \in 1..n : chosen'[x] = IF x = p THEN chosen[x] + 1 ELSE chosen[x]
  BY <1>3, <1>4, <1>6, <1>7
<1>9. \A x \in 1..n : chosen[x] \in Nat
  BY <1>3, <1>4
<1>10. CASE n = 1
  BY <1>4, <1>8, <1>9, <1>10
<1>11. CASE n # 1
  <2>1. rr' = IF p = n THEN 0 ELSE p
    BY <1>2, <1>7, <1>11, SelectTyped DEF Typed, n
  <2>2. NextOne' = IF p = n THEN 1 ELSE p + 1
    BY <1>1, <1>4, <1>5, <1>11, <2>1 DEF NextOne, n
  <2> DEFINE q == IF p = n THEN 1 ELSE p + 1
  <2>3. \/ i <= j /\ (j < q \/ i >= q)
        \/ i >= q /\ j < q
    BY <1>1, <2>2 DEF Before
  <2>4. \A x, y \in 1..n : (x <= y /\ (y < p \/ x >= p)) \/ (x >= p /\ y < p)
                           => chosen[x] <= chosen[y] /\ chosen[y] <= chosen[x] + 1
    BY <1>2, <1>4 DEF Rotation, Before
  <2>5. \A x \in 1..n : chosen[p] <= chosen[x] /\ chosen[x] <= chosen[p] + 1
    BY <1>5, <2>4
  <2> HIDE DEF p
  <2>6. CASE i = p
    <3>1. j = p
      BY <1>4, <1>5, <2>3, <2>6
    <3> QED
      BY <1>4, <1>8, <1>9, <2>6, <3>1
  <2>7. CASE j = p /\ i # p
    BY <1>4, <1>8, <1>9, <2>5, <2>7
  <2>8. CASE j # p /\ i # p
    <3>1. (i <= j /\ (j < p \/ i >= p)) \/ (i >= p /\ j < p)
      BY <1>4, <1>5, <2>3, <2>8
    <3> QED
      BY <1>4, <1>8, <2>4, <2>8, <3>1
  <2> QED
    BY <2>6, <2>7, <2>8
<1> QED
  BY <1>10, <1>11

LEMMA RotationRestart == ASSUME Restart PROVE Rotation'
<1>1. chosen' = [x \in DOMAIN table' |-> 0]
  BY DEF Restart
<1>2. \A i \in DOMAIN table' : chosen'[i] = 0
  BY <1>1
<1> QED
  BY <1>2 DEF Rotation

LEMMA RotationStep == ASSUME Typed, Rotation, [Next]_vars PROVE Rotation'
<1>1. UNCHANGED <<table, priority, rr, chosen, even>> => Rotation'
  BY DEF Rotation, Before, NextOne
<1>2. ASSUME NEW r \in Requests, RequestStep(r) PROVE Rotation'
  <2>1. CASE AuthSelect(r) \/ RouteSelect(r) \/ AnswerSelect(r)
    <3>1. UNCHANGED <<table, priority>> /\ \E t : Select(r, t)
      BY <2>1 DEF AuthSelect, RouteSelect, AnswerSelect
    <3> QED
      BY <3>1, RotationSelect
  <2>2. CASE ~(AuthSelect(r) \/ RouteSelect(r) \/ AnswerSelect(r))
    BY <1>1, <1>2, <2>2
    DEF RequestStep, FindBySecret, Reject, RememberPick, RouteLookup, AnswerLookup, Lookup,
        RouteTake, RouteMiss, AnswerTake, AnswerMiss, store, history
  <2> QED
    BY <2>1, <2>2
<1>3. ASSUME AdminStep PROVE Rotation'
  BY <1>1, <1>3, RotationRestart
  DEF AdminStep, UpsertAlias, DeleteAlias, Configure, UpsertKey, RotateKey, DeleteKey
<1>4. Tick \/ UNCHANGED vars => Rotation'
  BY <1>1 DEF Tick, vars, store, history
<1> QED
  BY <1>2, <1>3, <1>4 DEF Next

\* The one counter spreads the selections of all keys evenly over the places of
\* the list, however long the list was when the counter got where it stands.
THEOREM RotationIsFair == Spec => []RotationBalanced
<1>1. Init => Rotation
  BY DEF Init, Rotation
<1>2. ASSUME Typed, Rotation PROVE RotationBalanced
  <2>1. SUFFICES ASSUME even, ~priority, NEW i \in DOMAIN table, NEW j \in DOMAIN table
                 PROVE  chosen[i] <= chosen[j] + 1
    BY DEF RotationBalanced
  <2>2. i \in Nat /\ j \in Nat /\ NextOne \in Nat /\ chosen[i] \in Nat /\ chosen[j] \in Nat
    <3>1. table \in Seq(Targets) /\ rr \in Nat /\ chosen \in [DOMAIN table -> Nat]
      BY <1>2 DEF Typed, TypeOK, TargetLists
    <3> QED
      BY <2>1, <3>1 DEF NextOne
  <2>3. Before(i, j) \/ Before(j, i)
    BY <2>2 DEF Before
  <2> QED
    BY <1>2, <2>1, <2>2, <2>3 DEF Rotation
<1> QED
  BY <1>1, <1>2, RotationStep, AlwaysTyped, PTL DEF Spec
=============================================================================
