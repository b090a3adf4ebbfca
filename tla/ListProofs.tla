----------------------------- MODULE ListProofs -----------------------------
(***************************************************************************)
(* Facts about lists and the folds over them.  What a fold returns is      *)
(* proved by induction over positions.                                     *)
(***************************************************************************)
EXTENDS Lists, NaturalsInduction, WellFoundedInduction, TLAPS

----------------------------------------------------------------------------
(***************************************************************************)
(* Folds over sequences.                                                   *)
(***************************************************************************)
LEMMA Least ==
  ASSUME NEW S, S \subseteq Nat, S # {}
  PROVE  \E n \in S : \A m \in S : n <= m
<1>1. PICK n \in S : \A m \in S : ~ <<m, n>> \in OpToRel(<, Nat)
  BY NatLessThanWellFounded, WFMin
<1>2. ASSUME NEW m \in S PROVE n <= m
  <2>1. <<m, n>> \in Nat \X Nat
    OBVIOUS
  <2> QED
    BY <1>1, <2>1 DEF OpToRel
<1> QED
  BY <1>2

LEMMA Induction ==
  ASSUME NEW m \in Nat, NEW A, 0 \in A, \A n \in 1..m : n - 1 \in A => n \in A
  PROVE  0..m \subseteq A
<1> DEFINE S == {n \in 0..m : n \notin A}
<1>1. ASSUME S # {} PROVE FALSE
  <2>1. S \subseteq Nat
    OBVIOUS
  <2>2. PICK n \in S : \A i \in S : n <= i
    BY <1>1, <2>1, Least
  <2>3. n # 0 /\ n \in 1..m
    BY <2>2
  <2>4. n - 1 \in 0..m /\ ~(n <= n - 1)
    BY <2>3
  <2>5. n - 1 \in A
    BY <2>2, <2>4
  <2> QED
    BY <2>2, <2>3, <2>5
<1> QED
  BY <1>1

LEMMA Greatest ==
  ASSUME NEW n \in Nat, NEW s \in SUBSET (1..n), n \in s
  PROVE  Max(s) = n
<1>1. \A y \in s : n >= y
  OBVIOUS
<1>2. \A x \in s : (\A y \in s : x >= y) => x = n
  OBVIOUS
<1> QED
  BY <1>1, <1>2 DEF Max

LEMMA GreatestExists ==
  ASSUME NEW n \in Nat, NEW s \in SUBSET (1..n), s # {}
  PROVE  Max(s) \in s
<1> DEFINE S == {n - x : x \in s}
<1>1. S \subseteq Nat /\ S # {}
  <2>1. \A x \in s : n - x \in Nat
    OBVIOUS
  <2> QED
    BY <2>1
<1>2. PICK d \in S : \A e \in S : d <= e
  BY <1>1, Least
<1>3. PICK big \in s : d = n - big
  BY <1>2
<1>4. ASSUME NEW y \in s PROVE big >= y
  <2>1. n - big <= n - y /\ big \in Nat /\ y \in Nat
    BY <1>2, <1>3
  <2> QED
    BY <2>1
<1>5. \E x \in s : \A y \in s : x >= y
  BY <1>4
<1> QED
  BY <1>5, Zenon DEF Max

LEMMA GreatestIsMost ==
  ASSUME NEW n \in Nat, NEW s \in SUBSET (1..n), NEW y \in s
  PROVE  y <= Max(s)
<1>1. Max(s) \in s
  BY GreatestExists
<1> DEFINE S == {n - x : x \in s}
<1>2. S \subseteq Nat /\ S # {}
  <2>1. \A x \in s : n - x \in Nat
    OBVIOUS
  <2> QED
    BY <2>1
<1>3. PICK d \in S : \A e \in S : d <= e
  BY <1>2, Least
<1>4. PICK big \in s : d = n - big
  BY <1>3
<1>5. ASSUME NEW z \in s PROVE big >= z
  <2>1. n - big <= n - z /\ big \in Nat /\ z \in Nat
    BY <1>3, <1>4
  <2> QED
    BY <2>1
<1>6. \A z \in s : Max(s) >= z
  BY <1>4, <1>5, Zenon DEF Max
<1> QED
  BY <1>1, <1>6

\* A fold's function exists: what it makes of a set of positions is what G makes
\* of the last of them and of what it makes of the others.
IsFold(iter, m, T, b, G) ==
    /\ iter \in [SUBSET (1..m) -> T]
    /\ \A s \in SUBSET (1..m) :
         iter[s] = IF s = {} THEN b ELSE G[<<iter[s \ {Max(s)}], Max(s)>>]

LEMMA FoldExists ==
  ASSUME NEW m \in Nat, NEW T, NEW b \in T, NEW G \in [T \X (1..m) -> T]
  PROVE  \E iter : IsFold(iter, m, T, b, G)
<1> DEFINE Is(iter, n) == \A s \in SUBSET (1..n) :
             iter[s] = IF s = {} THEN b ELSE G[<<iter[s \ {Max(s)}], Max(s)>>]
           A == {n \in 0..m : \E iter \in [SUBSET (1..n) -> T] : Is(iter, n)}
<1>1. 0 \in A
  <2>1. SUBSET (1..0) = {{}}
    OBVIOUS
  <2>2. [s \in SUBSET (1..0) |-> b] \in [SUBSET (1..0) -> T]
    OBVIOUS
  <2>3. Is([s \in SUBSET (1..0) |-> b], 0)
    BY <2>1
  <2> HIDE DEF Is
  <2>4. \E iter \in [SUBSET (1..0) -> T] : Is(iter, 0)
    BY <2>2, <2>3
  <2>5. 0 \in 0..m
    OBVIOUS
  <2> QED
    BY <2>4, <2>5, Zenon
<1>2. ASSUME NEW n \in 1..m, n - 1 \in A PROVE n \in A
  <2>1. PICK g \in [SUBSET (1..(n-1)) -> T] : Is(g, n - 1)
    BY <1>2
  <2> DEFINE h == [s \in SUBSET (1..n) |-> IF n \in s THEN G[<<g[s \ {n}], n>>] ELSE g[s]]
  <2>2. ASSUME NEW s \in SUBSET (1..n) PROVE s \ {n} \in SUBSET (1..(n-1))
    OBVIOUS
  <2>3. h \in [SUBSET (1..n) -> T]
    <3>1. ASSUME NEW s \in SUBSET (1..n) PROVE h[s] \in T
      <4>1. CASE n \in s
        <5>1. g[s \ {n}] \in T
          BY <2>1, <2>2
        <5> QED
          BY <4>1, <5>1
      <4>2. CASE n \notin s
        BY <4>2, <2>1, <2>2
      <4> QED
        BY <4>1, <4>2
    <3> QED
      BY <3>1
  <2>4. ASSUME NEW s \in SUBSET (1..n), s # {}
        PROVE  h[s] = G[<<h[s \ {Max(s)}], Max(s)>>]
    <3>1. CASE n \in s
      <4>1. Max(s) = n
        BY <3>1, Greatest
      <4>2. h[s \ {n}] = g[s \ {n}]
        BY <2>2
      <4> QED
        BY <3>1, <4>1, <4>2
    <3>2. CASE n \notin s
      <4>1. s \in SUBSET (1..(n-1)) /\ s \ {Max(s)} \in SUBSET (1..(n-1)) /\ n \notin s \ {Max(s)}
        BY <3>2, <2>2
      <4>2. g[s] = G[<<g[s \ {Max(s)}], Max(s)>>]
        BY <2>1, <2>4, <4>1
      <4>3. h[s] = g[s] /\ h[s \ {Max(s)}] = g[s \ {Max(s)}]
        BY <3>2, <4>1
      <4> QED
        BY <4>2, <4>3
    <3> QED
      BY <3>1, <3>2
  <2>5. h[{}] = b
    <3>1. {} \in SUBSET (1..(n-1))
      OBVIOUS
    <3>2. g[{}] = b
      BY <2>1, <3>1
    <3> QED
      BY <3>2
  <2>6. Is(h, n)
    <3> HIDE DEF h
    <3> QED
      BY <2>4, <2>5
  <2>7. \E iter \in [SUBSET (1..n) -> T] : Is(iter, n)
    <3> HIDE DEF h, Is
    <3> QED
      BY <2>3, <2>6
  <2> HIDE DEF Is
  <2> QED
    BY <2>7
<1>3. 0..m \subseteq A
  <2> HIDE DEF A
  <2> QED
    BY <1>1, <1>2, Induction
<1>4. \E iter \in [SUBSET (1..m) -> T] : Is(iter, m)
  <2> HIDE DEF Is
  <2>1. m \in 0..m
    OBVIOUS
  <2> QED
    BY <1>3, <2>1
<1> QED
  BY <1>4 DEF IsFold

\* What it makes of the first n positions, one after the other.
Continues(iter, m, T, b, G) ==
    /\ iter[{}] = b
    /\ \A s \in SUBSET (1..m) : s # {} /\ iter[s \ {Max(s)}] \in T =>
                                    iter[s] = G[<<iter[s \ {Max(s)}], Max(s)>>]

Steps(h, iter, m, T, b, G) ==
    /\ h \in [0..m -> T]
    /\ h[0] = b /\ h[m] = iter[1..m]
    /\ \A n \in 1..m : h[n] = G[<<h[n-1], n>>]

LEMMA FoldSteps ==
  ASSUME NEW m \in Nat, NEW T, NEW b \in T, NEW G \in [T \X (1..m) -> T], NEW iter,
         Continues(iter, m, T, b, G)
  PROVE  \E h : Steps(h, iter, m, T, b, G)
<1> USE DEF Continues
<1> DEFINE h == [n \in 0..m |-> iter[1..n]]
           A == {n \in 0..m : h[n] \in T}
<1>1. h[0] = b
  <2>1. 1..0 = {}
    OBVIOUS
  <2> QED
    BY <2>1
<1>2. ASSUME NEW n \in 1..m, h[n-1] \in T PROVE h[n] = G[<<h[n-1], n>>]
  <2>1. 1..n \in SUBSET (1..m) /\ 1..n # {} /\ n \in 1..n
    OBVIOUS
  <2>2. Max(1..n) = n
    BY <2>1, Greatest
  <2>3. (1..n) \ {n} = 1..(n-1)
    OBVIOUS
  <2>4. iter[(1..n) \ {Max(1..n)}] = h[n-1] /\ h[n] = iter[1..n]
    <3>1. n \in 0..m /\ n - 1 \in 0..m
      OBVIOUS
    <3> QED
      BY <2>2, <2>3, <3>1
  <2> QED
    BY <1>2, <2>1, <2>2, <2>4
<1>3. 0..m \subseteq A
  <2>1. 0 \in A
    BY <1>1
  <2>2. ASSUME NEW n \in 1..m, n - 1 \in A PROVE n \in A
    <3>1. h[n-1] \in T
      BY <2>2
    <3>2. h[n] = G[<<h[n-1], n>>]
      BY <3>1, <1>2
    <3>3. <<h[n-1], n>> \in T \X (1..m)
      BY <3>1
    <3>4. h[n] \in T
      BY <3>2, <3>3
    <3> QED
      BY <3>4
  <2> HIDE DEF A
  <2> QED
    BY <2>1, <2>2, Induction
<1>4. h \in [0..m -> T]
  BY <1>3
<1>5. \A n \in 1..m : h[n] = G[<<h[n-1], n>>]
  <2>1. ASSUME NEW n \in 1..m PROVE h[n-1] \in T
    <3>1. n - 1 \in 0..m
      OBVIOUS
    <3> QED
      BY <3>1, <1>4
  <2> QED
    BY <2>1, <1>2
<1>6. h[m] = iter[1..m]
  OBVIOUS
<1> QED
  BY <1>1, <1>4, <1>5, <1>6 DEF Steps

LEMMA IsSequence ==
  ASSUME NEW S, NEW n \in Nat, NEW f \in [1..n -> S]
  PROVE  f \in Seq(S) /\ Len(f) = n
OBVIOUS

\* The sequences of a sequence, one after the other.
LEMMA FlattenSteps ==
  ASSUME NEW S, NEW ss \in Seq(Seq(S))
  PROVE  \E h \in [0..Len(ss) -> Seq(S)] :
           /\ h[0] = <<>> /\ h[Len(ss)] = FlattenSeq(ss)
           /\ \A n \in 1..Len(ss) : h[n] = h[n-1] \o ss[n]
<1> DEFINE L == Len(ss)
           At(f, i) == IF i = 1 THEN ss[i] ELSE f[i-1] \o ss[i]
           E(f, n) == f = [i \in 1..n |-> At(f, i)]
           A == {n \in 0..L : \E f : E(f, n)}
<1>1. L \in Nat /\ \A i \in 1..L : ss[i] \in Seq(S)
  OBVIOUS
<1>2. 0 \in A
  <2>1. E([i \in 1..0 |-> {}], 0)
    <3> HIDE DEF At
    <3>1. 1..0 = {}
      OBVIOUS
    <3> QED
      BY <3>1
  <2>2. 0 \in 0..L
    BY <1>1
  <2> HIDE DEF E
  <2>3. \E f : E(f, 0)
    BY <2>1
  <2> QED
    BY <2>2, <2>3, Zenon
<1>3. ASSUME NEW n \in 1..L, n - 1 \in A PROVE n \in A
  <2>1. PICK f : E(f, n - 1)
    BY <1>3
  <2> DEFINE g == [i \in 1..n |-> IF i = n THEN At(f, n) ELSE f[i]]
  <2>2. ASSUME NEW i \in 1..n PROVE g[i] = At(g, i)
    <3>1. CASE i = 1 /\ i # n
      <4>1. i \in 1..(n-1)
        BY <3>1, <1>1
      <4>2. f[i] = At(f, i) /\ g[i] = f[i]
        BY <2>1, <3>1, <4>1
      <4> QED
        BY <3>1, <4>2
    <3>2. CASE i = 1 /\ i = n
      BY <3>2
    <3>3. CASE i # 1
      <4>1. i - 1 \in 1..n /\ i - 1 # n /\ (i # n => i \in 1..(n-1))
        BY <3>3, <1>1
      <4>2. g[i-1] = f[i-1]
        BY <4>1
      <4>3. g[i] = f[i-1] \o ss[i]
        BY <2>1, <3>3, <4>1
      <4> QED
        BY <3>3, <4>2, <4>3
    <3> QED
      BY <3>1, <3>2, <3>3
  <2>3. E(g, n)
    <3>1. \A i \in 1..n : g[i] = At(g, i)
      BY <2>2
    <3> HIDE DEF At
    <3> QED
      BY <3>1
  <2> HIDE DEF E, g
  <2> QED
    BY <2>3
<1>4. L \in A
  <2> HIDE DEF A, L
  <2>1. 0..L \subseteq A
    BY <1>1, <1>2, <1>3, Induction
  <2> QED
    BY <1>1, <2>1
<1>5. PICK f : E(f, L) /\ f = CHOOSE g : E(g, L)
  <2> HIDE DEF E
  <2> QED
    BY <1>4
<1>6. L # 0 => FlattenSeq(ss) = f[L]
  <2>1. L # 0 => FlattenSeq(ss) = (CHOOSE g : E(g, L))[L]
    BY Zenon DEF FlattenSeq
  <2> HIDE DEF E
  <2> QED
    BY <1>5, <2>1
<1> DEFINE h == [n \in 0..L |-> IF n = 0 THEN <<>> ELSE f[n]]
           B == {n \in 0..L : h[n] \in Seq(S)}
<1>7. ASSUME NEW n \in 1..L, h[n-1] \in Seq(S) PROVE h[n] = h[n-1] \o ss[n]
  <2>1. n \in 0..L /\ n - 1 \in 0..L /\ n # 0 /\ (n = 1 \/ n - 1 # 0)
    BY <1>1
  <2>2. h[n] = At(f, n)
    BY <1>5, <2>1
  <2>3. CASE n = 1
    BY <1>1, <2>1, <2>2, <2>3
  <2>4. CASE n # 1
    BY <2>1, <2>2, <2>4
  <2> QED
    BY <2>3, <2>4
<1>8. 0..L \subseteq B
  <2>1. 0 \in B
    BY <1>1
  <2>2. ASSUME NEW n \in 1..L, n - 1 \in B PROVE n \in B
    <3>1. h[n-1] \in Seq(S)
      BY <2>2
    <3>2. h[n] = h[n-1] \o ss[n]
      BY <1>7, <3>1
    <3>3. ss[n] \in Seq(S) /\ n \in 0..L
      BY <1>1
    <3> HIDE DEF h, L
    <3>4. h[n] \in Seq(S)
      BY <3>1, <3>2, <3>3
    <3> QED
      BY <3>3, <3>4
  <2> HIDE DEF B, L
  <2> QED
    BY <1>1, <2>1, <2>2, Induction
<1>9. h \in [0..L -> Seq(S)]
  BY <1>8
<1>10. \A n \in 1..L : h[n] = h[n-1] \o ss[n]
  <2>1. ASSUME NEW n \in 1..L PROVE h[n-1] \in Seq(S)
    <3>1. n - 1 \in 0..L
      BY <1>1
    <3> QED
      BY <1>9, <3>1
  <2> QED
    BY <1>7, <2>1
<1>11. h[L] = FlattenSeq(ss)
  <2>1. CASE L = 0
    <3>1. FlattenSeq(ss) = ss
      BY <2>1, Zenon DEF FlattenSeq
    <3> QED
      BY <2>1, <3>1
  <2>2. CASE L # 0
    BY <1>1, <1>6, <2>2
  <2> QED
    BY <2>1, <2>2
<1>12. h[0] = <<>>
  BY <1>1
<1> QED
  BY <1>9, <1>10, <1>11, <1>12

LEMMA FlattenType ==
  ASSUME NEW S, NEW ss \in Seq(Seq(S))
  PROVE  FlattenSeq(ss) \in Seq(S)
<1>1. Len(ss) \in Nat /\ Len(ss) \in 0..Len(ss)
  OBVIOUS
<1>2. PICK h \in [0..Len(ss) -> Seq(S)] : h[Len(ss)] = FlattenSeq(ss)
  BY FlattenSteps
<1> QED
  BY <1>1, <1>2

LEMMA FlattenNothing ==
  ASSUME NEW n \in Nat, NEW ss \in [1..n -> {<<>>}]
  PROVE  FlattenSeq(ss) = <<>>
<1>1. ss \in [1..n -> Seq({})]
  <2>1. <<>> \in Seq({})
    OBVIOUS
  <2> QED
    BY <2>1
<1>2. ss \in Seq(Seq({}))
  BY <1>1, IsSequence
<1>3. FlattenSeq(ss) \in Seq({})
  BY <1>2, FlattenType
<1>4. \A s \in Seq({}) : s = <<>>
  <2> SUFFICES ASSUME NEW s \in Seq({}) PROVE Len(s) = 0
    OBVIOUS
  <2>1. Len(s) \in Nat /\ \A i \in 1..Len(s) : s[i] \in {}
    OBVIOUS
  <2>2. 1 \notin 1..Len(s)
    BY <2>1
  <2> QED
    BY <2>1, <2>2
<1> QED
  BY <1>3, <1>4

LEMMA SetOfConcat ==
  ASSUME NEW S, NEW s \in Seq(S), NEW t \in Seq(S)
  PROVE  ToSet(s \o t) = ToSet(s) \cup ToSet(t)
<1>1. Len(s) \in Nat /\ Len(t) \in Nat /\ DOMAIN s = 1..Len(s) /\ DOMAIN t = 1..Len(t)
      /\ DOMAIN (s \o t) = 1..(Len(s) + Len(t))
  OBVIOUS
<1>2. \A i \in 1..Len(s) : i \in DOMAIN (s \o t) /\ (s \o t)[i] = s[i]
  BY <1>1
<1>3. \A i \in 1..Len(t) : Len(s) + i \in DOMAIN (s \o t) /\ (s \o t)[Len(s) + i] = t[i]
  BY <1>1
<1>4. ASSUME NEW i \in DOMAIN (s \o t), i \notin 1..Len(s)
      PROVE  i - Len(s) \in 1..Len(t) /\ (s \o t)[i] = t[i - Len(s)]
  BY <1>1, <1>4
<1>5. ToSet(s) \subseteq ToSet(s \o t)
  BY <1>1, <1>2 DEF ToSet
<1>6. ToSet(t) \subseteq ToSet(s \o t)
  BY <1>1, <1>3 DEF ToSet
<1>7. ToSet(s \o t) \subseteq ToSet(s) \cup ToSet(t)
  BY <1>1, <1>2, <1>4 DEF ToSet
<1> QED
  BY <1>5, <1>6, <1>7

LEMMA ContainsIsMember ==
  ASSUME NEW S, NEW s \in Seq(S), NEW e
  PROVE  Contains(s, e) <=> e \in ToSet(s)
BY DEF Contains, ToSet

LEMMA SetOfAppend ==
  ASSUME NEW S, NEW s \in Seq(S), NEW e \in S
  PROVE  ToSet(Append(s, e)) = ToSet(s) \cup {e}
<1> DEFINE t == <<e>>
<1>1. t \in Seq(S) /\ Append(s, e) = s \o t /\ ToSet(t) = {e}
  BY DEF ToSet
<1> HIDE DEF t
<1> QED
  BY <1>1, SetOfConcat

LEMMA FlattenContents ==
  ASSUME NEW S, NEW ss \in Seq(Seq(S))
  PROVE  ToSet(FlattenSeq(ss)) = UNION {ToSet(ss[i]) : i \in DOMAIN ss}
<1> DEFINE L == Len(ss)
<1>1. L \in Nat /\ DOMAIN ss = 1..L /\ \A i \in 1..L : ss[i] \in Seq(S)
  OBVIOUS
<1>2. PICK h \in [0..L -> Seq(S)] : /\ h[0] = <<>> /\ h[L] = FlattenSeq(ss)
                                    /\ \A n \in 1..L : h[n] = h[n-1] \o ss[n]
  BY FlattenSteps
<1> HIDE DEF L
<1> DEFINE A == {n \in 0..L : ToSet(h[n]) = UNION {ToSet(ss[i]) : i \in 1..n}}
<1>3. 0 \in A
  <2>1. 1..0 = {} /\ ToSet(<<>>) = {} /\ 0 \in 0..L
    BY <1>1 DEF ToSet
  <2> QED
    BY <1>2, <2>1
<1>4. ASSUME NEW n \in 1..L, n - 1 \in A PROVE n \in A
  <2>1. n - 1 \in 0..L /\ n \in 0..L /\ 1..n = (1..(n-1)) \cup {n}
    BY <1>1
  <2>2. ToSet(h[n]) = ToSet(h[n-1]) \cup ToSet(ss[n])
    <3>1. h[n-1] \in Seq(S) /\ ss[n] \in Seq(S) /\ h[n] = h[n-1] \o ss[n]
      BY <1>1, <1>2, <2>1
    <3> QED
      BY <3>1, SetOfConcat
  <2>3. ToSet(h[n-1]) = UNION {ToSet(ss[i]) : i \in 1..(n-1)}
    BY <1>4
  <2> QED
    BY <2>1, <2>2, <2>3
<1>5. L \in A
  <2> HIDE DEF A
  <2>1. 0..L \subseteq A
    BY <1>1, <1>3, <1>4, Induction
  <2> QED
    BY <1>1, <2>1
<1> QED
  BY <1>1, <1>2, <1>5

----------------------------------------------------------------------------
(***************************************************************************)
(* Kept: the loop, and what it returns.                                    *)
(***************************************************************************)
IsFilter(h, s, S, T) ==
    /\ h \in [0..Len(s) -> Seq(S)]
    /\ h[0] = <<>> /\ h[Len(s)] = Kept(s, T)
    /\ \A n \in 1..Len(s) : h[n] = IF s[n] \in T THEN Append(h[n-1], s[n]) ELSE h[n-1]

LEMMA KeptSteps ==
  ASSUME NEW S, NEW s \in Seq(S), NEW T
  PROVE  \E h : IsFilter(h, s, S, T)
<1> DEFINE L == Len(s)
           step(acc, i) == IF s[i] \in T THEN Append(acc, s[i]) ELSE acc
           G == [x \in Seq(S) \X (1..L) |-> step(x[1], x[2])]
           E(iter) == iter = [P \in SUBSET DOMAIN s |->
                                IF P = {} THEN <<>> ELSE step(iter[P \ {Max(P)}], Max(P))]
<1>1. Kept(s, T) = (CHOOSE iter : E(iter))[DOMAIN s]
  BY SMT DEF Kept, FoldLeft, MapThenFoldSet
<1>2. L \in Nat /\ DOMAIN s = 1..L /\ <<>> \in Seq(S)
  OBVIOUS
<1>3. ASSUME NEW t \in Seq(S), NEW i \in 1..L PROVE step(t, i) \in Seq(S)
  OBVIOUS
<1> HIDE DEF L, step
<1>4. G \in [Seq(S) \X (1..L) -> Seq(S)]
  BY <1>3
<1>5. \E iter : E(iter)
  <2>1. PICK iter : IsFold(iter, L, Seq(S), <<>>, G)
    <3> HIDE DEF G
    <3> QED
      BY <1>2, <1>4, FoldExists
  <2>2. ASSUME NEW P \in SUBSET (1..L), P # {}
        PROVE  iter[P] = step(iter[P \ {Max(P)}], Max(P))
    <3>1. Max(P) \in 1..L /\ P \ {Max(P)} \in SUBSET (1..L)
      BY <1>2, <2>2, GreatestExists
    <3>2. iter[P \ {Max(P)}] \in Seq(S) /\ iter[P] = G[<<iter[P \ {Max(P)}], Max(P)>>]
      BY <2>1, <2>2, <3>1 DEF IsFold
    <3> QED
      BY <3>1, <3>2
  <2>3. E(iter)
    BY <1>2, <2>1, <2>2 DEF IsFold
  <2> QED
    BY <2>3
<1>6. PICK iter : E(iter) /\ iter = CHOOSE i : E(i)
  <2> HIDE DEF E
  <2> QED
    BY <1>5
<1>7. Continues(iter, L, Seq(S), <<>>, G)
  <2>1. iter[{}] = <<>>
    BY <1>6
  <2>2. ASSUME NEW P \in SUBSET (1..L), P # {}, iter[P \ {Max(P)}] \in Seq(S)
        PROVE  iter[P] = G[<<iter[P \ {Max(P)}], Max(P)>>]
    <3>1. Max(P) \in 1..L
      BY <1>2, <2>2, GreatestExists
    <3>2. iter[P] = step(iter[P \ {Max(P)}], Max(P))
      BY <1>2, <1>6, <2>2
    <3> QED
      BY <2>2, <3>1, <3>2
  <2> QED
    BY <2>1, <2>2 DEF Continues
<1>8. PICK h : Steps(h, iter, L, Seq(S), <<>>, G)
  <2> HIDE DEF G, E
  <2> QED
    BY <1>2, <1>4, <1>7, FoldSteps
<1>9. ASSUME NEW n \in 1..L PROVE h[n] = step(h[n-1], n)
  <2>1. n - 1 \in 0..L
    BY <1>2
  <2> QED
    BY <1>8, <2>1 DEF Steps
<1>10. h[L] = Kept(s, T)
  <2> HIDE DEF E
  <2> QED
    BY <1>1, <1>2, <1>6, <1>8 DEF Steps
<1> QED
  BY <1>8, <1>9, <1>10 DEF L, step, Steps, IsFilter

\* The result is a list of some of the elements.
LEMMA KeptType ==
  ASSUME NEW S, NEW s \in Seq(S), NEW T
  PROVE  Kept(s, T) \in Seq(S) /\ ToSet(Kept(s, T)) \subseteq T
<1>1. PICK h : IsFilter(h, s, S, T)
  BY KeptSteps
<1>2. Len(s) \in Nat
  OBVIOUS
<1> DEFINE L == Len(s)
           A == {n \in 0..L : ToSet(h[n]) \subseteq T}
<1>3. 0 \in A
  BY <1>1, <1>2 DEF IsFilter, ToSet
<1>4. ASSUME NEW n \in 1..L, n - 1 \in A PROVE n \in A
  <2>1. n - 1 \in 0..L /\ n \in 0..L /\ s[n] \in S
    BY <1>2
  <2>2. h[n-1] \in Seq(S) /\ ToSet(h[n-1]) \subseteq T
    BY <1>1, <1>4, <2>1 DEF IsFilter
  <2>3. CASE s[n] \in T
    <3>1. h[n] = Append(h[n-1], s[n])
      BY <1>1, <2>3 DEF IsFilter
    <3>2. ToSet(h[n]) = ToSet(h[n-1]) \cup {s[n]}
      BY <2>1, <2>2, <3>1, SetOfAppend
    <3> QED
      BY <2>1, <2>2, <2>3, <3>2
  <2>4. CASE s[n] \notin T
    BY <1>1, <2>1, <2>2, <2>4 DEF IsFilter
  <2> QED
    BY <2>3, <2>4
<1>5. L \in A
  <2> HIDE DEF A
  <2>1. 0..L \subseteq A
    BY <1>2, <1>3, <1>4, Induction
  <2> QED
    BY <1>2, <2>1
<1>6. Kept(s, T) \in Seq(S)
  BY <1>1, <1>2 DEF IsFilter
<1> QED
  BY <1>1, <1>5, <1>6 DEF IsFilter

LEMMA KeptNothing ==
  ASSUME NEW S, NEW s \in Seq(S), NEW T, ToSet(s) \cap T = {}
  PROVE  Kept(s, T) = <<>>
<1>1. PICK h : IsFilter(h, s, S, T)
  BY KeptSteps
<1>2. Len(s) \in Nat /\ \A n \in 1..Len(s) : s[n] \notin T
  BY DEF ToSet
<1> DEFINE L == Len(s)
           A == {n \in 0..L : h[n] = <<>>}
<1>3. 0 \in A
  BY <1>1, <1>2 DEF IsFilter
<1>4. ASSUME NEW n \in 1..L, n - 1 \in A PROVE n \in A
  BY <1>1, <1>2, <1>4 DEF IsFilter
<1>5. L \in A
  <2> HIDE DEF A
  <2>1. 0..L \subseteq A
    BY <1>2, <1>3, <1>4, Induction
  <2> QED
    BY <1>2, <2>1
<1> QED
  BY <1>1, <1>5 DEF IsFilter

LEMMA KeptWhole ==
  ASSUME NEW S, NEW s \in Seq(S), NEW T, ToSet(s) \subseteq T
  PROVE  Kept(s, T) = s
<1>1. PICK h : IsFilter(h, s, S, T)
  BY KeptSteps
<1>2. Len(s) \in Nat /\ \A n \in 1..Len(s) : s[n] \in T /\ s[n] \in S
  BY DEF ToSet
<1> DEFINE L == Len(s)
           A == {n \in 0..L : Len(h[n]) = n /\ \A i \in 1..n : h[n][i] = s[i]}
<1>3. 0 \in A
  <2>1. h[0] = <<>> /\ 1..0 = {} /\ 0 \in 0..L
    BY <1>1, <1>2 DEF IsFilter
  <2>2. Len(<<>>) = 0
    OBVIOUS
  <2> QED
    BY <2>1, <2>2
<1>4. ASSUME NEW n \in 1..L, n - 1 \in A PROVE n \in A
  <2>1. n - 1 \in 0..L /\ n \in 0..L /\ n \in Nat /\ 1..n = (1..(n-1)) \cup {n}
    BY <1>2
  <2>2. h[n-1] \in Seq(S) /\ Len(h[n-1]) = n - 1 /\ \A i \in 1..(n-1) : h[n-1][i] = s[i]
    BY <1>1, <1>4, <2>1 DEF IsFilter
  <2>3. h[n] = Append(h[n-1], s[n])
    BY <1>1, <1>2 DEF IsFilter
  <2> DEFINE t == h[n-1]
             e == s[n]
  <2>4. t \in Seq(S) /\ Len(t) = n - 1 /\ e \in S
    BY <1>2, <2>2
  <2> HIDE DEF t, e
  <2>5. Len(Append(t, e)) = n /\ Append(t, e)[n] = e /\ \A i \in 1..(n-1) : Append(t, e)[i] = t[i]
    BY <2>1, <2>4
  <2>6. \A i \in 1..n : h[n][i] = s[i]
    BY <2>1, <2>2, <2>3, <2>5 DEF t, e
  <2> QED
    BY <2>1, <2>3, <2>5, <2>6 DEF t, e
<1>5. L \in A
  <2> HIDE DEF A
  <2>1. 0..L \subseteq A
    BY <1>2, <1>3, <1>4, Induction
  <2> QED
    BY <1>2, <2>1
<1> DEFINE k == Kept(s, T)
<1>6. k \in Seq(S) /\ Len(k) = L /\ \A i \in 1..L : k[i] = s[i]
  BY <1>1, <1>2, <1>5 DEF IsFilter
<1> HIDE DEF k
<1>7. k = s
  BY <1>6
<1> QED
  BY <1>7 DEF k

LEMMA KeptConcat ==
  ASSUME NEW S, NEW s \in Seq(S), NEW t \in Seq(S), NEW T
  PROVE  Kept(s \o t, T) = Kept(s, T) \o Kept(t, T)
<1> DEFINE u == s \o t
           L == Len(s)
           M == Len(t)
<1>1. /\ u \in Seq(S) /\ L \in Nat /\ M \in Nat /\ Len(u) = L + M
      /\ \A i \in 1..L : u[i] = s[i] /\ s[i] \in S
      /\ \A i \in 1..M : u[L + i] = t[i] /\ t[i] \in S
  OBVIOUS
<1> HIDE DEF u
<1>2. PICK h : IsFilter(h, u, S, T)
  BY <1>1, KeptSteps
<1>3. PICK g : IsFilter(g, s, S, T)
  BY KeptSteps
<1>4. PICK f : IsFilter(f, t, S, T)
  BY KeptSteps
<1> HIDE DEF L, M
<1>5. /\ \A n \in 1..L : g[n] = IF s[n] \in T THEN Append(g[n-1], s[n]) ELSE g[n-1]
      /\ \A n \in 1..M : f[n] = IF t[n] \in T THEN Append(f[n-1], t[n]) ELSE f[n-1]
      /\ \A n \in 1..(L+M) : h[n] = IF u[n] \in T THEN Append(h[n-1], u[n]) ELSE h[n-1]
      /\ h[0] = <<>> /\ g[0] = <<>> /\ f[0] = <<>>
      /\ g \in [0..L -> Seq(S)] /\ f \in [0..M -> Seq(S)]
      /\ h[L+M] = Kept(u, T) /\ g[L] = Kept(s, T) /\ f[M] = Kept(t, T)
  BY <1>1, <1>2, <1>3, <1>4 DEF IsFilter, L, M
<1>6. h[L] = g[L]
  <2> DEFINE A == {n \in 0..L : h[n] = g[n]}
  <2>1. 0 \in A
    BY <1>1, <1>5
  <2>2. ASSUME NEW n \in 1..L, n - 1 \in A PROVE n \in A
    <3>1. n \in 1..(L+M) /\ n \in 0..L
      BY <1>1
    <3> QED
      BY <1>1, <1>5, <2>2, <3>1
  <2> HIDE DEF A
  <2>3. 0..L \subseteq A
    BY <1>1, <2>1, <2>2, Induction
  <2>4. L \in A
    BY <1>1, <2>3
  <2> QED
    BY <2>4 DEF A
<1> DEFINE B == {n \in 0..M : h[L + n] = g[L] \o f[n]}
<1>7. g[L] \in Seq(S)
  BY <1>1, <1>5
<1>8. 0 \in B
  <2>1. g[L] \o <<>> = g[L]
    BY <1>7
  <2>2. h[L + 0] = g[L] \o f[0]
    BY <1>1, <1>5, <1>6, <2>1
  <2>3. 0 \in 0..M
    BY <1>1
  <2> QED
    BY <2>2, <2>3
<1>9. ASSUME NEW n \in 1..M, n - 1 \in B PROVE n \in B
  <2>1. L + n \in 1..(L+M) /\ n \in 0..M /\ n - 1 \in 0..M /\ L + (n - 1) = (L + n) - 1
    BY <1>1
  <2>2. h[(L + n) - 1] = g[L] \o f[n-1] /\ u[L + n] = t[n] /\ t[n] \in S /\ f[n-1] \in Seq(S)
    BY <1>1, <1>5, <1>9, <2>1
  <2>3. CASE t[n] \in T
    <3>1. h[L + n] = Append(h[(L + n) - 1], t[n]) /\ f[n] = Append(f[n-1], t[n])
      BY <1>5, <2>1, <2>2, <2>3
    <3> DEFINE x == g[L]
               y == f[n-1]
               e == t[n]
    <3>2. x \in Seq(S) /\ y \in Seq(S) /\ e \in S
      BY <1>7, <2>2
    <3> HIDE DEF x, y, e
    <3>3. Append(x \o y, e) = x \o Append(y, e)
      <4> DEFINE a == Append(x \o y, e)
                 b == x \o Append(y, e)
                 l == Len(x) + Len(y) + 1
      <4>1. a \in Seq(S) /\ b \in Seq(S) /\ Len(a) = l /\ Len(b) = l /\ l \in Nat
        BY <3>2
      <4>2. ASSUME NEW i \in 1..l PROVE a[i] = b[i]
        <5>1. CASE i <= Len(x)
          BY <3>2, <5>1
        <5>2. CASE i > Len(x) /\ i < l
          BY <3>2, <5>2
        <5>3. CASE i = l
          BY <3>2, <5>3
        <5>4. i \in Nat /\ l \in Nat /\ Len(x) \in Nat /\ i <= l
          BY <3>2
        <5>5. i <= Len(x) \/ (i > Len(x) /\ i < l) \/ i = l
          BY <5>4
        <5> QED
          BY <5>1, <5>2, <5>3, <5>5
      <4> HIDE DEF a, b, l
      <4>3. a = b
        BY <4>1, <4>2
      <4> QED
        BY <4>3 DEF a, b
    <3> QED
      BY <2>1, <2>2, <3>1, <3>3 DEF x, y, e
  <2>4. CASE t[n] \notin T
    BY <1>5, <2>1, <2>2, <2>4
  <2> QED
    BY <2>3, <2>4
<1>10. M \in B
  <2> HIDE DEF B
  <2>1. 0..M \subseteq B
    BY <1>1, <1>8, <1>9, Induction
  <2> QED
    BY <1>1, <2>1
<1> QED
  BY <1>5, <1>10 DEF u

\* Of lists one after the other, only one of which has elements in T and no
\* others, that one is kept.
LEMMA KeptPart ==
  ASSUME NEW S, NEW ss \in Seq(Seq(S)), NEW T, NEW one \in DOMAIN ss, ToSet(ss[one]) \subseteq T,
         \A i \in DOMAIN ss \ {one} : ToSet(ss[i]) \cap T = {}
  PROVE  Kept(FlattenSeq(ss), T) = ss[one]
<1>c. ASSUME NEW x \in Seq(S), NEW y \in Seq(S)
      PROVE  Kept(x \o y, T) = Kept(x, T) \o Kept(y, T)
  BY KeptConcat, SMTT(40)
<1> DEFINE L == Len(ss)
<1>1. L \in Nat /\ DOMAIN ss = 1..L /\ one \in 1..L /\ \A i \in 1..L : ss[i] \in Seq(S)
  OBVIOUS
<1>2. PICK h \in [0..L -> Seq(S)] : /\ h[0] = <<>> /\ h[L] = FlattenSeq(ss)
                                    /\ \A n \in 1..L : h[n] = h[n-1] \o ss[n]
  BY FlattenSteps
<1> HIDE DEF L
<1> DEFINE A == {n \in 0..L : Kept(h[n], T) = IF n < one THEN <<>> ELSE ss[one]}
<1>3. 0 \in A
  <2>1. <<>> \in Seq(S) /\ ToSet(<<>>) \cap T = {}
    BY DEF ToSet
  <2>2. Kept(<<>>, T) = <<>>
    BY <2>1, KeptNothing
  <2> QED
    BY <1>1, <1>2, <2>2
<1>4. ASSUME NEW n \in 1..L, n - 1 \in A PROVE n \in A
  <2>a. n \in 0..L /\ n - 1 \in 0..L /\ n \in Nat /\ ss[n] \in Seq(S)
    BY <1>1
  <2>b. h[n-1] \in Seq(S)
    BY <1>2, <2>a
  <2>1. n \in 0..L /\ n - 1 \in 0..L /\ n \in Nat /\ h[n-1] \in Seq(S) /\ ss[n] \in Seq(S)
    BY <2>a, <2>b
  <2>2. Kept(h[n], T) = Kept(h[n-1], T) \o Kept(ss[n], T)
    <3>1. h[n] = h[n-1] \o ss[n]
      BY <1>2
    <3> QED
      BY <1>c, <2>1, <3>1
  <2>3. Kept(h[n-1], T) = IF n - 1 < one THEN <<>> ELSE ss[one]
    BY <1>4
  <2>4. CASE n < one
    <3>1. Kept(ss[n], T) = <<>>
      <4>1. n \in DOMAIN ss \ {one}
        BY <1>1, <2>4
      <4> QED
        BY <2>1, <4>1, KeptNothing
    <3>2. <<>> \o <<>> = <<>> /\ n - 1 < one
      BY <1>1, <2>4
    <3> QED
      BY <2>1, <2>2, <2>3, <2>4, <3>1, <3>2
  <2>5. CASE n = one
    <3>1. Kept(ss[n], T) = ss[one]
      BY <2>1, <2>5, KeptWhole
    <3>2. <<>> \o ss[one] = ss[one] /\ n - 1 < one /\ ~(n < one)
      BY <1>1, <2>5
    <3> QED
      BY <2>1, <2>2, <2>3, <3>1, <3>2
  <2>6. CASE n > one
    <3>1. Kept(ss[n], T) = <<>>
      <4>1. n \in DOMAIN ss \ {one}
        BY <1>1, <2>6
      <4> QED
        BY <2>1, <4>1, KeptNothing
    <3>2. ss[one] \o <<>> = ss[one] /\ ~(n - 1 < one) /\ ~(n < one)
      BY <1>1, <2>6
    <3> QED
      BY <2>1, <2>2, <2>3, <3>1, <3>2
  <2> QED
    BY <1>1, <2>4, <2>5, <2>6
<1>5. L \in A
  <2> HIDE DEF A
  <2>1. 0..L \subseteq A
    BY <1>1, <1>3, <1>4, Induction
  <2> QED
    BY <1>1, <2>1
<1>6. ~(L < one)
  BY <1>1
<1> QED
  BY <1>2, <1>5, <1>6

=============================================================================
