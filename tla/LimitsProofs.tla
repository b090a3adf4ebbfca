---------------------------- MODULE LimitsProofs ----------------------------
(***************************************************************************)
(* What Limits' run checks on a small calendar, proved for every number of *)
(* requests and aliases, all limits and costs, and minutes, days and weeks *)
(* of any length.                                                          *)
(***************************************************************************)
EXTENDS Limits, TLAPS

LEMMA Calendar == /\ Minute \in Nat /\ Day \in Nat /\ Week \in Nat /\ MaxClock \in Nat
                  /\ 0 < Minute /\ Minute <= Day /\ Day <= Week /\ Day <= MaxClock
                  /\ 0 < Day /\ 0 < Week
BY WindowsGrow, ClockRuns

USE Calendar
----------------------------------------------------------------------------
(***************************************************************************)
(* Days.                                                                   *)
(***************************************************************************)
LEMMA DayHolds ==
  ASSUME NEW t \in Nat
  PROVE  DayOf(t) \in Nat /\ DayOf(t) * Day <= t /\ t < DayOf(t) * Day + Day
BY DEF DayOf

LEMMA OneDay == \A t, d \in Nat : d * Day <= t /\ t < d * Day + Day => DayOf(t) = d
BY DEF DayOf

LEMMA DaysGoOn == \A s, t \in Nat : s <= t => DayOf(s) <= DayOf(t)
BY DEF DayOf

LEMMA Midnight ==
  ASSUME NEW d \in Nat
  PROVE  d * Day \in Nat /\ DayOf(d * Day) = d
BY DEF DayOf

LEMMA NoDayBefore == DayOf(Zero) = 0 /\ \A t \in Times : DayOf(t) # 0
BY DEF DayOf, Zero, Times
----------------------------------------------------------------------------
(***************************************************************************)
(* Running totals.                                                         *)
(***************************************************************************)
Totals == [Instants -> Nat]
Rising(f) == \A s, t \in Instants : s <= t => f[s] <= f[t]

LEMMA UpToRises ==
  ASSUME NEW f \in Totals, Rising(f)
  PROVE  /\ \A t \in Int : UpTo(f, t) \in Nat
         /\ \A s, t \in Int : s <= t => UpTo(f, s) <= UpTo(f, t)
         /\ \A t \in Instants : UpTo(f, t) = f[t] /\ f[t] \in Nat
BY DEF UpTo, Totals, Rising, Instants

LEMMA SinceAdds ==
  ASSUME NEW f \in Totals, NEW t \in Times, NEW n \in Nat
  PROVE  /\ Since(f, t, n) \in Totals
         /\ \A u \in Instants : Since(f, t, n)[u] = IF u >= t THEN f[u] + n ELSE f[u]
         /\ \A u \in Int : UpTo(Since(f, t, n), u) = IF u >= t THEN UpTo(f, u) + n ELSE UpTo(f, u)
         /\ Rising(f) => Rising(Since(f, t, n))
<1>1. /\ Since(f, t, n) \in Totals
      /\ \A u \in Instants : Since(f, t, n)[u] = IF u >= t THEN f[u] + n ELSE f[u]
  BY DEF Since, Totals, Instants, Times
<1> QED
  BY <1>1 DEF UpTo, Rising, Instants, Totals, Times

LEMMA OnAdds ==
  ASSUME NEW f \in Totals, NEW t \in Times, NEW n \in Nat, NEW d \in Nat
  PROVE  On(d, Since(f, t, n)) = On(d, f) + (IF DayOf(t) = d THEN n ELSE 0)
<1>1. d * Day \in Nat /\ t \in Nat
  BY Midnight DEF Times
<1>2. DayOf(t) = d <=> d * Day <= t /\ t < d * Day + Day
  BY <1>1, DayHolds, OneDay
<1>3. \A u \in Int : UpTo(f, u) \in Nat
  BY DEF UpTo, Totals, Instants
<1> DEFINE m == d * Day
<1>4. /\ UpTo(Since(f, t, n), m + Day - 1) =
           IF m + Day - 1 >= t THEN UpTo(f, m + Day - 1) + n ELSE UpTo(f, m + Day - 1)
      /\ UpTo(Since(f, t, n), m - 1) = IF m - 1 >= t THEN UpTo(f, m - 1) + n ELSE UpTo(f, m - 1)
  BY <1>1, SinceAdds
<1>5. UpTo(f, m + Day - 1) \in Nat /\ UpTo(f, m - 1) \in Nat /\ m \in Nat
  BY <1>1, <1>3
<1> QED
  <2> DEFINE a == UpTo(Since(f, t, n), m + Day - 1)
             b == UpTo(Since(f, t, n), m - 1)
             x == UpTo(f, m + Day - 1)
             y == UpTo(f, m - 1)
  <2>1. On(d, Since(f, t, n)) = a - b /\ On(d, f) = x - y
    BY DEF On
  <2>2. /\ a = IF m + Day - 1 >= t THEN x + n ELSE x
        /\ b = IF m - 1 >= t THEN y + n ELSE y
        /\ x \in Nat /\ y \in Nat /\ m \in Nat /\ (DayOf(t) = d <=> m <= t /\ t < m + Day)
    BY <1>2, <1>4, <1>5
  <2> HIDE DEF a, b, x, y, m
  <2>3. a - b = x - y + (IF DayOf(t) = d THEN n ELSE 0)
    BY <1>1, <2>2
  <2> QED
    BY <2>1, <2>3

LEMMA NothingYet == /\ Nothing \in Totals /\ Rising(Nothing)
                    /\ \A t \in Instants : Nothing[t] = 0
                    /\ \A t \in Int : UpTo(Nothing, t) = 0
                    /\ \A d \in Nat : On(d, Nothing) = 0
<1>1. /\ Nothing \in Totals /\ Rising(Nothing) /\ \A t \in Instants : Nothing[t] = 0
      /\ \A t \in Int : UpTo(Nothing, t) = 0
  BY DEF Nothing, Totals, Rising, UpTo, Instants
<1>2. ASSUME NEW d \in Nat PROVE On(d, Nothing) = 0
  <2>1. d * Day - 1 \in Int /\ d * Day + Day - 1 \in Int
    BY Midnight
  <2> QED
    BY <1>1, <2>1 DEF On
<1> QED
  BY <1>1, <1>2
----------------------------------------------------------------------------
(***************************************************************************)
(* Types; readings are not ahead of the clock, totals do not fall in time. *)
(***************************************************************************)
HasReading(s) == s.pc \in {"allow", "check", "record"}
InOrder == /\ \A r \in Requests : req[r].at <= clock /\ (HasReading(req[r]) => req[r].at \in Times)
           /\ Rising(passed) /\ Rising(run) /\ Rising(cost) /\ \A x \in Aliases : Rising(costBy[x])
Typed == TypeOK /\ InOrder

LEMMA Facts ==
  ASSUME Typed
  PROVE  /\ clock \in Times /\ clock \in Nat /\ clock \in Instants /\ bucket \in Buckets /\ entry \in Usages
         /\ req \in [Requests -> RequestStates]
         /\ passed \in Totals /\ run \in Totals /\ cost \in Totals /\ costBy \in [Aliases -> Totals]
         /\ Rising(passed) /\ Rising(run) /\ Rising(cost) /\ lateAllows \in Nat
         /\ \A x \in Aliases : costBy[x] \in Totals /\ Rising(costBy[x])
         /\ RPM \in Nat /\ DailyLimit \in Nat /\ WeeklyLimit \in Nat
BY LimitsAreNatural DEF Typed, TypeOK, InOrder, Totals, Times, Instants

\* A reading of a request is a time while it is needed.
LEMMA Readings ==
  ASSUME Typed, NEW r \in Requests
  PROVE  /\ req[r] \in RequestStates /\ req[r].at \in Nat /\ req[r].at <= clock
         /\ HasReading(req[r]) => req[r].at \in Times
BY Facts DEF Typed, InOrder, RequestStates, Times, Zero

LEMMA WindowsRoll ==
  ASSUME NEW w \in Window, NEW t \in Times, NEW c \in Nat
  PROVE  /\ EnsureDaily(w, t) \in Window /\ EnsureWeekly(w, t) \in Window
         /\ Add(EnsureDaily(w, t), c) \in Window /\ Add(EnsureWeekly(w, t), c) \in Window
         /\ DayOf(EnsureDaily(w, t).start) = DayOf(t)
         /\ EnsureDaily(w, t).total = IF DayOf(w.start) = DayOf(t) THEN w.total ELSE 0
         /\ Add(EnsureDaily(w, t), c) = [start |-> EnsureDaily(w, t).start, total |-> EnsureDaily(w, t).total + c]
         /\ Add(EnsureWeekly(w, t), c) = [start |-> EnsureWeekly(w, t).start, total |-> EnsureWeekly(w, t).total + c]
<1>1. /\ DayOf(t) * Day \in Nat /\ DayOf(t) * Day <= t /\ DayOf(DayOf(t) * Day) = DayOf(t)
      /\ t \in Nat /\ t <= MaxClock
  BY DayHolds, Midnight DEF Times
<1>2. EnsureDaily(w, t) \in Window /\ EnsureWeekly(w, t) \in Window
  BY <1>1 DEF EnsureDaily, EnsureWeekly, Window
<1>3. ASSUME NEW v \in Window
      PROVE  Add(v, c) \in Window /\ Add(v, c) = [start |-> v.start, total |-> v.total + c]
  BY DEF Add, Window
<1>4. DayOf(EnsureDaily(w, t).start) = DayOf(t)
  BY <1>1 DEF EnsureDaily
<1>5. EnsureDaily(w, t).total = IF DayOf(w.start) = DayOf(t) THEN w.total ELSE 0
  BY NoDayBefore DEF EnsureDaily
<1> QED
  BY <1>2, <1>3, <1>4, <1>5

LEMMA TypedServe == ASSUME Typed, NEW r \in Requests, Serve(r) PROVE Typed'
<1>t. /\ clock \in Times /\ bucket \in Buckets /\ entry \in Usages /\ req \in [Requests -> RequestStates]
      /\ req[r] \in RequestStates /\ req[r].at \in Nat /\ req[r].at <= clock /\ clock \in Nat
      /\ (HasReading(req[r]) => req[r].at \in Times) /\ Zero \in Nat /\ Zero <= clock
      /\ passed \in Totals /\ run \in Totals /\ cost \in Totals /\ costBy \in [Aliases -> Totals] /\ RPM \in Nat
  BY Facts, Readings DEF Zero
<1> DEFINE Req(s) == /\ req' = [req EXCEPT ![r] = s] /\ s \in RequestStates /\ s.at <= clock
                     /\ HasReading(s) => s.at \in Times
           Passes == /\ bucket' \in Buckets /\ lateAllows' \in Nat
                     /\ passed' \in Totals /\ Rising(passed') /\ run' \in Totals /\ Rising(run')
           Spends == /\ entry' \in Usages /\ lateDays' \subseteq Nat
                     /\ cost' \in Totals /\ Rising(cost')
                     /\ costBy' \in [Aliases -> Totals] /\ \A x \in Aliases : Rising(costBy'[x])
           Rest == UNCHANGED <<clock, resets>>
<1>a. ASSUME NEW s, Req(s), Passes, Spends, Rest PROVE Typed'
  <2>1. /\ req' \in [Requests -> RequestStates]
        /\ \A p \in Requests : req'[p].at <= clock /\ (HasReading(req'[p]) => req'[p].at \in Times)
    BY <1>t, <1>a DEF Typed, InOrder
  <2> QED
    BY <1>a, <2>1 DEF Typed, TypeOK, InOrder, Totals, HasReading
<1>e. ASSUME NEW pc \in {"budget", "rejected", "done"}, req' = [req EXCEPT ![r] = At(pc, Zero)]
      PROVE  Req(At(pc, Zero))
  <2>1. At(pc, Zero) \in RequestStates /\ At(pc, Zero).pc = pc /\ At(pc, Zero).at = Zero
    BY DEF At, RequestStates
  <2>2. ~HasReading(At(pc, Zero))
    BY <2>1 DEF HasReading
  <2> QED
    BY <1>t, <1>e, <2>1, <2>2
<1>c. ASSUME NEW pc \in {"allow", "record"}, req' = [req EXCEPT ![r] = At(pc, clock)]
      PROVE  Req(At(pc, clock))
  <2>1. At(pc, clock) \in RequestStates /\ At(pc, clock).at = clock
    BY <1>t DEF At, RequestStates
  <2> QED
    BY <1>t, <1>c, <2>1
<1>p. UNCHANGED <<bucket, passed, run, lateAllows>> => Passes
  BY Facts DEF Typed, TypeOK
<1>s. UNCHANGED <<entry, cost, costBy, lateDays>> => Spends
  BY Facts DEF Typed, TypeOK
<1>n. \A d : SpentOn(d) = UpTo(cost, d * Day + Day - 1) - UpTo(cost, d * Day - 1)
  BY DEF SpentOn, On
<1>d. SpentOn(DayOf(clock)) \in Nat /\ SpentWithin(clock) \in Nat
  <2> DEFINE m == DayOf(clock) * Day
  <2>1. m \in Nat
    BY <1>t, DayHolds, Midnight
  <2>2. SpentOn(DayOf(clock)) = UpTo(cost, m + Day - 1) - UpTo(cost, m - 1)
    BY <1>n
  <2> HIDE DEF m
  <2>3. m + Day - 1 \in Int /\ m - 1 \in Int /\ m - 1 <= m + Day - 1
    BY <2>1
  <2>4. UpTo(cost, m + Day - 1) \in Nat /\ UpTo(cost, m - 1) \in Nat /\ UpTo(cost, m - 1) <= UpTo(cost, m + Day - 1)
    BY <2>3, Facts, UpToRises
  <2>5. clock - Week \in Int /\ clock - Week <= clock
    BY <1>t
  <2>6. UpTo(cost, clock - Week) \in Nat /\ UpTo(cost, clock) \in Nat /\ UpTo(cost, clock - Week) <= UpTo(cost, clock)
    BY <1>t, <2>5, Facts, UpToRises
  <2> QED
    BY <2>2, <2>4, <2>6 DEF SpentWithin, SpentBefore
<1> HIDE DEF Req, Passes, Spends, Rest
<1>1. CASE ReadClockToAllow(r)
  <2>1. req' = [req EXCEPT ![r] = At("budget", Zero)] \/ req' = [req EXCEPT ![r] = At("allow", clock)]
    BY <1>1 DEF ReadClockToAllow
  <2>2. \E s : Req(s)
    BY <1>e, <1>c, <2>1
  <2> QED
    BY <1>1, <1>a, <1>p, <1>s, <2>2 DEF ReadClockToAllow, Rest
<1>2. CASE Allow(r)
  <2> DEFINE b == CurrentBucket(req[r].at)
             late == req[r].at < bucket.start
             passing == IF BucketFull(b) THEN 0 ELSE 1
  <2>1. req' = [req EXCEPT ![r] = At("rejected", Zero)] \/ req' = [req EXCEPT ![r] = At("budget", Zero)]
    BY <1>2 DEF Allow
  <2>2. req[r].at \in Times
    BY <1>2, <1>t DEF Allow, HasReading
  <2>3. b \in Buckets
    BY <1>t, <2>2 DEF CurrentBucket, Buckets
  <2>4. ~BucketFull(b) => CountOne(b) \in Buckets
    BY <1>t, <2>3 DEF BucketFull, CountOne, Buckets
  <2>5. bucket' = b \/ (bucket' = CountOne(b) /\ ~BucketFull(b))
    BY <1>2 DEF Allow
  <2>6. /\ lateAllows' = IF late THEN lateAllows + 1 ELSE lateAllows
        /\ run' = Since(IF late THEN Nothing ELSE run, req[r].at, passing)
        /\ passed' = Since(passed, req[r].at, passing)
    BY <1>2 DEF Allow
  <2>7. passing \in Nat /\ Nothing \in Totals /\ Rising(Nothing)
    BY NothingYet
  <2> HIDE DEF b, late, passing
  <2>8. passed' \in Totals /\ Rising(passed') /\ run' \in Totals /\ Rising(run') /\ lateAllows' \in Nat
    <3> DEFINE before == IF late THEN Nothing ELSE run
    <3>1. before \in Totals /\ Rising(before) /\ passed \in Totals /\ Rising(passed) /\ lateAllows \in Nat
      BY <2>7, Facts
    <3>2. run' = Since(before, req[r].at, passing)
      BY <2>6
    <3> HIDE DEF before
    <3> QED
      BY <2>2, <2>6, <2>7, <3>1, <3>2, SinceAdds
  <2>9. Passes /\ Spends /\ Rest
    BY <1>2, <1>s, <2>3, <2>4, <2>5, <2>8 DEF Allow, Passes, Rest
  <2>10. \E s : Req(s)
    BY <1>e, <2>1
  <2> QED
    BY <1>a, <2>9, <2>10
<1>3. CASE ReadClockToCheck(r)
  <2> DEFINE dayThen == IF DayOf(clock) \in lateDays THEN 0 ELSE SpentOn(DayOf(clock))
             s == [req[r] EXCEPT !.pc = IF DailyLimit = 0 /\ WeeklyLimit = 0 THEN "serving" ELSE "check",
                     !.at = clock, !.dayThen = dayThen, !.weekThen = SpentWithin(clock),
                     !.idle = Idle(clock)]
  <2>1. s \in RequestStates /\ s.at = clock
    BY <1>t, <1>d DEF RequestStates, Idle
  <2>2. req' = [req EXCEPT ![r] = s]
    BY <1>3, <1>t DEF ReadClockToCheck
  <2> HIDE DEF s
  <2>3. Req(s)
    BY <1>t, <2>1, <2>2 DEF Req
  <2> QED
    BY <1>3, <1>a, <1>p, <1>s, <2>3 DEF ReadClockToCheck, Rest
<1>4. CASE OverLimit(r)
  <2>1. CASE req' = [req EXCEPT ![r] = At("rejected", Zero)]
    BY <1>4, <1>a, <1>p, <1>s, <1>e, <2>1 DEF OverLimit, Rest
  <2>2. ASSUME NEW dayThen \in {0, req[r].dayThen}, NEW weekThen \in {0, req[r].weekThen},
               req' = [req EXCEPT ![r] = [req[r] EXCEPT !.pc = "serving", !.at = Zero,
                                                        !.dayThen = dayThen, !.weekThen = weekThen]]
        PROVE  Typed'
    <3> DEFINE s == [req[r] EXCEPT !.pc = "serving", !.at = Zero, !.dayThen = dayThen, !.weekThen = weekThen]
    <3>1. dayThen \in Nat /\ weekThen \in Nat
      BY <1>t DEF RequestStates
    <3>2. s \in RequestStates /\ s.at = Zero /\ ~HasReading(s)
      BY <1>t, <3>1 DEF RequestStates, HasReading
    <3>3. req' = [req EXCEPT ![r] = s]
      BY <2>2
    <3> HIDE DEF s
    <3>4. Req(s)
      BY <1>t, <3>2, <3>3 DEF Req
    <3> QED
      BY <1>4, <1>a, <1>p, <1>s, <3>4 DEF OverLimit, Rest
  <2>3. \/ req' = [req EXCEPT ![r] = At("rejected", Zero)]
        \/ \E dayThen \in {0, req[r].dayThen}, weekThen \in {0, req[r].weekThen} :
             req' = [req EXCEPT ![r] = [req[r] EXCEPT !.pc = "serving", !.at = Zero,
                                                      !.dayThen = dayThen, !.weekThen = weekThen]]
    BY <1>4, <1>t DEF OverLimit
  <2> QED
    BY <2>1, <2>2, <2>3
<1>5. CASE ReadClockToRecord(r)
  <2>1. req' = [req EXCEPT ![r] = At("record", clock)]
    BY <1>5 DEF ReadClockToRecord
  <2> QED
    BY <1>5, <1>a, <1>p, <1>s, <1>c, <2>1 DEF ReadClockToRecord, Rest
<1>6. CASE EndUnbilled(r)
  <2>1. req' = [req EXCEPT ![r] = At("done", Zero)]
    BY <1>6 DEF EndUnbilled
  <2> QED
    BY <1>6, <1>a, <1>p, <1>s, <1>e, <2>1 DEF EndUnbilled, Rest
<1>7. CASE RecordCost(r)
  <2> DEFINE t == req[r].at
  <2>1. PICK c \in Costs, x \in Aliases :
             /\ entry' = [daily |-> Add(EnsureDaily(entry.daily, t), c),
                          weekly |-> Add(EnsureWeekly(entry.weekly, t), c),
                          byAlias |-> [entry.byAlias EXCEPT ![x] =
                              [daily |-> Add(EnsureAlias(entry.byAlias[x], t).daily, c),
                               weekly |-> Add(EnsureAlias(entry.byAlias[x], t).weekly, c)]]]
             /\ cost' = Since(cost, t, c)
             /\ costBy' = [costBy EXCEPT ![x] = Since(costBy[x], t, c)]
    BY <1>7 DEF RecordCost
  <2>2. t \in Times /\ c \in Nat
    BY <1>7, <1>t, CostsArePositive DEF RecordCost, HasReading
  <2>3. /\ entry.daily \in Window /\ entry.weekly \in Window
        /\ entry.byAlias \in [Aliases -> [daily : Window, weekly : Window]]
        /\ entry.byAlias[x].daily \in Window /\ entry.byAlias[x].weekly \in Window
    BY <1>t DEF Usages
  <2>4. entry' \in Usages
    BY <2>1, <2>2, <2>3, WindowsRoll DEF Usages, EnsureAlias
  <2>5. /\ cost' \in Totals /\ Rising(cost')
        /\ costBy' \in [Aliases -> Totals] /\ \A y \in Aliases : Rising(costBy'[y])
    BY <1>t, <2>1, <2>2, Facts, SinceAdds
  <2>6. DayOf(entry.daily.start) \in Nat
    BY <2>3, DayHolds DEF Window, Zero
  <2>7. lateDays' \subseteq Nat
    BY <1>7, <2>6 DEF RecordCost, Typed, TypeOK
  <2>8. Req(At("done", Zero))
    BY <1>7, <1>e DEF RecordCost
  <2>9. Spends /\ Passes /\ Rest
    BY <1>7, <1>p, <2>4, <2>5, <2>7 DEF RecordCost, Spends, Rest
  <2> QED
    BY <1>a, <2>8, <2>9
<1> QED
  BY <1>1, <1>2, <1>3, <1>4, <1>5, <1>6, <1>7 DEF Serve

LEMMA TypedStep == Typed /\ [Next]_vars => Typed'
<1> SUFFICES ASSUME Typed, [Next]_vars PROVE Typed'
  OBVIOUS
<1>t. /\ clock \in Times /\ clock \in Nat /\ bucket \in Buckets /\ entry \in Usages
      /\ req \in [Requests -> RequestStates] /\ RPM \in Nat /\ resets \in 0..MaxResets /\ MaxResets \in Nat
  BY Facts, Readings, LimitsAreNatural DEF Typed, TypeOK
<1>r. resets < MaxResets => resets + 1 \in 0..MaxResets
  BY <1>t
<1>1. CASE Tick
  <2>1. clock' \in Times /\ \A r \in Requests : req[r].at <= clock'
    BY <1>1, <1>t, Readings DEF Tick, Times
  <2> QED
    BY <1>1, <2>1 DEF Tick, Typed, TypeOK, InOrder, HasReading
<1>2. CASE ResetRPM
  <2>1. bucket' \in Buckets
    BY <1>2, <1>t DEF ResetRPM, Buckets
  <2>2. passed' \in Totals /\ Rising(passed') /\ run' \in Totals /\ Rising(run') /\ lateAllows' \in Nat
    BY <1>2, NothingYet DEF ResetRPM
  <2> QED
    BY <1>2, <1>r, <2>1, <2>2 DEF ResetRPM, Typed, TypeOK, InOrder, Totals, HasReading
<1>3. CASE ResetUsage
  <2>1. NoUsage \in Usages
    BY DEF NoUsage, NoWindow, Usages, Window
  <2>2. /\ cost' \in Totals /\ Rising(cost') /\ costBy' \in [Aliases -> Totals]
        /\ \A x \in Aliases : Rising(costBy'[x])
    BY <1>3, NothingYet DEF ResetUsage
  <2>3. /\ req' \in [Requests -> RequestStates]
        /\ \A r \in Requests : req'[r].at = req[r].at /\ req'[r].pc = req[r].pc
    <3>1. ASSUME NEW r \in Requests
          PROVE  [req[r] EXCEPT !.dayThen = 0, !.weekThen = 0] \in RequestStates
      BY <1>t DEF RequestStates
    <3>2. \A r \in Requests : [req[r] EXCEPT !.dayThen = 0, !.weekThen = 0].at = req[r].at
                             /\ [req[r] EXCEPT !.dayThen = 0, !.weekThen = 0].pc = req[r].pc
      BY <1>t DEF RequestStates
    <3> QED
      BY <1>3, <1>t, <3>1, <3>2 DEF ResetUsage
  <2> QED
    BY <1>3, <1>r, <2>1, <2>2, <2>3 DEF ResetUsage, Typed, TypeOK, InOrder, Totals, HasReading
<1>4. CASE UNCHANGED vars
  BY <1>4 DEF Typed, TypeOK, InOrder, HasReading, vars
<1> QED
  BY <1>1, <1>2, <1>3, <1>4, TypedServe DEF Next

LEMMA AlwaysTyped == Spec => []Typed
<1>1. Init => Typed
  <2> SUFFICES ASSUME Init PROVE Typed
    OBVIOUS
  <2>1. clock \in Times /\ bucket \in Buckets /\ resets \in 0..MaxResets
    BY LimitsAreNatural DEF Init, Times, Buckets
  <2>2. entry \in Usages
    BY DEF Init, NoUsage, NoWindow, Usages, Window
  <2>3. req \in [Requests -> RequestStates] /\ \A r \in Requests : req[r].at <= clock /\ req[r].pc = "new"
    <3>1. At("new", Zero) \in RequestStates /\ At("new", Zero).at = Zero /\ At("new", Zero).pc = "new"
      BY DEF At, RequestStates
    <3>2. Zero <= clock
      BY <2>1 DEF Zero, Times
    <3> QED
      BY <3>1, <3>2 DEF Init
  <2>4. /\ passed \in Totals /\ run \in Totals /\ cost \in Totals /\ costBy \in [Aliases -> Totals]
        /\ Rising(passed) /\ Rising(run) /\ Rising(cost) /\ \A x \in Aliases : Rising(costBy[x])
    BY NothingYet DEF Init
  <2> QED
    BY <2>1, <2>2, <2>3, <2>4 DEF Init, Typed, TypeOK, InOrder, Totals, HasReading
<1> QED
  BY <1>1, TypedStep, PTL DEF Spec

\* Among what TypeOK says: no bucket counts more requests than the limit.
THEOREM TypeCorrect == Spec => []TypeOK
<1>1. Typed => TypeOK
  BY DEF Typed
<1> QED
  BY <1>1, AlwaysTyped, PTL
----------------------------------------------------------------------------
(***************************************************************************)
(* The rate.  Since the bucket last went back in time, it counts all that  *)
(* passed since it began, nothing passed after its minute, and in the      *)
(* minute before it passed no more than the bucket before it held.  What   *)
(* passed before it went back are as many such runs as it did so.          *)
(***************************************************************************)
Bucketed ==
    RPM > 0 =>
      LET b == bucket.start
      IN  /\ b = Zero => bucket.count = 0 /\ run[MaxClock] = 0
          /\ b # Zero => /\ run[MaxClock] = run[b - 1] + bucket.count
                         /\ \A t \in Instants : b + Minute <= t + 1 => run[t] = run[MaxClock]
                         /\ run[b - 1] <= run[b - Minute] + RPM
          /\ \A s, t \in Instants : t <= s + Minute => run[t] - run[s] <= 2 * RPM

RunsBefore ==
    RPM > 0 => \A s, t \in Instants : t <= s + Minute =>
                  (passed[t] - passed[s]) - (run[t] - run[s]) <= 2 * RPM * lateAllows

LEMMA TwoMore ==
  ASSUME NEW n \in Nat, RPM \in Nat
  PROVE  2 * RPM * n \in Nat /\ 2 * RPM * (n + 1) = 2 * RPM * n + 2 * RPM
OBVIOUS

\* What Allow counts, whether the request passes or not.
LEMMA Counting ==
  ASSUME Typed, NEW r \in Requests, Allow(r)
  PROVE  LET t == req[r].at
             b == CurrentBucket(t)
             passing == IF BucketFull(b) THEN 0 ELSE 1
         IN  /\ t \in Times
             /\ bucket' = IF BucketFull(b) THEN b ELSE CountOne(b)
             /\ t < bucket.start =>
                  /\ lateAllows' = lateAllows + 1
                  /\ \A u \in Instants : run'[u] = IF u >= t THEN passing ELSE 0
             /\ ~(t < bucket.start) =>
                  /\ lateAllows' = lateAllows
                  /\ \A u \in Instants : run'[u] = IF u >= t THEN run[u] + passing ELSE run[u]
             /\ \A u \in Instants : passed'[u] = IF u >= t THEN passed[u] + passing ELSE passed[u]
<1> DEFINE t == req[r].at
           b == CurrentBucket(t)
           passing == IF BucketFull(b) THEN 0 ELSE 1
<1>1. t \in Times
  BY Readings DEF Allow, HasReading
<1>2. bucket' = IF BucketFull(b) THEN b ELSE CountOne(b)
  BY DEF Allow
<1>3. /\ lateAllows' = IF t < bucket.start THEN lateAllows + 1 ELSE lateAllows
      /\ run' = Since(IF t < bucket.start THEN Nothing ELSE run, t, passing)
      /\ passed' = Since(passed, t, passing)
  BY DEF Allow
<1>4. passing \in Nat /\ Nothing \in Totals /\ \A u \in Instants : Nothing[u] = 0
  BY NothingYet
<1> HIDE DEF t, b, passing
<1>5. /\ \A u \in Instants : Since(passed, t, passing)[u] = IF u >= t THEN passed[u] + passing ELSE passed[u]
      /\ \A u \in Instants : Since(run, t, passing)[u] = IF u >= t THEN run[u] + passing ELSE run[u]
      /\ \A u \in Instants : Since(Nothing, t, passing)[u] = IF u >= t THEN 0 + passing ELSE 0
  <2>1. \A f \in Totals : \A u \in Instants : Since(f, t, passing)[u] = IF u >= t THEN f[u] + passing ELSE f[u]
    BY <1>1, <1>4, SinceAdds
  <2>2. passed \in Totals /\ run \in Totals
    BY Facts
  <2> QED
    BY <1>4, <2>1, <2>2
<1> QED
  BY <1>1, <1>2, <1>3, <1>4, <1>5 DEF t, b, passing

\* A reading older than the bucket begins a run of its own.
LEMMA BucketLate ==
  ASSUME Typed, NEW r \in Requests, Allow(r), req[r].at < bucket.start, RPM > 0
  PROVE  Bucketed'
<1> DEFINE t == req[r].at
<1>1. /\ t \in Times /\ t \in Nat /\ t - 1 \in Instants /\ t - Minute \in Instants /\ t <= MaxClock
      /\ MaxClock \in Instants /\ t # Zero /\ t - 1 < t /\ t - Minute < t /\ RPM \in Nat
  BY Counting, Facts DEF Times, Instants, Zero
<1>2. CurrentBucket(t) = [start |-> t, count |-> 0]
  BY DEF CurrentBucket
<1>3. ~BucketFull(CurrentBucket(t)) /\ CountOne(CurrentBucket(t)) = [start |-> t, count |-> 1]
  BY <1>1, <1>2 DEF BucketFull, CountOne
<1>4. /\ bucket' = [start |-> t, count |-> 1]
      /\ \A u \in Instants : run'[u] = IF u >= t THEN 1 ELSE 0
  BY <1>3, Counting
<1>5. run'[MaxClock] = 1 /\ run'[t - 1] = 0 /\ run'[t - Minute] = 0
  BY <1>1, <1>4
<1> HIDE DEF t
<1>6. \A u \in Instants : t + Minute <= u + 1 => run'[u] = 1
  BY <1>1, <1>4 DEF Instants
<1>7. \A s, u \in Instants : run'[u] - run'[s] <= 2 * RPM
  BY <1>1, <1>4
<1> QED
  BY <1>1, <1>4, <1>5, <1>6, <1>7 DEF Bucketed

LEMMA BucketInOrder ==
  ASSUME Typed, Bucketed, NEW r \in Requests, Allow(r), ~(req[r].at < bucket.start), RPM > 0
  PROVE  Bucketed'
<1> DEFINE t == req[r].at
           b == bucket.start
           n == bucket.count
<1>2. /\ t \in Times /\ t \in Nat /\ t - 1 \in Instants /\ t - Minute \in Instants /\ t <= MaxClock
      /\ RPM \in Nat /\ n \in Nat /\ n <= RPM /\ b \in Nat /\ (b # Zero => b \in Times)
      /\ run \in Totals /\ Rising(run)
  <2>1. t \in Times
    BY Counting
  <2> QED
    BY <2>1, Facts DEF Times, Instants, Buckets, Zero
<1>3. b <= t
  BY <1>2
<1>o. /\ b = Zero => n = 0 /\ run[MaxClock] = 0
      /\ b # Zero => /\ run[MaxClock] = run[b - 1] + n
                     /\ \A u \in Instants : b + Minute <= u + 1 => run[u] = run[MaxClock]
                     /\ run[b - 1] <= run[b - Minute] + RPM
      /\ \A s, u \in Instants : u <= s + Minute => run[u] - run[s] <= 2 * RPM
  BY DEF Bucketed
<1>i. MaxClock \in Instants /\ \A u \in Instants : run[u] \in Nat /\ run[u] <= run[MaxClock]
  BY <1>2 DEF Instants, Totals, Rising
<1>4. CASE BucketFull(CurrentBucket(t))
  <2>1. CurrentBucket(t) = bucket
    BY <1>2, <1>4 DEF BucketFull, CurrentBucket
  <2>2. UNCHANGED bucket /\ \A u \in Instants : run'[u] = run[u]
    BY <1>2, <1>3, <1>4, <2>1, <1>i, Counting
  <2>3. b # Zero => b - 1 \in Instants /\ b - Minute \in Instants
    BY <1>2 DEF Times, Instants
  <2> QED
    BY <1>i, <2>2, <2>3, <1>o DEF Bucketed
<1>5. CASE ~BucketFull(CurrentBucket(t))
  <2> DEFINE Kept == b # Zero /\ t - b < Minute
  <2>k. /\ CurrentBucket(t) = IF Kept THEN bucket ELSE [start |-> t, count |-> 0]
        /\ bucket' = CountOne(CurrentBucket(t))
    BY <1>2, <1>3, <1>5, Counting DEF CurrentBucket
  <2>q. \A u \in Instants : /\ run'[u] = IF u >= t THEN run[u] + 1 ELSE run[u]
                            /\ run'[u] \in Nat
    BY <1>2, <1>3, <1>5, <1>i, Counting
  <2>m. run'[MaxClock] = run[MaxClock] + 1
    BY <1>2, <1>i, <2>q
  <2>1. CASE Kept
    <3>1. bucket'.start = b /\ bucket'.count = n + 1 /\ n < RPM
      BY <1>2, <1>5, <2>k, <2>1, Facts DEF CountOne, BucketFull, Buckets
    <3>2. b - 1 \in Instants /\ b - Minute \in Instants /\ b - 1 < t /\ b - Minute < t
      BY <1>2, <1>3, <2>1 DEF Times, Instants
    <3>3. run'[b - 1] = run[b - 1] /\ run'[b - Minute] = run[b - Minute]
      BY <1>2, <2>q, <3>2
    <3>4. run'[MaxClock] = run'[b - 1] + (n + 1) /\ run'[b - 1] <= run'[b - Minute] + RPM
      BY <1>2, <1>o, <1>i, <2>1, <2>m, <3>2, <3>3
    <3>5. \A u \in Instants : b + Minute <= u + 1 => run'[u] = run'[MaxClock]
      BY <1>2, <1>o, <2>1, <2>q, <2>m DEF Instants
    <3>6. ASSUME NEW s \in Instants, NEW u \in Instants, u <= s + Minute
          PROVE  run'[u] - run'[s] <= 2 * RPM
      <4>1. CASE u < t \/ s >= t
        BY <1>o, <1>2, <1>i, <2>q, <3>6, <4>1 DEF Instants
      <4>2. CASE u >= t /\ s < t
        <5>1. run'[u] <= run[MaxClock] + 1 /\ run'[s] = run[s]
          BY <1>2, <1>i, <2>q, <4>2
        <5>2. s >= b - Minute
          BY <1>2, <1>3, <3>6, <4>2 DEF Instants
        <5>3. run[b - Minute] <= run[s]
          BY <1>2, <3>2, <5>2 DEF Rising
        <5>4. run[MaxClock] = run[b - 1] + n /\ run[b - 1] <= run[b - Minute] + RPM
          BY <1>o, <2>1
        <5> QED
          BY <1>2, <1>i, <2>q, <3>1, <3>2, <5>1, <5>3, <5>4
      <4> QED
        BY <1>2, <4>1, <4>2 DEF Instants
    <3> QED
      BY <2>1, <3>1, <3>4, <3>5, <3>6 DEF Bucketed
  <2>2. CASE ~Kept
    <3>1. bucket'.start = t /\ bucket'.count = 1
      BY <2>k, <2>2 DEF CountOne
    <3>2. t - 1 < t /\ t - Minute < t /\ t # Zero
      BY <1>2 DEF Times, Zero
    <3>3. run'[t - 1] = run[t - 1] /\ run'[t - Minute] = run[t - Minute]
      BY <1>2, <2>q, <3>2
    \* Nothing has run since the old bucket's minute.
    <3>4. run[t - 1] = run[MaxClock] /\ run[MaxClock] <= run[t - Minute] + RPM
      <4>1. CASE b = Zero
        BY <1>2, <1>i, <1>o, <4>1
      <4>2. CASE b # Zero
        <5>1. t - b >= Minute /\ b \in Times
          BY <1>2, <2>2, <4>2
        <5>2. run[t - 1] = run[MaxClock]
          BY <1>2, <1>o, <4>2, <5>1
        <5>3. b - 1 \in Instants /\ b - 1 <= t - Minute
          BY <1>2, <5>1 DEF Times, Instants
        <5>4. run[b - 1] <= run[t - Minute]
          BY <1>2, <5>3 DEF Rising
        <5> QED
          BY <1>2, <1>i, <1>o, <4>2, <5>2, <5>3, <5>4
      <4> QED
        BY <4>1, <4>2
    <3>5. run'[MaxClock] = run'[t - 1] + 1 /\ run'[t - 1] <= run'[t - Minute] + RPM
      BY <1>2, <1>i, <2>m, <3>3, <3>4
    <3>6. \A u \in Instants : t <= u => run'[u] = run'[MaxClock]
      <4>1. ASSUME NEW u \in Instants, t <= u PROVE run[u] = run[MaxClock]
        <5>1. run[t - 1] <= run[u] /\ run[u] <= run[MaxClock] /\ run[u] \in Nat
          BY <1>2, <1>i, <4>1 DEF Rising, Instants
        <5> QED
          BY <1>i, <3>4, <5>1
      <4> QED
        BY <2>q, <2>m, <4>1 DEF Instants
    <3>7. ASSUME NEW s \in Instants, NEW u \in Instants, u <= s + Minute
          PROVE  run'[u] - run'[s] <= 2 * RPM
      <4>1. CASE u < t \/ s >= t
        BY <1>o, <1>2, <1>i, <2>q, <3>7, <4>1 DEF Instants
      <4>2. CASE u >= t /\ s < t
        <5>1. run'[u] <= run[MaxClock] + 1 /\ run'[s] = run[s]
          BY <1>2, <1>i, <2>q, <4>2
        <5>2. run[t - Minute] <= run[s]
          <6>1. t - Minute <= s
            BY <1>2, <3>7, <4>2 DEF Instants
          <6> QED
            BY <1>2, <6>1 DEF Rising
        <5> QED
          BY <1>2, <1>i, <2>q, <3>4, <5>1, <5>2
      <4> QED
        BY <1>2, <4>1, <4>2 DEF Instants
    <3>8. \A u \in Instants : t + Minute <= u + 1 => t <= u
      BY <1>2 DEF Instants
    <3> QED
      BY <3>1, <3>2, <3>5, <3>6, <3>7, <3>8 DEF Bucketed
  <2> QED
    BY <2>1, <2>2
<1> QED
  BY <1>4, <1>5

\* How the runs before this one add up.
LEMMA RunsAddUp ==
  ASSUME Typed, Bucketed, RunsBefore, NEW r \in Requests, Allow(r)
  PROVE  RunsBefore'
<1> DEFINE t == req[r].at
<1>1. SUFFICES ASSUME RPM > 0, NEW s \in Instants, NEW u \in Instants, u <= s + Minute
      PROVE  (passed'[u] - passed'[s]) - (run'[u] - run'[s]) <= 2 * RPM * lateAllows'
  BY DEF RunsBefore
<1>2. /\ passed[u] \in Nat /\ passed[s] \in Nat /\ run[u] \in Nat /\ run[s] \in Nat /\ lateAllows \in Nat
      /\ (passed[u] - passed[s]) - (run[u] - run[s]) <= 2 * RPM * lateAllows
      /\ run[u] - run[s] <= 2 * RPM
  BY <1>1, Facts DEF Bucketed, RunsBefore, Totals
<1>3. PICK passing \in {0, 1} :
        /\ t < bucket.start =>
             /\ lateAllows' = lateAllows + 1
             /\ \A v \in Instants : run'[v] = IF v >= t THEN passing ELSE 0
        /\ ~(t < bucket.start) =>
             /\ lateAllows' = lateAllows
             /\ \A v \in Instants : run'[v] = IF v >= t THEN run[v] + passing ELSE run[v]
        /\ \A v \in Instants : passed'[v] = IF v >= t THEN passed[v] + passing ELSE passed[v]
  BY Counting
<1> HIDE DEF t
<1>4. CASE t < bucket.start
  <2>1. (passed'[u] - passed'[s]) - (run'[u] - run'[s]) = passed[u] - passed[s]
    BY <1>2, <1>3, <1>4
  <2>2. 2 * RPM * lateAllows \in Nat /\ 2 * RPM * lateAllows' = 2 * RPM * lateAllows + 2 * RPM
    BY <1>2, <1>3, <1>4, TwoMore, Facts
  <2> HIDE DEF t
  <2> DEFINE n == 2 * RPM * lateAllows
             m == 2 * RPM * lateAllows'
  <2>3. n \in Nat /\ m = n + 2 * RPM /\ (passed[u] - passed[s]) - (run[u] - run[s]) <= n
    BY <1>2, <2>2
  <2> HIDE DEF n, m
  <2>4. passed[u] - passed[s] <= m
    BY <1>2, <2>3, Facts
  <2> QED
    BY <2>1, <2>4 DEF m
<1>5. CASE ~(t < bucket.start)
  <2>1. (passed'[u] - passed'[s]) - (run'[u] - run'[s]) = (passed[u] - passed[s]) - (run[u] - run[s])
    BY <1>2, <1>3, <1>5
  <2> QED
    BY <1>2, <1>3, <1>5, <2>1
<1> QED
  BY <1>4, <1>5

\* No minute sees more requests of a key than two buckets hold, wherever the
\* minutes the buckets count began, and however long the requests wait for the
\* mutex; each reading older than the bucket adds two buckets at most.
THEOREM MinutesAreBounded == Spec => []TwoBucketsAMinute
<1>z. ASSUME passed = Nothing, run = Nothing, lateAllows = 0, bucket = [start |-> Zero, count |-> 0],
             RPM \in Nat
      PROVE  Bucketed /\ RunsBefore
  BY <1>z, NothingYet DEF Bucketed, RunsBefore, Instants
<1>1. Init => Bucketed /\ RunsBefore
  BY <1>z, LimitsAreNatural DEF Init
<1>2. Typed /\ Bucketed /\ RunsBefore /\ [Next]_vars => Bucketed' /\ RunsBefore'
  <2> SUFFICES ASSUME Typed, Bucketed, RunsBefore, [Next]_vars PROVE Bucketed' /\ RunsBefore'
    OBVIOUS
  <2>1. UNCHANGED <<bucket, passed, run, lateAllows>> => Bucketed' /\ RunsBefore'
    BY DEF Bucketed, RunsBefore
  <2>2. CASE ResetRPM
    <3>1. /\ passed' = Nothing /\ run' = Nothing /\ lateAllows' = 0
          /\ bucket' = [start |-> Zero, count |-> 0]
      BY <2>2 DEF ResetRPM
    <3> QED
      BY <3>1, NothingYet, Facts DEF Bucketed, RunsBefore, Instants
  <2>3. ASSUME NEW r \in Requests, Allow(r) PROVE Bucketed' /\ RunsBefore'
    <3>1. RPM > 0 => Bucketed'
      BY <2>3, BucketLate, BucketInOrder
    <3>2. ~(RPM > 0) => Bucketed'
      BY DEF Bucketed
    <3> QED
      BY <2>3, <3>1, <3>2, RunsAddUp
  <2> QED
    BY <2>1, <2>2, <2>3
    DEF Next, Tick, ResetUsage, Serve, ReadClockToAllow, ReadClockToCheck, OverLimit,
        ReadClockToRecord, EndUnbilled, RecordCost, vars
<1>3. Typed /\ Bucketed /\ RunsBefore => TwoBucketsAMinute
  <2> SUFFICES ASSUME Typed, Bucketed, RunsBefore, RPM > 0, NEW s \in Instants, NEW t \in Instants,
                      t <= s + Minute
               PROVE  passed[t] - passed[s] <= 2 * RPM * (lateAllows + 1)
    BY DEF TwoBucketsAMinute
  <2>1. /\ passed[t] \in Nat /\ passed[s] \in Nat /\ run[t] \in Nat /\ run[s] \in Nat
        /\ (passed[t] - passed[s]) - (run[t] - run[s]) <= 2 * RPM * lateAllows
        /\ run[t] - run[s] <= 2 * RPM
    BY Facts DEF Bucketed, RunsBefore, Totals
  <2>2. 2 * RPM * lateAllows \in Nat /\ 2 * RPM * (lateAllows + 1) = 2 * RPM * lateAllows + 2 * RPM
    BY TwoMore, Facts
  <2> DEFINE n == 2 * RPM * lateAllows
             m == 2 * RPM * (lateAllows + 1)
  <2>3. n \in Nat /\ m = n + 2 * RPM /\ (passed[t] - passed[s]) - (run[t] - run[s]) <= n
    BY <2>1, <2>2
  <2> HIDE DEF n, m
  <2>4. passed[t] - passed[s] <= m
    BY <2>1, <2>3, Facts
  <2> QED
    BY <2>4 DEF m
<1> QED
  BY <1>1, <1>2, <1>3, AlwaysTyped, PTL DEF Spec
----------------------------------------------------------------------------
(***************************************************************************)
(* The day.  A window never holds more than its day cost.  Unless an older *)
(* reading voided the day it holds exactly that, and a day that it does    *)
(* not stand for cost nothing yet.  What voids the day of an alias's       *)
(* window also voids the day of the key's.                                 *)
(***************************************************************************)
LEMMA SpentOnRises ==
  ASSUME NEW f \in Totals, Rising(f), NEW d \in Nat
  PROVE  On(d, f) \in Nat
<1> DEFINE m == d * Day
<1>1. m \in Nat /\ On(d, f) = UpTo(f, m + Day - 1) - UpTo(f, m - 1)
  BY Midnight DEF On
<1> HIDE DEF m
<1>2. m + Day - 1 \in Int /\ m - 1 \in Int /\ m - 1 <= m + Day - 1
  BY <1>1
<1>3. UpTo(f, m + Day - 1) \in Nat /\ UpTo(f, m - 1) \in Nat /\ UpTo(f, m - 1) <= UpTo(f, m + Day - 1)
  BY <1>2, UpToRises
<1> QED
  BY <1>1, <1>3

AtMost(w, f) == w.total <= On(DayOf(w.start), f)

NeverMore == /\ AtMost(entry.daily, cost)
             /\ \A x \in Aliases : AtMost(entry.byAlias[x].daily, costBy[x])

Exact(w, f, d) == On(d, f) = IF DayOf(w.start) = d THEN w.total ELSE 0

DaysExact ==
    \A d \in Nat : d >= DayOf(clock) /\ d \notin lateDays =>
        /\ Exact(entry.daily, cost, d)
        /\ \A x \in Aliases :
             /\ Exact(entry.byAlias[x].daily, costBy[x], d)
             /\ DayOf(entry.byAlias[x].daily.start) = d => DayOf(entry.daily.start) = d

LEMMA ChargeExact ==
  ASSUME NEW w \in Window, NEW f \in Totals, NEW t \in Times, NEW c \in Nat, NEW d \in Nat,
         Exact(w, f, d), DayOf(t) = d \/ DayOf(w.start) # d
  PROVE  /\ Exact(Add(EnsureDaily(w, t), c), Since(f, t, c), d)
         /\ DayOf(Add(EnsureDaily(w, t), c).start) = DayOf(t)
<1> DEFINE new == Add(EnsureDaily(w, t), c)
<1>1. DayOf(new.start) = DayOf(t) /\ new.total = (IF DayOf(w.start) = DayOf(t) THEN w.total ELSE 0) + c
  <2> DEFINE v == EnsureDaily(w, t)
  <2>1. /\ new = [start |-> v.start, total |-> v.total + c] /\ DayOf(v.start) = DayOf(t)
        /\ v.total = IF DayOf(w.start) = DayOf(t) THEN w.total ELSE 0
    BY WindowsRoll
  <2> HIDE DEF v, new
  <2> QED
    BY <2>1
<1>2. On(d, Since(f, t, c)) = On(d, f) + (IF DayOf(t) = d THEN c ELSE 0)
  BY OnAdds
<1>3. w.total \in Nat
  BY DEF Window
<1> HIDE DEF new
<1>4. Exact(new, Since(f, t, c), d)
  BY <1>1, <1>2, <1>3 DEF Exact
<1> QED
  BY <1>1, <1>4 DEF new

LEMMA ChargeAtMost ==
  ASSUME NEW w \in Window, NEW f \in Totals, Rising(f), NEW t \in Times, NEW c \in Nat, AtMost(w, f)
  PROVE  AtMost(Add(EnsureDaily(w, t), c), Since(f, t, c))
<1> DEFINE new == Add(EnsureDaily(w, t), c)
<1>1. DayOf(new.start) = DayOf(t) /\ new.total = (IF DayOf(w.start) = DayOf(t) THEN w.total ELSE 0) + c
  <2> DEFINE v == EnsureDaily(w, t)
  <2>1. /\ new = [start |-> v.start, total |-> v.total + c] /\ DayOf(v.start) = DayOf(t)
        /\ v.total = IF DayOf(w.start) = DayOf(t) THEN w.total ELSE 0
    BY WindowsRoll
  <2> HIDE DEF v, new
  <2> QED
    BY <2>1
<1>2. DayOf(t) \in Nat /\ w.total \in Nat
  BY DayHolds DEF Window, Times
<1>3. On(DayOf(t), Since(f, t, c)) = On(DayOf(t), f) + c /\ On(DayOf(t), f) \in Nat
  BY <1>2, OnAdds, SpentOnRises
<1> HIDE DEF new
<1>4. AtMost(new, Since(f, t, c))
  BY <1>1, <1>2, <1>3 DEF AtMost
<1> QED
  BY <1>4 DEF new

\* What RecordCost does, by the parts of the entry.
LEMMA Recorded ==
  ASSUME Typed, NEW r \in Requests, RecordCost(r)
  PROVE  LET t == req[r].at
         IN  /\ t \in Times /\ t <= clock /\ t \in Nat
             /\ UNCHANGED clock
             /\ \E c \in Nat, x \in Aliases :
                  /\ c > 0
                  /\ entry'.daily = Add(EnsureDaily(entry.daily, t), c)
                  /\ entry'.weekly = Add(EnsureWeekly(entry.weekly, t), c)
                  /\ entry'.byAlias[x].daily = Add(EnsureDaily(entry.byAlias[x].daily, t), c)
                  /\ \A y \in Aliases \ {x} : entry'.byAlias[y] = entry.byAlias[y]
                  /\ cost' = Since(cost, t, c)
                  /\ costBy'[x] = Since(costBy[x], t, c)
                  /\ \A y \in Aliases \ {x} : costBy'[y] = costBy[y]
             /\ lateDays \subseteq lateDays'
             /\ DayOf(t) < DayOf(entry.daily.start) => DayOf(entry.daily.start) \in lateDays'
<1> DEFINE t == req[r].at
<1>1. t \in Times /\ t <= clock /\ t \in Nat /\ UNCHANGED clock
  BY Readings DEF RecordCost, HasReading
<1>2. PICK c \in Costs, x \in Aliases :
           /\ entry' = [daily |-> Add(EnsureDaily(entry.daily, t), c),
                        weekly |-> Add(EnsureWeekly(entry.weekly, t), c),
                        byAlias |-> [entry.byAlias EXCEPT ![x] =
                            [daily |-> Add(EnsureDaily(entry.byAlias[x].daily, t), c),
                             weekly |-> Add(EnsureWeekly(entry.byAlias[x].weekly, t), c)]]]
           /\ cost' = Since(cost, t, c)
           /\ costBy' = [costBy EXCEPT ![x] = Since(costBy[x], t, c)]
  BY DEF RecordCost, EnsureAlias
<1>3. c \in Nat /\ c > 0
  BY CostsArePositive
<1>4. entry.byAlias \in [Aliases -> [daily : Window, weekly : Window]] /\ costBy \in [Aliases -> Totals]
  BY Facts DEF Usages
<1>5. /\ entry'.daily = Add(EnsureDaily(entry.daily, t), c)
      /\ entry'.weekly = Add(EnsureWeekly(entry.weekly, t), c)
      /\ entry'.byAlias[x].daily = Add(EnsureDaily(entry.byAlias[x].daily, t), c)
      /\ \A y \in Aliases \ {x} : entry'.byAlias[y] = entry.byAlias[y]
      /\ costBy'[x] = Since(costBy[x], t, c)
      /\ \A y \in Aliases \ {x} : costBy'[y] = costBy[y]
  BY <1>2, <1>4
<1>6. /\ lateDays \subseteq lateDays'
      /\ DayOf(t) < DayOf(entry.daily.start) => DayOf(entry.daily.start) \in lateDays'
  BY DEF RecordCost
<1> QED
  BY <1>1, <1>2, <1>3, <1>5, <1>6

LEMMA DaysExactRecord == ASSUME Typed, DaysExact, NEW r \in Requests, RecordCost(r) PROVE DaysExact'
<1> DEFINE t == req[r].at
<1>1. /\ t \in Times /\ t <= clock /\ t \in Nat /\ UNCHANGED clock /\ clock \in Nat
      /\ lateDays \subseteq lateDays'
      /\ DayOf(t) < DayOf(entry.daily.start) => DayOf(entry.daily.start) \in lateDays'
  BY Recorded, Facts
<1>2. PICK c \in Nat, x \in Aliases :
           /\ entry'.daily = Add(EnsureDaily(entry.daily, t), c)
           /\ entry'.byAlias[x].daily = Add(EnsureDaily(entry.byAlias[x].daily, t), c)
           /\ \A y \in Aliases \ {x} : entry'.byAlias[y] = entry.byAlias[y]
           /\ cost' = Since(cost, t, c)
           /\ costBy'[x] = Since(costBy[x], t, c)
           /\ \A y \in Aliases \ {x} : costBy'[y] = costBy[y]
  BY Recorded
<1>3. /\ entry.daily \in Window /\ cost \in Totals
      /\ \A y \in Aliases : entry.byAlias[y].daily \in Window /\ costBy[y] \in Totals
  BY Facts DEF Usages
<1>4. DayOf(t) <= DayOf(clock) /\ DayOf(t) \in Nat /\ DayOf(clock) \in Nat
  BY <1>1, DaysGoOn, DayHolds
<1> HIDE DEF t
<1>5. SUFFICES ASSUME NEW d \in Nat, d >= DayOf(clock), d \notin lateDays'
      PROVE  /\ Exact(entry'.daily, cost', d)
             /\ \A y \in Aliases :
                  /\ Exact(entry'.byAlias[y].daily, costBy'[y], d)
                  /\ DayOf(entry'.byAlias[y].daily.start) = d => DayOf(entry'.daily.start) = d
  BY <1>1 DEF DaysExact, Exact
<1>6. /\ Exact(entry.daily, cost, d)
      /\ \A y \in Aliases :
           /\ Exact(entry.byAlias[y].daily, costBy[y], d)
           /\ DayOf(entry.byAlias[y].daily.start) = d => DayOf(entry.daily.start) = d
  BY <1>1, <1>5 DEF DaysExact
<1>7. DayOf(t) = d \/ DayOf(entry.daily.start) # d
  BY <1>1, <1>4, <1>5
<1>8. Exact(entry'.daily, cost', d) /\ DayOf(entry'.daily.start) = DayOf(t)
  BY <1>1, <1>2, <1>3, <1>6, <1>7, ChargeExact
<1>9. ASSUME NEW y \in Aliases
      PROVE  /\ Exact(entry'.byAlias[y].daily, costBy'[y], d)
             /\ DayOf(entry'.byAlias[y].daily.start) = d => DayOf(entry'.daily.start) = d
  <2>1. CASE y = x
    <3>1. DayOf(t) = d \/ DayOf(entry.byAlias[x].daily.start) # d
      BY <1>6, <1>7
    <3> QED
      BY <1>1, <1>2, <1>3, <1>6, <1>8, <2>1, <3>1, ChargeExact
  <2>2. CASE y # x
    BY <1>2, <1>6, <1>7, <1>8, <2>2
  <2> QED
    BY <2>1, <2>2
<1> QED
  BY <1>8, <1>9

LEMMA NeverMoreStep == Typed /\ NeverMore /\ [Next]_vars => NeverMore'
<1> SUFFICES ASSUME Typed, NeverMore, [Next]_vars PROVE NeverMore'
  OBVIOUS
<1>1. ASSUME NEW r \in Requests, RecordCost(r) PROVE NeverMore'
  <2> DEFINE t == req[r].at
  <2>1. PICK c \in Nat, x \in Aliases :
             /\ t \in Times
             /\ entry'.daily = Add(EnsureDaily(entry.daily, t), c)
             /\ entry'.byAlias[x].daily = Add(EnsureDaily(entry.byAlias[x].daily, t), c)
             /\ \A y \in Aliases \ {x} : entry'.byAlias[y] = entry.byAlias[y]
             /\ cost' = Since(cost, t, c)
             /\ costBy'[x] = Since(costBy[x], t, c)
             /\ \A y \in Aliases \ {x} : costBy'[y] = costBy[y]
    BY <1>1, Recorded
  <2>2. /\ entry.daily \in Window /\ cost \in Totals /\ Rising(cost)
        /\ \A y \in Aliases : entry.byAlias[y].daily \in Window /\ costBy[y] \in Totals /\ Rising(costBy[y])
    BY Facts DEF Usages
  <2> HIDE DEF t
  <2>3. AtMost(entry'.daily, cost')
    BY <2>1, <2>2, ChargeAtMost DEF NeverMore
  <2>4. AtMost(entry'.byAlias[x].daily, costBy'[x])
    BY <2>1, <2>2, ChargeAtMost DEF NeverMore
  <2>5. \A y \in Aliases \ {x} : AtMost(entry'.byAlias[y].daily, costBy'[y])
    BY <2>1 DEF NeverMore
  <2> QED
    BY <2>3, <2>4, <2>5 DEF NeverMore, AtMost
<1>2. CASE ResetUsage
  <2>1. entry' = NoUsage /\ cost' = Nothing /\ \A x \in Aliases : costBy'[x] = Nothing
    BY <1>2 DEF ResetUsage
  <2> QED
    BY <2>1, NothingYet, NoDayBefore DEF NeverMore, AtMost, NoUsage, NoWindow
<1>3. UNCHANGED <<entry, cost, costBy>> => NeverMore'
  BY DEF NeverMore, AtMost
<1> QED
  BY <1>1, <1>2, <1>3
  DEF Next, Tick, ResetRPM, Serve, ReadClockToAllow, Allow, ReadClockToCheck, OverLimit,
      ReadClockToRecord, EndUnbilled, vars

LEMMA AlwaysNeverMore == Spec => []NeverMore
<1>1. Init => NeverMore
  BY NothingYet, NoDayBefore DEF Init, NeverMore, AtMost, NoUsage, NoWindow
<1> QED
  BY <1>1, NeverMoreStep, AlwaysTyped, PTL DEF Spec

LEMMA NoUsageExact ==
  \A d \in Nat : d # 0 => /\ Exact(NoUsage.daily, Nothing, d)
                          /\ \A x \in Aliases : /\ Exact(NoUsage.byAlias[x].daily, Nothing, d)
                                                /\ DayOf(NoUsage.byAlias[x].daily.start) # d
BY NothingYet, NoDayBefore DEF Exact, NoUsage, NoWindow

LEMMA AlwaysExact == Spec => []DaysExact
<1>1. Init => DaysExact
  <2> SUFFICES ASSUME Init PROVE DaysExact
    OBVIOUS
  <2>1. clock \in Times /\ entry = NoUsage /\ cost = Nothing /\ \A x \in Aliases : costBy[x] = Nothing
    BY DEF Init, Times
  <2>2. DayOf(clock) \in Nat /\ DayOf(clock) # 0
    BY <2>1, NoDayBefore, DayHolds DEF Times
  <2>3. \A d \in Nat : d >= DayOf(clock) => d # 0
    BY <2>2
  <2> QED
    BY <2>1, <2>3, NoUsageExact DEF DaysExact
<1>2. ASSUME Typed, DaysExact, [Next]_vars PROVE DaysExact'
  <2>t. clock \in Times /\ clock \in Nat /\ DayOf(clock) \in Nat
    BY <1>2, Facts, DayHolds
  <2>z. \A d \in Nat : d >= DayOf(clock) => d # 0
    BY <2>t, NoDayBefore
  <2>1. UNCHANGED <<entry, cost, costBy, lateDays>> /\ DayOf(clock') >= DayOf(clock) /\ DayOf(clock') \in Nat
          => DaysExact'
    BY <1>2, <2>t DEF DaysExact, Exact
  <2>2. CASE Tick
    <3>1. DayOf(clock') >= DayOf(clock) /\ DayOf(clock') \in Nat
      BY <2>t, <2>2, DaysGoOn, DayHolds DEF Tick
    <3> QED
      BY <2>1, <2>2, <3>1 DEF Tick
  <2>3. CASE ResetUsage
    <3>1. /\ UNCHANGED clock /\ entry' = NoUsage /\ cost' = Nothing
          /\ \A x \in Aliases : costBy'[x] = Nothing
      BY <2>3 DEF ResetUsage
    <3> QED
      BY <2>z, <3>1, NoUsageExact DEF DaysExact, Exact
  <2>4. CASE UNCHANGED <<clock, entry, cost, costBy, lateDays>>
    <3>1. DayOf(clock') = DayOf(clock)
      BY <2>4
    <3> QED
      BY <2>t, <2>1, <2>4, <3>1
  <2> QED
    BY <1>2, <2>2, <2>3, <2>4, DaysExactRecord
    DEF Next, ResetRPM, Serve, ReadClockToAllow, Allow, ReadClockToCheck, OverLimit,
        ReadClockToRecord, EndUnbilled, vars
<1> QED
  BY <1>1, <1>2, AlwaysTyped, PTL DEF Spec

\* A key is never shown to have spent more today than its requests cost today,
\* and exactly that unless an older reading was recorded after the day began.
THEOREM DayTotals == Spec => []DayIsExact
<1>1. ASSUME Typed, DaysExact, NeverMore PROVE DayIsExact
  <2>1. clock \in Times /\ DayOf(clock) \in Nat /\ entry.daily \in Window
    BY <1>1, Facts, DayHolds DEF Usages
  <2>2. EnsureDaily(entry.daily, clock).total =
            IF DayOf(entry.daily.start) = DayOf(clock) THEN entry.daily.total ELSE 0
    BY <2>1, WindowsRoll
  <2>3. DayOf(clock) \notin lateDays => Exact(entry.daily, cost, DayOf(clock))
    BY <1>1, <2>1 DEF DaysExact
  <2>4. On(DayOf(clock), cost) \in Nat
    BY <1>1, <2>1, Facts, SpentOnRises
  <2>5. entry.daily.total <= On(DayOf(entry.daily.start), cost)
    BY <1>1 DEF NeverMore, AtMost
  <2> QED
    BY <2>2, <2>3, <2>4, <2>5 DEF Exact, DayIsExact, SpentOn
<1> QED
  BY <1>1, AlwaysTyped, AlwaysExact, AlwaysNeverMore, PTL

\* And so is what each alias is shown to have cost.
THEOREM RowTotals == Spec => []AliasesAreExact
<1>1. ASSUME Typed, DaysExact, NeverMore PROVE AliasesAreExact
  <2>1. clock \in Times /\ DayOf(clock) \in Nat /\ \A x \in Aliases : entry.byAlias[x].daily \in Window
    BY <1>1, Facts, DayHolds DEF Usages
  <2>2. ASSUME NEW x \in Aliases
        PROVE  EnsureDaily(entry.byAlias[x].daily, clock).total =
                 IF DayOf(entry.byAlias[x].daily.start) = DayOf(clock) THEN entry.byAlias[x].daily.total ELSE 0
    BY <2>1, WindowsRoll
  <2>3. DayOf(clock) \notin lateDays =>
            \A x \in Aliases : Exact(entry.byAlias[x].daily, costBy[x], DayOf(clock))
    BY <1>1, <2>1 DEF DaysExact
  <2>4. \A x \in Aliases : /\ On(DayOf(clock), costBy[x]) \in Nat
                           /\ entry.byAlias[x].daily.total <= On(DayOf(entry.byAlias[x].daily.start), costBy[x])
    BY <1>1, <2>1, Facts, SpentOnRises DEF NeverMore, AtMost
  <2> QED
    BY <2>2, <2>3, <2>4 DEF Exact, AliasesAreExact, EnsureAlias
<1> QED
  BY <1>1, AlwaysTyped, AlwaysExact, AlwaysNeverMore, PTL
----------------------------------------------------------------------------
(***************************************************************************)
(* The week, and the budget check.  No reading a week or more after the    *)
(* start of the window has been recorded, and one at its start has.  What  *)
(* was spent within a week of a time in the window is in the window if the *)
(* week before that week was idle: a cost the window dropped is older than *)
(* its start, and was preceded, within a week, by one it dropped as well.  *)
(* While a request waits to be checked, what it remembers of its week is   *)
(* in the window, or the window began later.                               *)
(***************************************************************************)
Quiet(f, t) == UpTo(f, t - Week) = UpTo(f, t - Week - Week)

Keeps(w, f) ==
    /\ w.start = Zero => f[MaxClock] = 0
    /\ w.start # Zero =>
         /\ w.start \in Times
         /\ f[w.start - 1] < f[w.start]
         /\ f[MaxClock] = UpTo(f, w.start + Week - 1)
         /\ \A t \in Instants : w.start <= t /\ t < w.start + Week /\ Quiet(f, t)
                                  => f[MaxClock] - UpTo(f, t - Week) <= w.total

WeekHolds == Keeps(entry.weekly, cost) /\ entry.weekly.start <= clock

Remembers(r) ==
    LET w == entry.weekly
    IN  req[r].pc = "check" =>
          /\ req[r].dayThen <= SpentOn(DayOf(req[r].at))
          /\ req[r].idle /\ req[r].weekThen > 0 =>
               /\ w.start # Zero
               /\ w.start > req[r].at \/ (req[r].at - w.start < Week /\ req[r].weekThen <= w.total)

Within(r) ==
    req[r].pc = "serving" =>
      /\ DailyLimit > 0 => req[r].dayThen < DailyLimit
      /\ WeeklyLimit > 0 /\ req[r].idle => req[r].weekThen < WeeklyLimit

Spent == WeekHolds /\ \A r \in Requests : Remembers(r) /\ Within(r)

LEMMA WeeklyWindow ==
  ASSUME Typed
  PROVE  /\ entry.weekly \in Window /\ entry.weekly.start \in Nat /\ entry.weekly.total \in Nat
         /\ entry.daily \in Window /\ entry.daily.start \in Nat
BY Facts DEF Usages, Window, Zero

\* Once a window has run out, a week that follows an idle one holds nothing of it.
LEMMA WindowOver ==
  ASSUME NEW f \in Totals, Rising(f), NEW w \in Window, Keeps(w, f), w.start # Zero,
         NEW t \in Instants, w.start + Week <= t, Quiet(f, t)
  PROVE  f[MaxClock] <= UpTo(f, t - Week)
<1> DEFINE s == w.start
<1>1. /\ s \in Nat /\ s \in Instants /\ s - 1 \in Instants /\ t \in Nat
      /\ f[s - 1] < f[s] /\ f[MaxClock] = UpTo(f, s + Week - 1)
  BY DEF Keeps, Times, Instants
<1> HIDE DEF s
<1>2. CASE s + Week - 1 <= t - Week
  BY <1>1, <1>2, UpToRises
<1>3. CASE ~(s + Week - 1 <= t - Week)
  <2>1. t - Week - Week \in Int /\ t - Week - Week <= s - 1 /\ t - Week \in Int /\ s <= t - Week
    BY <1>1, <1>3 DEF s
  <2>2. UpTo(f, t - Week - Week) <= UpTo(f, s - 1) /\ UpTo(f, s) <= UpTo(f, t - Week)
    BY <1>1, <2>1, UpToRises
  <2>3. UpTo(f, s - 1) = f[s - 1] /\ UpTo(f, s) = f[s] /\ f[s - 1] \in Nat /\ f[s] \in Nat
    BY <1>1, UpToRises
  <2>4. UpTo(f, t - Week - Week) \in Nat /\ UpTo(f, t - Week) \in Nat
    BY <2>1, UpToRises
  <2> QED
    BY <1>1, <2>2, <2>3, <2>4 DEF Quiet
<1> QED
  BY <1>2, <1>3

\* A cost is charged to the window, or begins the next.
LEMMA KeepsCharge ==
  ASSUME NEW f \in Totals, Rising(f), NEW w \in Window, Keeps(w, f),
         NEW u \in Times, NEW c \in Nat, c > 0
  PROVE  Keeps(Add(EnsureWeekly(w, u), c), Since(f, u, c))
<1> DEFINE more == Since(f, u, c)
           next == Add(EnsureWeekly(w, u), c)
           rolled == w.start = Zero \/ u - w.start >= Week
<1>1. /\ u \in Nat /\ u - 1 \in Instants /\ u \in Instants /\ u <= MaxClock /\ u # Zero
      /\ w.start \in Nat /\ w.total \in Nat /\ MaxClock \in Instants
  BY DEF Times, Instants, Window, Zero
<1>2. /\ \A v \in Instants : more[v] = IF v >= u THEN f[v] + c ELSE f[v]
      /\ \A v \in Int : UpTo(more, v) = IF v >= u THEN UpTo(f, v) + c ELSE UpTo(f, v)
  BY SinceAdds
<1>3. /\ \A v \in Int : UpTo(f, v) \in Nat
      /\ \A v \in Instants : f[v] \in Nat /\ UpTo(f, v) = f[v]
  BY UpToRises
<1>4. /\ rolled => next = [start |-> u, total |-> c]
      /\ ~rolled => next = [start |-> w.start, total |-> w.total + c]
  BY <1>1, WindowsRoll DEF EnsureWeekly
<1>5. more[MaxClock] = f[MaxClock] + c
  BY <1>1, <1>2
\* A week is as quiet as it was, unless the cost is in it.
<1>6. ASSUME NEW t \in Instants, Quiet(more, t)
      PROVE  /\ Quiet(f, t)
             /\ UpTo(more, t - Week) = IF t - Week >= u THEN UpTo(f, t - Week) + c ELSE UpTo(f, t - Week)
  <2> DEFINE x == t - Week
             y == t - Week - Week
  <2>1. x \in Int /\ y \in Int /\ y <= x
    BY DEF Instants
  <2> HIDE DEF x, y
  <2>2. /\ UpTo(more, x) = IF x >= u THEN UpTo(f, x) + c ELSE UpTo(f, x)
        /\ UpTo(more, y) = IF y >= u THEN UpTo(f, y) + c ELSE UpTo(f, y)
        /\ UpTo(f, y) <= UpTo(f, x) /\ UpTo(f, x) \in Nat /\ UpTo(f, y) \in Nat
    BY <1>2, <2>1, UpToRises
  <2>3. UpTo(more, x) = UpTo(more, y)
    BY <1>6 DEF Quiet, x, y
  <2>4. UpTo(f, x) = UpTo(f, y)
    BY <1>1, <2>1, <2>2, <2>3
  <2> QED
    BY <2>2, <2>4 DEF Quiet, x, y
<1> HIDE DEF more, next, rolled
<1>7. CASE rolled
  <2>1. next.start = u /\ next.total = c
    BY <1>4, <1>7
  <2>2. more[u - 1] < more[u]
    <3>1. f[u - 1] <= f[u]
      BY <1>1 DEF Rising
    <3> QED
      BY <1>1, <1>2, <1>3, <3>1
  <2>3. more[MaxClock] = UpTo(more, u + Week - 1)
    <3>1. UpTo(f, u + Week - 1) <= f[MaxClock]
      BY <1>1, <1>3 DEF UpTo, Rising, Instants
    <3>2. f[MaxClock] <= UpTo(f, u + Week - 1)
      <4>1. CASE w.start = Zero
        BY <1>1, <1>3, <4>1 DEF Keeps
      <4>2. CASE w.start # Zero
        <5>1. f[MaxClock] = UpTo(f, w.start + Week - 1) /\ w.start + Week - 1 <= u + Week - 1
          BY <1>1, <1>7, <4>2 DEF Keeps, rolled
        <5> QED
          BY <1>1, <5>1, UpToRises
      <4> QED
        BY <4>1, <4>2
    <3>3. f[MaxClock] \in Nat /\ UpTo(f, u + Week - 1) \in Nat
      BY <1>1, <1>3
    <3>4. UpTo(more, u + Week - 1) = UpTo(f, u + Week - 1) + c
      BY <1>1, <1>2
    <3> QED
      BY <1>5, <3>1, <3>2, <3>3, <3>4
  <2>4. ASSUME NEW t \in Instants, u <= t, t < u + Week, Quiet(more, t)
        PROVE  more[MaxClock] - UpTo(more, t - Week) <= c
    <3>1. Quiet(f, t) /\ UpTo(more, t - Week) = UpTo(f, t - Week) /\ UpTo(f, t - Week) \in Nat /\ t \in Nat
      BY <1>1, <1>3, <1>6, <2>4 DEF Instants
    <3>2. f[MaxClock] <= UpTo(f, t - Week)
      <4>1. CASE w.start = Zero
        BY <1>1, <1>3, <3>1, <4>1 DEF Keeps
      <4>2. CASE w.start # Zero
        <5>1. w.start + Week <= t
          BY <1>1, <1>7, <2>4, <3>1, <4>2 DEF rolled
        <5> QED
          BY <3>1, <4>2, <5>1, WindowOver
      <4> QED
        BY <4>1, <4>2
    <3>3. f[MaxClock] \in Nat
      BY <1>1, <1>3
    <3> QED
      BY <1>5, <3>1, <3>2, <3>3
  <2> QED
    BY <1>1, <2>1, <2>2, <2>3, <2>4 DEF Keeps, next, more
<1>8. CASE ~rolled
  <2> DEFINE s == w.start
  <2>1. next.start = s /\ next.total = w.total + c
    BY <1>4, <1>8
  <2>2. /\ s # Zero /\ u < s + Week /\ s \in Nat /\ s \in Times /\ s \in Instants /\ s - 1 \in Instants
        /\ f[s - 1] < f[s] /\ f[MaxClock] = UpTo(f, s + Week - 1)
    BY <1>1, <1>8 DEF Keeps, Times, Instants, rolled
  <2>3. \A t \in Instants : s <= t /\ t < s + Week /\ Quiet(f, t) => f[MaxClock] - UpTo(f, t - Week) <= w.total
    BY <2>2 DEF Keeps
  <2> HIDE DEF s
  <2>4. more[s - 1] < more[s]
    BY <1>1, <1>2, <1>3, <2>2
  <2>5. more[MaxClock] = UpTo(more, s + Week - 1)
    BY <1>1, <1>2, <1>5, <2>2
  <2>6. ASSUME NEW t \in Instants, s <= t, t < s + Week, Quiet(more, t)
        PROVE  more[MaxClock] - UpTo(more, t - Week) <= w.total + c
    <3>1. f[MaxClock] - UpTo(f, t - Week) <= w.total /\ t \in Nat
      BY <1>6, <2>3, <2>6 DEF Instants
    <3>2. UpTo(more, t - Week) >= UpTo(f, t - Week) /\ UpTo(f, t - Week) \in Nat /\ UpTo(more, t - Week) \in Nat
      BY <1>3, <1>6, <2>6, <3>1
    <3>3. f[MaxClock] \in Nat
      BY <1>1, <1>3
    <3> QED
      BY <1>1, <1>5, <3>1, <3>2, <3>3
  <2> QED
    BY <2>1, <2>2, <2>4, <2>5, <2>6 DEF Keeps, next, more
<1> QED
  BY <1>7, <1>8 DEF next, more

\* What one request's step leaves of the others.
LEMMA OthersSpent ==
  ASSUME Typed, Spent, NEW r \in Requests, NEW s, req' = [req EXCEPT ![r] = s],
         UNCHANGED <<clock, entry, cost>>, Remembers(r)' /\ Within(r)'
  PROVE  Spent'
<1>1. ASSUME NEW p \in Requests, p # r PROVE Remembers(p)' /\ Within(p)'
  <2>1. req'[p] = req[p]
    BY <1>1, Facts
  <2> QED
    BY <2>1 DEF Spent, Remembers, Within, SpentOn
<1>2. WeekHolds'
  BY DEF Spent, WeekHolds
<1> QED
  BY <1>1, <1>2 DEF Spent

\* The check begins.
LEMMA SpentBegin == ASSUME Typed, Spent, NEW r \in Requests, ReadClockToCheck(r) PROVE Spent'
<1> DEFINE day == IF DayOf(clock) \in lateDays THEN 0 ELSE SpentOn(DayOf(clock))
           s == [req[r] EXCEPT !.pc = IF DailyLimit = 0 /\ WeeklyLimit = 0 THEN "serving" ELSE "check",
                     !.at = clock, !.dayThen = day, !.weekThen = SpentWithin(clock),
                     !.idle = Idle(clock)]
           w == entry.weekly
<1>1. req' = [req EXCEPT ![r] = s] /\ UNCHANGED <<clock, entry, cost>>
  BY Facts DEF ReadClockToCheck
<1>2. /\ s.pc = (IF DailyLimit = 0 /\ WeeklyLimit = 0 THEN "serving" ELSE "check")
      /\ s.at = clock /\ s.dayThen = day /\ s.weekThen = SpentWithin(clock)
      /\ s.idle = Idle(clock)
  BY Readings DEF RequestStates
<1> HIDE DEF s
<1>3. req'[r] = s
  BY <1>1, Facts
<1>4. /\ clock \in Nat /\ clock \in Times /\ clock \in Instants /\ cost \in Totals /\ Rising(cost)
      /\ DayOf(clock) \in Nat /\ MaxClock \in Instants /\ clock <= MaxClock /\ clock - Week \in Int
      /\ DailyLimit \in Nat /\ WeeklyLimit \in Nat /\ w \in Window /\ w.start \in Nat /\ w.start <= clock
  BY Facts, DayHolds, WeeklyWindow DEF Times, Instants, Spent, WeekHolds
<1>5. day <= SpentOn(DayOf(clock))
  BY <1>4, SpentOnRises DEF SpentOn
<1>6. ASSUME Idle(clock), SpentWithin(clock) > 0
      PROVE  w.start # Zero /\ clock - w.start < Week /\ SpentWithin(clock) <= w.total
  <2>1. /\ SpentWithin(clock) = cost[clock] - UpTo(cost, clock - Week)
        /\ cost[clock] \in Nat /\ UpTo(cost, clock - Week) \in Nat
    BY <1>4, UpToRises DEF SpentBefore, SpentWithin
  <2>2. cost[clock] <= cost[MaxClock] /\ cost[MaxClock] \in Nat
    BY <1>4, UpToRises DEF Rising
  <2>3. Quiet(cost, clock)
    BY <1>6 DEF Idle, SpentBefore, Quiet
  <2>4. Keeps(w, cost)
    BY DEF Spent, WeekHolds
  <2>5. w.start # Zero
    BY <1>6, <2>1, <2>2, <2>4 DEF Keeps
  <2>6. ~(w.start + Week <= clock)
    <3>1. w.start + Week <= clock => cost[MaxClock] <= UpTo(cost, clock - Week)
      BY <1>4, <2>3, <2>4, <2>5, WindowOver
    <3> QED
      BY <1>6, <2>1, <2>2, <3>1
  <2>7. cost[MaxClock] - UpTo(cost, clock - Week) <= w.total
    BY <1>4, <2>3, <2>4, <2>5, <2>6 DEF Keeps
  <2>8. w.total \in Nat
    BY WeeklyWindow
  <2> QED
    BY <1>4, <2>1, <2>2, <2>5, <2>6, <2>7, <2>8
<1>7. Remembers(r)'
  <2>1. s.dayThen <= SpentOn(DayOf(clock))
    BY <1>2, <1>5
  <2>2. s.idle /\ s.weekThen > 0 => w.start # Zero /\ clock - w.start < Week /\ s.weekThen <= w.total
    BY <1>2, <1>6
  <2>3. SpentOn(DayOf(clock))' = SpentOn(DayOf(clock))
    BY <1>1 DEF SpentOn
  <2> QED
    BY <1>1, <1>2, <1>3, <2>1, <2>2, <2>3 DEF Remembers, SpentOn
<1>8. Within(r)'
  BY <1>2, <1>3, <1>4 DEF Within
<1> QED
  BY <1>1, <1>7, <1>8, OthersSpent

\* The check ends.
LEMMA SpentEnd == ASSUME Typed, Spent, DaysExact, NEW r \in Requests, OverLimit(r) PROVE Spent'
<1> DEFINE t == req[r].at
           over == Exceeds(DailyLimit, EnsureDaily(entry.daily, t)) \/ Exceeds(WeeklyLimit, EnsureWeekly(entry.weekly, t))
           s == [req[r] EXCEPT !.pc = "serving", !.at = Zero,
                   !.dayThen = IF DayOf(t) \in lateDays \/ DayOf(t) # DayOf(clock) THEN 0 ELSE req[r].dayThen,
                   !.weekThen = IF entry.weekly.start > t THEN 0 ELSE req[r].weekThen]
           w == entry.weekly
<1>1. /\ req' = [req EXCEPT ![r] = IF over THEN At("rejected", Zero) ELSE s]
      /\ UNCHANGED <<clock, entry, cost>> /\ req[r].pc = "check"
  BY Facts DEF OverLimit
<1>2. /\ s.pc = "serving" /\ s.idle = req[r].idle
      /\ s.dayThen = IF DayOf(t) \in lateDays \/ DayOf(t) # DayOf(clock) THEN 0 ELSE req[r].dayThen
      /\ s.weekThen = IF w.start > t THEN 0 ELSE req[r].weekThen
      /\ At("rejected", Zero).pc = "rejected"
  BY Readings DEF RequestStates, At
<1>3. req'[r] = IF over THEN At("rejected", Zero) ELSE s
  BY <1>1, Facts
<1> HIDE DEF s
<1>4. /\ t \in Times /\ t \in Nat /\ DayOf(t) \in Nat /\ entry.daily \in Window /\ w.start \in Nat /\ w.total \in Nat
      /\ req[r].dayThen \in Nat /\ req[r].weekThen \in Nat /\ DailyLimit \in Nat /\ WeeklyLimit \in Nat
  <2>1. t \in Times /\ t \in Nat /\ req[r].dayThen \in Nat /\ req[r].weekThen \in Nat
    BY <1>1, Readings DEF RequestStates, HasReading
  <2> QED
    BY <2>1, DayHolds, WeeklyWindow, Facts
<1>5. Remembers(r)'
  BY <1>2, <1>3 DEF Remembers
<1>6. ASSUME ~over, DailyLimit > 0 PROVE s.dayThen < DailyLimit
  <2>1. CASE DayOf(t) \in lateDays \/ DayOf(t) # DayOf(clock)
    BY <1>2, <1>4, <1>6, <2>1
  <2>2. CASE ~(DayOf(t) \in lateDays \/ DayOf(t) # DayOf(clock))
    <3>1. EnsureDaily(entry.daily, t).total = IF DayOf(entry.daily.start) = DayOf(t) THEN entry.daily.total ELSE 0
      BY <1>4, WindowsRoll
    <3>2. Exact(entry.daily, cost, DayOf(t))
      BY <1>4, <2>2 DEF DaysExact
    <3>3. EnsureDaily(entry.daily, t).total = SpentOn(DayOf(t))
      BY <3>1, <3>2 DEF Exact, SpentOn
    <3>4. req[r].dayThen <= SpentOn(DayOf(t))
      <4>1. Remembers(r)
        BY DEF Spent
      <4> QED
        BY <1>1, <4>1 DEF Remembers
    <3>5. SpentOn(DayOf(t)) \in Nat
      BY <1>4, Facts, SpentOnRises DEF SpentOn
    <3>6. SpentOn(DayOf(t)) < DailyLimit
      BY <1>4, <1>6, <3>3, <3>5 DEF Exceeds
    <3> QED
      BY <1>2, <1>4, <2>2, <3>4, <3>5, <3>6
  <2> QED
    BY <2>1, <2>2
<1>7. ASSUME ~over, WeeklyLimit > 0, s.idle PROVE s.weekThen < WeeklyLimit
  <2>1. CASE w.start > t \/ req[r].weekThen = 0
    BY <1>2, <1>4, <1>7, <2>1
  <2>2. CASE ~(w.start > t) /\ req[r].weekThen > 0
    <3>1. w.start # Zero /\ t - w.start < Week /\ req[r].weekThen <= w.total
      BY <1>1, <1>2, <1>7, <2>2 DEF Spent, Remembers
    <3>2. EnsureWeekly(w, t) = w
      BY <1>4, <3>1 DEF EnsureWeekly
    <3>3. w.total < WeeklyLimit
      BY <1>4, <1>7, <3>2 DEF Exceeds
    <3> QED
      BY <1>2, <1>4, <2>2, <3>1, <3>3
  <2> QED
    BY <1>4, <2>1, <2>2
<1>8. Within(r)'
  <2>1. CASE over
    BY <1>2, <1>3, <2>1 DEF Within
  <2>2. CASE ~over
    BY <1>3, <1>6, <1>7, <2>2 DEF Within
  <2> QED
    BY <2>1, <2>2
<1> QED
  BY <1>1, <1>5, <1>8, OthersSpent

\* A cost is recorded.
LEMMA SpentRecord == ASSUME Typed, Spent, NEW r \in Requests, RecordCost(r) PROVE Spent'
<1> DEFINE t == req[r].at
           w == entry.weekly
           new == EnsureWeekly(w, t)
<1>1. /\ t \in Times /\ t <= clock /\ t \in Nat /\ clock \in Nat /\ UNCHANGED clock
      /\ w \in Window /\ w.start \in Nat /\ w.total \in Nat /\ cost \in Totals /\ Rising(cost)
      /\ Keeps(w, cost) /\ w.start <= clock
  BY Recorded, WeeklyWindow, Facts DEF Times, Spent, WeekHolds
<1>2. PICK c \in Nat : c > 0 /\ entry'.weekly = Add(new, c) /\ cost' = Since(cost, t, c)
  BY Recorded
<1>3. req' = [req EXCEPT ![r] = At("done", Zero)] /\ At("done", Zero).pc = "done"
  BY DEF RecordCost, At
<1> DEFINE rolled == w.start = Zero \/ t - w.start >= Week
<1>4. /\ rolled => entry'.weekly.start = t
      /\ ~rolled => entry'.weekly.start = w.start /\ entry'.weekly.total = w.total + c
  <2>1. Add(new, c) = [start |-> new.start, total |-> new.total + c]
    BY <1>1, WindowsRoll
  <2>2. (rolled => new.start = t) /\ (~rolled => new = w)
    BY DEF EnsureWeekly
  <2> HIDE DEF new, rolled
  <2> QED
    BY <1>2, <2>1, <2>2
<1>5. WeekHolds'
  <2>1. Keeps(Add(new, c), Since(cost, t, c))
    BY <1>1, <1>2, KeepsCharge
  <2>2. Keeps(entry'.weekly, cost')
    BY <1>2, <2>1
  <2>3. entry'.weekly.start <= clock
    BY <1>1, <1>4
  <2> QED
    BY <1>1, <2>2, <2>3 DEF WeekHolds, Keeps, Quiet
<1> HIDE DEF new, rolled
<1>6. ASSUME NEW p \in Requests PROVE Remembers(p)' /\ Within(p)'
  <2>1. CASE p = r
    <3>1. req'[p].pc = "done"
      BY <1>3, <2>1, Facts
    <3> QED
      BY <3>1 DEF Remembers, Within
  <2>2. CASE p # r
    <3>1. req'[p] = req[p] /\ Remembers(p) /\ Within(p)
      BY <1>3, <2>2, Facts DEF Spent
    <3>2. Within(p)'
      BY <3>1 DEF Within
    <3>3. ASSUME req[p].pc = "check" PROVE req[p].dayThen <= On(DayOf(req[p].at), cost')
      <4> DEFINE d == DayOf(req[p].at)
      <4>1. d \in Nat /\ req[p].dayThen \in Nat
        BY Readings, DayHolds DEF RequestStates
      <4>2. req[p].dayThen <= On(d, cost)
        BY <3>1, <3>3 DEF Remembers, SpentOn
      <4> HIDE DEF d, t
      <4>3. On(d, cost') = On(d, cost) + (IF DayOf(t) = d THEN c ELSE 0)
        BY <1>1, <1>2, <4>1, OnAdds
      <4>4. On(d, cost) \in Nat
        BY <1>1, <4>1, SpentOnRises
      <4> QED
        BY <1>2, <4>1, <4>2, <4>3, <4>4 DEF d
    <3>4. ASSUME req[p].pc = "check", req[p].idle, req[p].weekThen > 0
          PROVE  /\ entry'.weekly.start # Zero
                 /\ \/ entry'.weekly.start > req[p].at
                    \/ req[p].at - entry'.weekly.start < Week /\ req[p].weekThen <= entry'.weekly.total
      <4>1. /\ w.start # Zero /\ req[p].at \in Nat /\ req[p].weekThen \in Nat
            /\ w.start > req[p].at \/ (req[p].at - w.start < Week /\ req[p].weekThen <= w.total)
        BY <3>1, <3>4, Readings DEF Remembers, RequestStates
      <4>2. CASE rolled
        <5>1. entry'.weekly.start = t /\ t - w.start >= Week /\ t # Zero
          BY <1>1, <1>4, <4>1, <4>2 DEF Times, Zero, rolled
        <5>2. t > req[p].at
          BY <1>1, <4>1, <5>1
        <5> QED
          BY <5>1, <5>2
      <4>3. CASE ~rolled
        <5>1. entry'.weekly.start = w.start /\ entry'.weekly.total = w.total + c
          BY <1>4, <4>3
        <5> QED
          BY <1>1, <1>2, <4>1, <5>1
      <4> QED
        BY <4>2, <4>3
    <3>5. Remembers(p)'
      BY <3>1, <3>3, <3>4 DEF Remembers, SpentOn
    <3> QED
      BY <3>2, <3>5
  <2> QED
    BY <2>1, <2>2
<1> QED
  BY <1>5, <1>6 DEF Spent

LEMMA SpentStep == ASSUME Typed, Spent, DaysExact, [Next]_vars PROVE Spent'
<1>1. ASSUME NEW r \in Requests, ReadClockToAllow(r) \/ Allow(r) \/ ReadClockToRecord(r) \/ EndUnbilled(r)
      PROVE  Spent'
  <2>1. /\ UNCHANGED <<clock, entry, cost>>
        /\ \E pc \in {"budget", "allow", "rejected", "record", "done"}, at \in {clock, Zero} :
             req' = [req EXCEPT ![r] = At(pc, at)]
    BY <1>1 DEF ReadClockToAllow, Allow, ReadClockToRecord, EndUnbilled
  <2>2. PICK pc \in {"budget", "allow", "rejected", "record", "done"}, at \in {clock, Zero} :
             req' = [req EXCEPT ![r] = At(pc, at)]
    BY <2>1
  <2>3. req'[r].pc = pc
    BY <2>2, Facts DEF At
  <2>4. Remembers(r)' /\ Within(r)'
    BY <2>3 DEF Remembers, Within
  <2> QED
    BY <2>1, <2>2, <2>4, OthersSpent
<1>2. CASE Tick
  <2>1. clock \in Nat /\ entry.weekly.start \in Nat /\ clock' = clock + 1 /\ UNCHANGED <<entry, cost, req>>
    BY <1>2, Facts, WeeklyWindow DEF Tick
  <2>2. WeekHolds'
    <3>1. Keeps(entry.weekly, cost)' /\ entry'.weekly.start <= clock'
      BY <2>1 DEF Spent, WeekHolds, Keeps, Quiet
    <3> QED
      BY <3>1 DEF WeekHolds
  <2>3. \A r \in Requests : Remembers(r)' /\ Within(r)'
    BY <2>1 DEF Spent, Remembers, Within, SpentOn
  <2> QED
    BY <2>2, <2>3 DEF Spent
<1>3. CASE ResetUsage
  <2>1. /\ entry'.weekly.start = Zero /\ cost' = Nothing /\ UNCHANGED clock
        /\ req' = [r \in Requests |-> [req[r] EXCEPT !.dayThen = 0, !.weekThen = 0]]
    BY <1>3 DEF ResetUsage, NoUsage, NoWindow
  <2>2. WeekHolds'
    <3>1. MaxClock \in Instants
      BY DEF Instants
    <3>2. Nothing[MaxClock] = 0
      BY <3>1, NothingYet
    <3>3. clock' \in Nat /\ entry'.weekly.start = 0
      BY <2>1, Facts DEF Zero
    <3>4. entry'.weekly.start <= clock'
      BY <3>3
    <3> QED
      BY <2>1, <3>2, <3>4 DEF WeekHolds, Keeps
  <2>3. ASSUME NEW r \in Requests PROVE Remembers(r)' /\ Within(r)'
    <3>1. /\ req'[r].pc = req[r].pc /\ req'[r].dayThen = 0 /\ req'[r].weekThen = 0 /\ req'[r].at = req[r].at
          /\ DayOf(req[r].at) \in Nat
      BY <2>1, Readings, DayHolds DEF RequestStates
    <3>2. On(DayOf(req[r].at), Nothing) = 0
      BY <3>1, NothingYet
    <3>3. On(DayOf(req'[r].at), cost') = 0
      BY <2>1, <3>1, <3>2
    <3>4. Remembers(r)'
      BY <3>1, <3>3 DEF Remembers, SpentOn
    <3>5. Within(r)'
      BY <3>1, Facts DEF Within
    <3> QED
      BY <3>4, <3>5
  <2> QED
    BY <2>2, <2>3 DEF Spent
<1>4. UNCHANGED <<clock, entry, cost, req>> => Spent'
  BY DEF Spent, WeekHolds, Keeps, Quiet, Remembers, Within, SpentOn
<1> QED
  BY <1>1, <1>2, <1>3, <1>4, SpentBegin, SpentEnd, SpentRecord DEF Next, Serve, ResetRPM, vars

\* Nobody is served whose check begins with the limit of the day spent, and
\* ends on that day, unless an older reading has voided the day; nor with the
\* limit of the week spent, if the week before that was idle, unless the window
\* is dropped before the check has the mutex: in whatever order clocks are read
\* and costs are recorded, for every calendar and all limits.
THEOREM SpentAdmitsNobody == Spec => []SpentIsSpent
<1>1. Init => Spent
  <2> SUFFICES ASSUME Init PROVE Spent
    OBVIOUS
  <2>1. /\ entry.weekly.start = Zero /\ cost[MaxClock] = 0 /\ clock = Day
        /\ \A r \in Requests : req[r].pc = "new"
    BY NothingYet DEF Init, NoUsage, NoWindow, Instants, At
  <2> QED
    BY <2>1 DEF Spent, WeekHolds, Keeps, Remembers, Within, Zero
<1>2. Typed /\ DaysExact /\ Spent /\ [Next]_vars => Spent'
  BY SpentStep
<1>3. Spent => SpentIsSpent
  BY DEF Spent, Within, SpentIsSpent
<1> QED
  BY <1>1, <1>2, <1>3, AlwaysTyped, AlwaysExact, PTL DEF Spec
=============================================================================
