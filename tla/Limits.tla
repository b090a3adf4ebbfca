------------------------------- MODULE Limits -------------------------------
(***************************************************************************)
(* What a key may use (internal/policy/limiter.go and usage.go, and the    *)
(* parts of Store.Authenticate and Store.RecordUsage that call them): a    *)
(* bucket of requests for the running minute, and a ledger of costs for    *)
(* the running day and the running week.                                   *)
(*                                                                         *)
(* The requests of one key run on goroutines of their own.  Each of        *)
(* RateLimiter.Allow, usageLedger.Summary and usageLedger.RecordCost reads *)
(* the clock first and takes its mutex then, so that time passes and other *)
(* requests get in between: the reading is one action, the critical        *)
(* section another.  An image request is charged by the same RecordCost as *)
(* soon as it is admitted, one that reports no tokens not at all.          *)
(***************************************************************************)
EXTENDS Integers

CONSTANTS
    Requests,       \* requests of the key
    Aliases,        \* aliases they ask for
    Costs,          \* what a request can cost, in units of the limits
    RPM, DailyLimit, WeeklyLimit,   \* of the key, 0 for none
    Minute, Day, Week,  \* in ticks of the clock
    MaxClock,       \* bound: the last tick; the clock starts on day one
    MaxResets       \* bound: requests of an administrator

ASSUME LimitsAreNatural == {RPM, DailyLimit, WeeklyLimit, MaxResets} \subseteq Nat
ASSUME CostsArePositive == Costs \subseteq Nat \ {0}
ASSUME WindowsGrow == Minute \in Nat \ {0} /\ Day \in Nat /\ Week \in Nat /\ Minute <= Day /\ Day <= Week
ASSUME ClockRuns == MaxClock \in Nat /\ Day <= MaxClock

Times == Day..MaxClock
Zero == 0       \* time.Time's zero value, before any reading
DayOf(t) == t \div Day

\* The histories are running totals: f[t] is what had a reading of t or earlier.
Instants == 0..MaxClock
Nothing == [t \in Instants |-> 0]
UpTo(f, t) == IF t < 0 THEN 0 ELSE f[IF t > MaxClock THEN MaxClock ELSE t]
Since(f, t, n) == [u \in Instants |-> IF u >= t THEN f[u] + n ELSE f[u]]

VARIABLES
    clock,
    bucket,         \* RateLimiter.buckets of the key
    entry,          \* usageLedger.entries of the key: daily, weekly, and both by alias
    req,
    resets,
    passed,         \* history: requests that Allow let through, by their reading
    cost,           \* history: costs recorded, by their reading
    costBy,         \* history: the same for each alias
    run,            \* history: those of them since the bucket last went back in time
    lateAllows,     \* history: how often it did, for a reading older than the bucket
    lateDays        \* history: days that had begun when an older reading was recorded

vars == <<clock, bucket, entry, req, resets, passed, run, lateAllows, cost, costBy, lateDays>>

Window == [start : {Zero} \cup 0..MaxClock, total : Nat]
NoWindow == [start |-> Zero, total |-> 0]
NoUsage == [daily |-> NoWindow, weekly |-> NoWindow,
            byAlias |-> [x \in Aliases |-> [daily |-> NoWindow, weekly |-> NoWindow]]]

Buckets == [start : {Zero} \cup Times, count : 0..RPM]
Usages == [daily : Window, weekly : Window, byAlias : [Aliases -> [daily : Window, weekly : Window]]]
RequestStates == [pc : {"new", "allow", "budget", "check", "serving", "record", "rejected", "done"},
                  at : {Zero} \cup Times, dayThen : Nat, weekThen : Nat, idle : BOOLEAN]

TypeOK ==
    /\ clock \in Times
    /\ bucket \in Buckets
    /\ entry \in Usages
    /\ req \in [Requests -> RequestStates]
    /\ resets \in 0..MaxResets
    /\ {passed, run, cost} \subseteq [Instants -> Nat]
    /\ costBy \in [Aliases -> [Instants -> Nat]]
    /\ lateAllows \in Nat /\ lateDays \subseteq Nat

\* A request at pc that keeps nothing but a reading of the clock.
At(pc, t) == [pc |-> pc, at |-> t, dayThen |-> 0, weekThen |-> 0, idle |-> FALSE]

Init ==
    /\ clock = Day
    /\ bucket = [start |-> Zero, count |-> 0]
    /\ entry = NoUsage
    /\ req = [r \in Requests |-> At("new", Zero)]
    /\ resets = 0
    /\ passed = Nothing /\ run = Nothing /\ cost = Nothing /\ costBy = [x \in Aliases |-> Nothing]
    /\ lateAllows = 0 /\ lateDays = {}

Tick ==
    /\ clock < MaxClock
    /\ clock' = clock + 1
    /\ UNCHANGED <<bucket, entry, req, resets, passed, run, lateAllows, cost, costBy, lateDays>>

(***************************************************************************)
(* RateLimiter                                                             *)
(***************************************************************************)
\* Defect: the request after the last is let through too.
FullAtOneMore(b) == b.count > RPM
BucketFull(b) == b.count >= RPM

\* A bucket a minute old, or from the future, starts again.
CurrentBucket(t) ==
    IF bucket.start = Zero \/ t - bucket.start >= Minute \/ t < bucket.start
    THEN [start |-> t, count |-> 0] ELSE bucket

\* Defect: the count is raised in the copy, which is not put back.
CountInCopy(b) == b
CountOne(b) == [b EXCEPT !.count = @ + 1]

\* A key without a limit has no bucket.
ReadClockToAllow(r) ==
    /\ req[r].pc = "new"
    /\ req' = [req EXCEPT ![r] = IF RPM = 0 THEN At("budget", Zero) ELSE At("allow", clock)]
    /\ UNCHANGED <<clock, bucket, entry, resets, passed, run, lateAllows, cost, costBy, lateDays>>

Allow(r) ==
    /\ req[r].pc = "allow"
    /\ LET t == req[r].at
           b == CurrentBucket(t)
           late == t < bucket.start
           passing == IF BucketFull(b) THEN 0 ELSE 1
       IN  /\ lateAllows' = IF late THEN lateAllows + 1 ELSE lateAllows
           /\ run' = Since(IF late THEN Nothing ELSE run, t, passing)
           /\ passed' = Since(passed, t, passing)
           /\ IF BucketFull(b)
              THEN /\ bucket' = b
                   /\ req' = [req EXCEPT ![r] = At("rejected", Zero)]
              ELSE /\ bucket' = CountOne(b)
                   /\ req' = [req EXCEPT ![r] = At("budget", Zero)]
    /\ UNCHANGED <<clock, entry, resets, cost, costBy, lateDays>>

(***************************************************************************)
(* usageLedger                                                             *)
(***************************************************************************)
\* Defect: a daily window lasts a day from its first use.
DailyFromFirstUse(w, t) ==
    IF w.start = Zero \/ t - w.start >= Day THEN [start |-> t, total |-> 0] ELSE w

\* ensureDailyWindowLocked: another day than the window's, also an earlier one.
EnsureDaily(w, t) ==
    IF w.start = Zero \/ DayOf(w.start) # DayOf(t)
    THEN [start |-> DayOf(t) * Day, total |-> 0] ELSE w

\* ensureWeeklyWindowLocked: a window a week old is dropped whole.
EnsureWeekly(w, t) ==
    IF w.start = Zero \/ t - w.start >= Week THEN [start |-> t, total |-> 0] ELSE w

\* Defect: the daily window of an alias is rolled like its weekly one.
EnsureAliasWeekly(w, t) == [daily |-> EnsureWeekly(w.daily, t), weekly |-> EnsureWeekly(w.weekly, t)]

\* ensureAliasWindowLocked
EnsureAlias(w, t) == [daily |-> EnsureDaily(w.daily, t), weekly |-> EnsureWeekly(w.weekly, t)]

Add(w, c) == [w EXCEPT !.total = @ + c]

ReadClockToRecord(r) ==
    /\ req[r].pc = "serving"
    /\ req' = [req EXCEPT ![r] = At("record", clock)]
    /\ UNCHANGED <<clock, bucket, entry, resets, passed, run, lateAllows, cost, costBy, lateDays>>

\* A request that failed, or reported no tokens, is not charged.
EndUnbilled(r) ==
    /\ req[r].pc = "serving"
    /\ req' = [req EXCEPT ![r] = At("done", Zero)]
    /\ UNCHANGED <<clock, bucket, entry, resets, passed, run, lateAllows, cost, costBy, lateDays>>

RecordCost(r) ==
    /\ req[r].pc = "record"
    /\ \E c \in Costs, x \in Aliases :
           LET t == req[r].at
               w == EnsureAlias(entry.byAlias[x], t)
           IN  /\ entry' = [daily |-> Add(EnsureDaily(entry.daily, t), c),
                            weekly |-> Add(EnsureWeekly(entry.weekly, t), c),
                            byAlias |-> [entry.byAlias EXCEPT ![x] =
                                [daily |-> Add(w.daily, c), weekly |-> Add(w.weekly, c)]]]
               /\ cost' = Since(cost, t, c)
               /\ costBy' = [costBy EXCEPT ![x] = Since(@, t, c)]
               /\ lateDays' = IF DayOf(t) < DayOf(entry.daily.start)
                              THEN lateDays \cup {DayOf(entry.daily.start)} ELSE lateDays
    /\ req' = [req EXCEPT ![r] = At("done", Zero)]
    /\ UNCHANGED <<clock, bucket, resets, passed, run, lateAllows>>

(***************************************************************************)
(* The budget check of Authenticate: Summary and OverLimit.  dayThen and   *)
(* weekThen remember what had been spent when the check began, on that day *)
(* and within a week; idle, that nothing had been in the week before that  *)
(* week.  They are voided when the window they stand for is dropped before *)
(* Summary has the mutex: at midnight, or as another request records a     *)
(* cost a week after the window began.                                     *)
(***************************************************************************)
On(d, f) == UpTo(f, d * Day + Day - 1) - UpTo(f, d * Day - 1)
SpentOn(d) == On(d, cost)
SpentBefore(t) == UpTo(cost, t - Week)
SpentWithin(t) == UpTo(cost, t) - SpentBefore(t)
Idle(t) == SpentBefore(t) = SpentBefore(t - Week)

ReadClockToCheck(r) ==
    /\ req[r].pc = "budget"
    /\ req' = [req EXCEPT
           ![r].pc = IF DailyLimit = 0 /\ WeeklyLimit = 0 THEN "serving" ELSE "check",
           ![r].at = clock,
           ![r].dayThen = IF DayOf(clock) \in lateDays THEN 0 ELSE SpentOn(DayOf(clock)),
           ![r].weekThen = SpentWithin(clock),
           ![r].idle = Idle(clock)]
    /\ UNCHANGED <<clock, bucket, entry, resets, passed, run, lateAllows, cost, costBy, lateDays>>

\* Defect: the limit itself may still be spent again.
PastLimit(limit, w) == limit > 0 /\ w.total > limit
Exceeds(limit, w) == limit > 0 /\ w.total >= limit

OverLimit(r) ==
    /\ req[r].pc = "check"
    /\ LET t == req[r].at
           over == Exceeds(DailyLimit, EnsureDaily(entry.daily, t)) \/ Exceeds(WeeklyLimit, EnsureWeekly(entry.weekly, t))
           served == [req[r] EXCEPT
               !.pc = "serving", !.at = Zero,
               !.dayThen = IF DayOf(t) \in lateDays \/ DayOf(t) # DayOf(clock) THEN 0 ELSE @,
               !.weekThen = IF entry.weekly.start > t THEN 0 ELSE @]
       IN  req' = [req EXCEPT ![r] = IF over THEN At("rejected", Zero) ELSE served]
    /\ UNCHANGED <<clock, bucket, entry, resets, passed, run, lateAllows, cost, costBy, lateDays>>

(***************************************************************************)
(* An administrator's resets forget everything, and so do the histories.   *)
(***************************************************************************)
ResetRPM ==
    /\ resets < MaxResets
    /\ resets' = resets + 1
    /\ bucket' = [start |-> Zero, count |-> 0]
    /\ passed' = Nothing /\ run' = Nothing /\ lateAllows' = 0
    /\ UNCHANGED <<clock, entry, req, cost, costBy, lateDays>>

ResetUsage ==
    /\ resets < MaxResets
    /\ resets' = resets + 1
    /\ entry' = NoUsage
    /\ cost' = Nothing
    /\ costBy' = [x \in Aliases |-> Nothing]
    /\ req' = [r \in Requests |-> [req[r] EXCEPT !.dayThen = 0, !.weekThen = 0]]
    /\ UNCHANGED <<clock, bucket, passed, run, lateAllows, lateDays>>

Serve(r) == \/ ReadClockToAllow(r) \/ Allow(r) \/ ReadClockToCheck(r) \/ OverLimit(r)
            \/ ReadClockToRecord(r) \/ EndUnbilled(r) \/ RecordCost(r)

Next == Tick \/ ResetRPM \/ ResetUsage \/ \E r \in Requests : Serve(r)

Spec == Init /\ [][Next]_vars

-----------------------------------------------------------------------------
\* The bucket counts minutes of its own, yet in no minute whatever pass more
\* requests than two buckets hold; a reading that reaches Allow after a later
\* one has begun a bucket restarts it, and lets two buckets more through at most.
TwoBucketsAMinute == RPM > 0 =>
    \A s, t \in Instants : t <= s + Minute => passed[t] - passed[s] <= 2 * RPM * (lateAllows + 1)

\* What the key is shown to have spent today is what its requests cost today.
\* An older reading that is recorded after midnight drops what the new day had
\* cost by then: such a day is never shown more than it cost, others exactly that.
DayIsExact ==
    LET today == DayOf(clock)
        shown == EnsureDaily(entry.daily, clock).total
    IN  /\ shown <= SpentOn(today)
        /\ today \notin lateDays => shown = SpentOn(today)

\* So is each row by alias of today, although an alias's window is rolled only
\* when a request of that alias is charged: but for late readings the rows add
\* up to the total.
AliasesAreExact == \A x \in Aliases :
    LET today == DayOf(clock)
        shown == EnsureAlias(entry.byAlias[x], clock).daily.total
    IN  /\ shown <= On(today, costBy[x])
        /\ today \notin lateDays => shown = On(today, costBy[x])

\* A request whose check begins, and ends on the same day, after the limit of
\* the day was spent is not served, if no older reading was recorded that day;
\* nor is one after the limit of the week was spent by requests less than a
\* week old, if there were none in the week before and the window is not
\* dropped before the check has the mutex.  A window that runs out drops last
\* week's costs whole: after a week with costs the code may serve on.
SpentIsSpent == \A r \in Requests :
    req[r].pc = "serving" =>
        /\ DailyLimit > 0 => req[r].dayThen < DailyLimit
        /\ WeeklyLimit > 0 /\ req[r].idle => req[r].weekThen < WeeklyLimit
=============================================================================
