------------------------------ MODULE Dispatch ------------------------------
(***************************************************************************)
(* How a client's request gets its target (internal/policy/store.go).  The *)
(* host calls the plugin up to three times for one request and hands it    *)
(* nothing that says which of them belong together:                        *)
(*                                                                         *)
(*   Authenticate   looks the key up, selects a target of the requested    *)
(*                  alias and leaves it in a queue of the key and alias    *)
(*   Route          takes the oldest selection of that queue, or selects   *)
(*                  again when there is none                               *)
(*   ResponseAlias  (answers that are not streamed) runs Route once more   *)
(*                  to learn the name to write into the answer             *)
(*                                                                         *)
(* Meanwhile administrators edit the alias and the keys.  All requests ask *)
(* for one alias; a selection is a target of it.  Each critical section    *)
(* under Store.mu is one action.                                           *)
(***************************************************************************)
EXTENDS Naturals, Sequences

CONSTANTS
    Keys,           \* downstream keys
    Requests,       \* client requests, each made once
    Targets,        \* upstream targets an alias can have
    NoTarget,
    FirstTargets,   \* the alias as configured, a sequence of targets
    AliasEdits,     \* the sequences of targets an administrator may give it
    TTL,            \* pendingPickTTL
    MaxQueue,       \* pendingPickMaxQueue
    MaxEvents       \* bound: instants that pass, and edits of the alias or of a key

Members(list) == {list[i] : i \in DOMAIN list}
TargetLists == Seq(Targets)

ASSUME NoTargetIsNone == NoTarget \notin Targets
ASSUME ListsAreLists == AliasEdits \cup {FirstTargets} \subseteq TargetLists \ {<<>>}
ASSUME NumbersAreNatural == {TTL, MaxQueue, MaxEvents} \subseteq Nat /\ MaxQueue > 0

VARIABLES
    table,      \* the alias's targets in Store.aliases; << >> when it is deleted
    priority,   \* its dispatch mode is "priority", not "round-robin"
    models,     \* KeyConfig.Models of each key: << >> when it may not use the alias
    live,       \* the keys in Store.keys, all of them enabled
    secret,     \* the version of each key's secret
    rr,         \* Store.rrCounters of the alias
    picks,      \* Store.pendingPicks, a queue for each key
    req,        \* the requests
    now,        \* the clock
    edits,
    mixed,      \* history: requests whose selection others could have come upon
    granted,    \* history: the targets each key ever had
    chosen,     \* history: selections of each place in the list since the last change
    even        \* history: since then, all keys had the same targets and no
                \* request selected from an older list

store == <<table, priority, models, live, secret, rr, picks>>
history == <<mixed, granted, chosen, even>>
vars == <<store, req, now, edits, history>>

Phases == {"new", "found", "chosen", "admitted", "routing", "resolving",
           "routed", "answering", "renaming", "over"}
Picks == [rule : Targets, at : 0..MaxEvents]
Queues == {q \in Seq(Picks) : Len(q) <= MaxQueue}
RequestStates == [pc : Phases, key : Keys, secret : Nat, list : TargetLists,
                  since : 0..MaxEvents,     \* when the last step before reading the clock was
                  at : 0..MaxEvents,        \* when the selection it left, or took, was left
                  rule : Targets \cup {NoTarget}, routed : Targets \cup {NoTarget}]

TypeOK ==
    /\ table \in TargetLists
    /\ priority \in BOOLEAN
    /\ models \in [Keys -> TargetLists]
    /\ live \in SUBSET Keys
    /\ secret \in [Keys -> Nat]
    /\ rr \in Nat
    /\ picks \in [Keys -> Queues]
    /\ req \in [Requests -> RequestStates]
    /\ now \in 0..MaxEvents
    /\ edits \in 0..MaxEvents
    /\ mixed \in SUBSET Requests
    /\ granted \in [Keys -> SUBSET Targets]
    /\ chosen \in [DOMAIN table -> Nat]
    /\ even \in BOOLEAN

Init ==
    /\ table = FirstTargets
    /\ priority = FALSE
    /\ \E referring \in SUBSET Keys :
         models = [k \in Keys |-> IF k \in referring THEN FirstTargets ELSE <<>>]
    /\ live = Keys
    /\ secret = [k \in Keys |-> 0]
    /\ rr = 0
    /\ picks = [k \in Keys |-> <<>>]
    /\ req \in [Requests -> {[pc |-> "new", key |-> k, secret |-> 0, list |-> <<>>, since |-> 0, at |-> 0,
                              rule |-> NoTarget, routed |-> NoTarget] : k \in Keys}]
    /\ now = 0
    /\ edits = 0
    /\ mixed = {}
    /\ granted = [k \in Keys |-> Members(models[k])]
    /\ chosen = [n \in DOMAIN table |-> 0]
    /\ even = TRUE
----------------------------------------------------------------------------
(***************************************************************************)
(* The queues of selections.                                               *)
(***************************************************************************)
\* Requests that have left a selection and not looked for it yet.
Waiting(k) == {r \in Requests : req[r].key = k /\ req[r].pc \in {"admitted", "routing"}}

\* Defect: the queue is named by the alias alone.
PendingPickKeyOfAlias(k) == CHOOSE any \in Keys : TRUE

\* pendingPickKey: the queue of key k (and of the one alias there is).
PendingPickKey(k) == k

\* Defect: nothing is dropped while the queue is within its limit.
PruneOverfull(q, t) == IF Len(q) > MaxQueue THEN Tail(q) ELSE q

\* prunePendingLocked: drop entries from the front up to the first fresh one.
Prune(q, t) ==
    LET stale == {n \in 0..Len(q) : \A i \in 1..n : q[i].at + TTL < t}
        first == CHOOSE n \in stale : \A i \in stale : i <= n
    IN  SubSeq(q, first + 1, Len(q))

\* Defect: the queue is cut one entry too late.
NewestAndOneMore(q) == IF Len(q) > MaxQueue + 1 THEN SubSeq(q, Len(q) - MaxQueue, Len(q)) ELSE q

\* rememberPick keeps the newest entries.
Newest(q) == IF Len(q) > MaxQueue THEN SubSeq(q, Len(q) - MaxQueue + 1, Len(q)) ELSE q
----------------------------------------------------------------------------
(***************************************************************************)
(* Selecting a target: resolveRuleForAlias, for the copy of the key's      *)
(* models that the caller took earlier.                                    *)
(***************************************************************************)
\* Defect: the last target of the list is left out of the rotation.
SkipLast(i, n) == IF i + 1 >= n - 1 THEN 0 ELSE i + 1

\* The counter after target i of n (counted from 0) was selected.
Advance(i, n) == (i + 1) % n

Select(r, t) ==
    LET list == req[r].list
        i == IF rr >= Len(list) THEN 0 ELSE rr
        fixed == Len(list) = 1 \/ priority
        n == IF fixed THEN 1 ELSE i + 1
    IN  /\ list # <<>>
        /\ t = list[n]
        /\ rr' = IF fixed THEN rr ELSE Advance(i, Len(list))
        /\ chosen' = IF list = table THEN [chosen EXCEPT ![n] = @ + 1] ELSE chosen
        /\ even' = (even /\ list = table)
----------------------------------------------------------------------------
\* Nothing more happens to the request; what its next step would need is forgotten.
Over(r) == [req[r] EXCEPT !.pc = "over", !.list = <<>>, !.since = 0, !.at = 0, !.rule = NoTarget]
----------------------------------------------------------------------------
(***************************************************************************)
(* Authenticate.  A request may end after any call: the host gives it up   *)
(* before Route, or streams the answer after it.                           *)
(***************************************************************************)
FindBySecret(r) ==
    /\ req[r].pc = "new"
    /\ req[r].key \in live
    /\ LET k == req[r].key
       IN  req' = [req EXCEPT ![r] = [@ EXCEPT !.pc = "found", !.secret = secret[k], !.list = models[k]]]
    /\ UNCHANGED <<store, now, edits, history>>

AuthSelect(r) ==
    /\ req[r].pc = "found"
    /\ \E t \in Targets :
         /\ Select(r, t)
         /\ req' = [req EXCEPT ![r] = [@ EXCEPT !.pc = "chosen", !.rule = t, !.list = <<>>, !.since = now]]
    /\ UNCHANGED <<table, priority, models, live, secret, picks, now, edits, mixed, granted>>

\* The key may not use the model, or the request is over a limit.
Reject(r) ==
    /\ \/ req[r].pc = "found" /\ req[r].list = <<>>
       \/ req[r].pc = "chosen"
    /\ req' = [req EXCEPT ![r] = Over(r)]
    /\ UNCHANGED <<store, now, edits, history>>

\* rememberPick, which reads the clock before it takes the lock.
RememberPick(r) ==
    /\ req[r].pc = "chosen"
    /\ \E t \in req[r].since .. now :
         LET k == PendingPickKey(req[r].key)
             q == Prune(picks[k], t)
         IN  /\ picks' = [picks EXCEPT ![k] = Newest(Append(q, [rule |-> req[r].rule, at |-> t]))]
             /\ req' = [req EXCEPT ![r] = [@ EXCEPT !.pc = "admitted", !.since = 0, !.at = t]]
             /\ mixed' = mixed \cup Waiting(req[r].key)
                          \cup (IF picks[req[r].key] = <<>> /\ now <= t + TTL THEN {} ELSE {r})
    /\ UNCHANGED <<table, priority, models, live, secret, rr, now, edits, granted, chosen, even>>

----------------------------------------------------------------------------
(***************************************************************************)
(* Route, and ResponseAlias, which calls it.                               *)
(***************************************************************************)
KeyFound(r) == req[r].key \in live /\ req[r].secret = secret[req[r].key]

\* The lookup of the key; the caller goes on with a copy of it.
Lookup(r, from, found) ==
    /\ req[r].pc = from
    /\ req' = [req EXCEPT ![r] = IF KeyFound(r)
                 THEN [@ EXCEPT !.pc = found, !.list = models[req[r].key], !.since = now]
                 ELSE Over(r)]
    /\ UNCHANGED <<store, now, edits, history>>

\* takePick, which reads the clock before it takes the lock: the oldest
\* selection of the key is taken, whoever left it.
TakePick(r, pick) ==
    \E t \in req[r].since .. now :
      LET k == PendingPickKey(req[r].key)
          q == Prune(picks[k], t)
      IN  /\ q # <<>>
          /\ pick = Head(q)
          /\ picks' = [picks EXCEPT ![k] = Tail(q)]
          /\ mixed' = mixed \cup (Waiting(req[r].key) \ {r})

NoPick(r) ==
    \E t \in req[r].since .. now :
      LET k == PendingPickKey(req[r].key)
      IN  /\ Prune(picks[k], t) = <<>>
          /\ picks' = [picks EXCEPT ![k] = <<>>]

RouteLookup(r) == Lookup(r, "admitted", "routing")

RouteTake(r) ==
    /\ req[r].pc = "routing"
    /\ \E k \in Keys : \E i \in 1..Len(picks[k]) :
         /\ TakePick(r, picks[k][i])
         /\ req' = [req EXCEPT ![r] = [@ EXCEPT !.pc = "routed", !.list = <<>>, !.routed = picks[k][i].rule,
                                                   !.at = picks[k][i].at]]
    /\ UNCHANGED <<table, priority, models, live, secret, rr, now, edits, granted, chosen, even>>

RouteMiss(r) ==
    /\ req[r].pc = "routing"
    /\ NoPick(r)
    /\ req' = [req EXCEPT ![r] = IF req[r].list = <<>> THEN Over(r)
                                                       ELSE [@ EXCEPT !.pc = "resolving"]]
    /\ UNCHANGED <<table, priority, models, live, secret, rr, now, edits, history>>

RouteSelect(r) ==
    /\ req[r].pc = "resolving"
    /\ \E t \in Targets : /\ Select(r, t)
                          /\ req' = [req EXCEPT ![r] = [@ EXCEPT !.pc = "routed", !.list = <<>>, !.routed = t, !.at = now]]
    /\ UNCHANGED <<table, priority, models, live, secret, picks, now, edits, mixed, granted>>

\* An answer that is not streamed.
AnswerLookup(r) == Lookup(r, "routed", "answering")

AnswerTake(r) ==
    /\ req[r].pc = "answering"
    /\ \E k \in Keys : \E i \in 1..Len(picks[k]) : TakePick(r, picks[k][i])
    /\ req' = [req EXCEPT ![r] = Over(r)]
    /\ UNCHANGED <<table, priority, models, live, secret, rr, now, edits, granted, chosen, even>>

AnswerMiss(r) ==
    /\ req[r].pc = "answering"
    /\ NoPick(r)
    /\ req' = [req EXCEPT ![r] = IF req[r].list = <<>> THEN Over(r)
                                                       ELSE [@ EXCEPT !.pc = "renaming"]]
    /\ UNCHANGED <<table, priority, models, live, secret, rr, now, edits, history>>

AnswerSelect(r) ==
    /\ req[r].pc = "renaming"
    /\ \E t \in Targets : Select(r, t)
    /\ req' = [req EXCEPT ![r] = Over(r)]
    /\ UNCHANGED <<table, priority, models, live, secret, picks, now, edits, mixed, granted>>

RequestStep(r) ==
    \/ FindBySecret(r) \/ AuthSelect(r) \/ Reject(r) \/ RememberPick(r)
    \/ RouteLookup(r) \/ RouteTake(r) \/ RouteMiss(r) \/ RouteSelect(r)
    \/ AnswerLookup(r) \/ AnswerTake(r) \/ AnswerMiss(r) \/ AnswerSelect(r)
----------------------------------------------------------------------------
(***************************************************************************)
(* Administrators' edits, as far as they touch this state.                 *)
(***************************************************************************)
Edit == edits + now < MaxEvents /\ edits' = edits + 1

\* clearPendingPicksForKeyLocked
ClearPicks(k) == [picks EXCEPT ![k] = <<>>]

\* What every edit of the lists means for the history.
Restart == /\ chosen' = [n \in DOMAIN table' |-> 0]
           /\ even' = \A k \in live' : models'[k] \in {table', <<>>}
           /\ granted' = [k \in Keys |-> granted[k] \cup Members(models'[k])]

\* UpsertAlias gives every key that refers to the alias its new targets; the
\* counter and the selections left in the queues stay.
UpsertAlias ==
    /\ Edit
    /\ \E ts \in AliasEdits, p \in BOOLEAN :
         /\ table' = ts
         /\ priority' = p
         /\ models' = [k \in Keys |-> IF models[k] = <<>> THEN <<>> ELSE ts]
    /\ UNCHANGED <<live, secret, rr, picks, req, now, mixed>>
    /\ Restart

\* DeleteAlias, refused while a key refers to the alias.
DeleteAlias ==
    /\ Edit
    /\ table # <<>>
    /\ \A k \in Keys : models[k] = <<>>
    /\ table' = <<>>
    /\ UNCHANGED <<priority, models, live, secret, rr, picks, req, now, mixed>>
    /\ Restart

\* UpsertKey (POST, PATCH): the key gets the alias, loses it, or brings a target
\* of its own, which is merged into the alias and reaches no other key.
UpsertKey(k) ==
    /\ Edit
    /\ live' = live \cup {k}
    /\ \E ts \in {table, <<>>} \cup {Append(table, t) : t \in Targets \ Members(table)} :
         /\ table' = IF ts = <<>> THEN table ELSE ts
         /\ priority' = (priority /\ table # <<>>)
         /\ models' = [models EXCEPT ![k] = ts]
    /\ picks' = ClearPicks(k)
    /\ mixed' = mixed \cup Waiting(k)
    /\ UNCHANGED <<secret, rr, req, now>>
    /\ Restart

RotateKey(k) ==
    /\ Edit
    /\ k \in live
    /\ secret' = [secret EXCEPT ![k] = @ + 1]
    /\ picks' = ClearPicks(k)
    /\ mixed' = mixed \cup Waiting(k)
    /\ UNCHANGED <<table, priority, models, live, rr, req, now, granted, chosen, even>>

DeleteKey(k) ==
    /\ Edit
    /\ k \in live
    /\ live' = live \ {k}
    /\ models' = [models EXCEPT ![k] = <<>>]
    /\ picks' = ClearPicks(k)
    /\ mixed' = mixed \cup Waiting(k)
    /\ UNCHANGED <<table, priority, secret, rr, req, now, granted, chosen, even>>

\* Configure, as far as it touches the dispatch of a state that is unchanged.
Configure ==
    /\ Edit
    /\ rr' = 0
    /\ picks' = [k \in Keys |-> <<>>]
    /\ models' = [k \in Keys |-> IF models[k] = <<>> THEN <<>> ELSE table]
    /\ mixed' = mixed \cup UNION {Waiting(k) : k \in Keys}
    /\ UNCHANGED <<table, priority, live, secret, req, now>>
    /\ Restart

AdminStep == \/ UpsertAlias \/ DeleteAlias \/ Configure
             \/ \E k \in Keys : UpsertKey(k) \/ RotateKey(k) \/ DeleteKey(k)

Tick == /\ edits + now < MaxEvents
        /\ now' = now + 1
        /\ mixed' = mixed \cup {r \in UNION {Waiting(k) : k \in Keys} : req[r].at + TTL < now'}
        /\ UNCHANGED <<store, req, edits, granted, chosen, even>>

Next == (\E r \in Requests : RequestStep(r)) \/ AdminStep \/ Tick

Spec == Init /\ [][Next]_vars
----------------------------------------------------------------------------
\* A request gets the target that was selected when it was authenticated, and
\* whose group was stamped into its metadata, unless an edit, another request
\* or answer of the same key, or the TTL came between.
AlignedUndisturbed ==
    \A r \in Requests \ mixed : req[r].pc = "routed" => req[r].routed = req[r].rule

\* The same without the exceptions but with no edit and no time passing, as the
\* comment on pendingPicks has it: "use the same target for the same request".
AlignedAlways ==
    edits = 0 /\ now = 0 => \A r \in Requests : req[r].pc = "routed" => req[r].routed = req[r].rule

\* A selection that was older than the TTL when Route was called is not used,
\* in whatever order the selections were queued and the clock was read.
FreshPicks ==
    \A r \in Requests : req[r].pc = "routed" => req[r].since <= req[r].at + TTL

\* No key is routed to a target that was never one of its own, although keys
\* share the alias and its counter, and selections outlive edits.
OwnTargets ==
    \A r \in Requests : req[r].pc = "routed" => req[r].routed \in granted[req[r].key]

\* The global counter spreads selections over the targets as the list has them,
\* one listed twice twice as often, whoever makes the selections and however
\* many targets there were before.
RotationBalanced ==
    even /\ ~priority => \A i, j \in DOMAIN table : chosen[i] <= chosen[j] + 1
=============================================================================
