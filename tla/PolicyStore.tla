---------------------------- MODULE PolicyStore ----------------------------
(***************************************************************************)
(* The policy store's memory, its state file and the four kinds of thread  *)
(* that work on them (internal/policy/store.go, config.go, usage.go and    *)
(* the handlers of internal/plugin/app.go):                                *)
(*                                                                         *)
(*   admin   a management request: create, patch, rotate or delete a key   *)
(*   host    the host's lifecycle calls: configure and shutdown            *)
(*   loop    the goroutine that writes the usage ledger to the state file  *)
(*   bill    a usage.handle call that records the cost of a request        *)
(*                                                                         *)
(* A critical section under Store.mu, the ledger's mutex or persistMu is   *)
(* one action.  updateMu is held over several and is a variable.  A key is *)
(* its secret and its enabled flag; the alias table and the rules that the *)
(* state file also holds are the subject of other modules.                 *)
(***************************************************************************)
EXTENDS Naturals, FiniteSets

CONSTANTS
    Ids,            \* ids of downstream keys
    Secrets,        \* their secrets, each standing for its hash too
    Admins,         \* management requests that can be in progress at once
    Billers,        \* usage.handle calls that can be in progress at once
    Host, NoOne,    \* the other values of updateMu's holder
    NoKey,          \* an id without a key
    Seed,           \* the keys of config.yaml
    Shared,         \* does config.yaml name the state file that NewApp opens by default
    MaxOps,         \* bound: management requests
    MaxCosts,       \* bound: usage records
    MaxFaults,      \* bound: I/O errors and crashes
    MaxCalls        \* bound: lifecycle calls

KeyRecords == [secret : Secrets, enabled : BOOLEAN]
KeyMaps == [Ids -> KeyRecords \cup {NoKey}]
Ledgers == [Ids -> Nat]
NoKeys == [id \in Ids |-> NoKey]
NoUsage == [id \in Ids |-> 0]

ASSUME HoldersDiffer == /\ Host \notin Admins
                        /\ NoOne \notin Admins \cup {Host}
ASSUME IdsExist == Ids # {}
ASSUME NoKeyIsNone == NoKey \notin KeyRecords
ASSUME SeedIsKeys == Seed \in KeyMaps
ASSUME SharedIsBoolean == Shared \in BOOLEAN
ASSUME BoundsAreNaturals == {MaxOps, MaxCosts, MaxFaults, MaxCalls} \subseteq Nat

VARIABLES
    keys,           \* Store.keys, from which keysByHash is rebuilt at every change
    usage,          \* the entries of the current usageLedger; 0 is no entry
    configured,     \* who set Store.statePath to this file: no one, NewApp or the host
    flusher,        \* Store.flusher is not nil
    disk,           \* the state file
    updateMu,       \* who holds Store.updateMu
    admin, host, loop, bill,
    dirty,          \* history: memory was edited or reset and not written or read back since
    revoked,        \* history: credentials whose removal was acknowledged
    firm,           \* history: those no patch in progress had read before
    ops, costs, faults, calls

memory == <<keys, usage, configured, flusher>>
history == <<dirty, revoked, firm>>
bounds == <<ops, costs, faults, calls>>
vars == <<memory, disk, updateMu, admin, host, loop, bill, history, bounds>>

\* A credential is an id and the secret that authenticates as it.
Credentials == Ids \X Secrets
LetsIn(k, s) == k # NoKey /\ k.enabled /\ k.secret = s
CredentialOf(id, k) == {c \in Credentials : c[1] = id /\ LetsIn(k, c[2])}
Accepted(m) == {c \in Credentials : LetsIn(m[c[1]], c[2])}

IdleAdmin == [pc |-> "idle", id |-> CHOOSE id \in Ids : TRUE, new |-> NoKey,
              keys |-> NoKeys, usage |-> NoUsage, revokes |-> {}]
IdleHost == [pc |-> "idle", op |-> "configure", usage |-> NoUsage, seen |-> NoUsage,
             flushed |-> FALSE, failed |-> FALSE]
NoLoop == [pc |-> "off", stop |-> FALSE, usage |-> NoUsage]
IdleBill == [pc |-> "idle", id |-> CHOOSE id \in Ids : TRUE, current |-> FALSE]

\* The credentials that patches in progress read before they asked for updateMu.
Held == {c \in Credentials : \E a \in Admins : /\ admin[a].pc = "patch"
                                              /\ admin[a].id = c[1]
                                              /\ LetsIn(admin[a].new, c[2])}

AdminStates == [pc : {"idle", "patch", "reset", "save"}, id : Ids, new : KeyRecords \cup {NoKey},
                keys : KeyMaps, usage : Ledgers, revokes : SUBSET Credentials]
HostStates == [pc : {"idle", "detach", "await", "snapshot", "write", "install", "seed", "start"},
               op : {"configure", "shutdown"}, usage : Ledgers, seen : Ledgers,
               flushed : BOOLEAN, failed : BOOLEAN]
LoopStates == [pc : {"off", "select", "enter", "write"}, stop : BOOLEAN, usage : Ledgers]
BillStates == [pc : {"idle", "found", "record"}, id : Ids, current : BOOLEAN]

TypeOK ==
    /\ keys \in KeyMaps
    /\ usage \in Ledgers
    /\ configured \in {"none", "default", "host"}
    /\ flusher \in BOOLEAN
    /\ disk \in [present : BOOLEAN, keys : KeyMaps, usage : Ledgers]
    /\ updateMu \in Admins \cup {Host, NoOne}
    /\ admin \in [Admins -> AdminStates]
    /\ host \in HostStates
    /\ loop \in LoopStates
    /\ bill \in [Billers -> BillStates]
    /\ dirty \in BOOLEAN
    /\ revoked \in SUBSET Credentials
    /\ firm \in SUBSET Credentials
    /\ ops \in 0..MaxOps
    /\ costs \in 0..MaxCosts
    /\ faults \in 0..MaxFaults
    /\ calls \in 0..MaxCalls

(***************************************************************************)
(* Writing the state file.  Both writers replace the file atomically under *)
(* persistMu, so an error or a crash leaves the file they found.           *)
(***************************************************************************)
\* SaveState: the whole state, from the caller's snapshots.
SaveState(ks, us) == disk' = [present |-> TRUE, keys |-> ks, usage |-> us]

\* Defect: the periodic flush writes the keys it has in memory as well.
FlushWithKeysInMemory(us) == disk' = [present |-> TRUE, keys |-> keys, usage |-> us]

\* SaveUsageOnly: the keys of the file, whatever they are, with a new ledger.
SaveUsageOnly(us) == disk' = [disk EXCEPT !.present = TRUE, !.usage = us]
----------------------------------------------------------------------------
\* NewApp: before the host registers the plugin, the store is configured with
\* DefaultConfig, whose errors are ignored.
NewApp ==
    \* That is another file, or this one cannot be loaded.
    \/ /\ Shared => disk.present
       /\ keys' = NoKeys
       /\ usage' = NoUsage
       /\ configured' = "none"
       /\ dirty' = TRUE
       /\ UNCHANGED disk
    \/ /\ Shared /\ disk.present
       /\ keys' = disk.keys
       /\ usage' = disk.usage
       /\ configured' = "default"
       /\ dirty' = FALSE
       /\ UNCHANGED disk
    \* A first boot without any key: the baseline is saved, or that fails.
    \/ /\ Shared /\ ~disk.present
       /\ keys' = NoKeys
       /\ usage' = NoUsage
       /\ configured' = "default"
       /\ dirty' = TRUE
       /\ SaveState(NoKeys, NoUsage) \/ UNCHANGED disk

\* What a new process finds in memory.
FreshMemory ==
    /\ NewApp
    /\ flusher' = FALSE
    /\ updateMu' = NoOne
    /\ admin' = [a \in Admins |-> IdleAdmin]
    /\ host' = IdleHost
    /\ loop' = NoLoop
    /\ bill' = [b \in Billers |-> IdleBill]

\* The first process, after its NewApp, when there was no state file.
Init ==
    /\ keys = NoKeys
    /\ usage = NoUsage
    /\ configured = IF Shared THEN "default" ELSE "none"
    /\ disk \in [present : {FALSE, Shared}, keys : {NoKeys}, usage : {NoUsage}]
    /\ flusher = FALSE
    /\ updateMu = NoOne
    /\ admin = [a \in Admins |-> IdleAdmin]
    /\ host = IdleHost
    /\ loop = NoLoop
    /\ bill = [b \in Billers |-> IdleBill]
    /\ dirty = TRUE
    /\ revoked = {}
    /\ firm = {}
    /\ ops = 0 /\ costs = 0 /\ faults = 0 /\ calls = 0

Fault == faults < MaxFaults /\ faults' = faults + 1
----------------------------------------------------------------------------
(***************************************************************************)
(* Management requests.  Each holds updateMu from its change in memory to  *)
(* the end of its write.                                                   *)
(***************************************************************************)
\* Defect: the key list to save is copied before the change is made.
SnapshotBeforeEdit(id, new) == keys

\* keysSnapshotLocked, taken after the change.
KeysSnapshot(id, new) == [keys EXCEPT ![id] = new]

\* A fresh secret of GenerateKey: no one ever had it.
Fresh(s) == /\ \A id \in Ids : /\ keys[id] # NoKey => keys[id].secret # s
                               /\ disk.keys[id] # NoKey => disk.keys[id].secret # s
                               /\ <<id, s>> \notin revoked
            /\ \A a \in Admins : admin[a].new # NoKey => admin[a].new.secret # s

\* What a change of one key takes away.
Withdrawn(id, new) == {c \in Credentials : /\ c[1] = id
                                           /\ keys[id] # NoKey /\ keys[id].secret = c[2]
                                           /\ ~LetsIn(new, c[2])}

\* The change in memory and the snapshots, in one critical section under mu.
\* `grants` is what the administrator asked to let in.
Change(a, id, new, pc, grants) ==
    /\ updateMu = NoOne
    /\ updateMu' = a
    /\ keys' = [keys EXCEPT ![id] = new]
    /\ dirty' = TRUE
    /\ admin' = [admin EXCEPT ![a] =
                   [pc |-> pc, id |-> id, new |-> new, keys |-> KeysSnapshot(id, new), usage |-> usage,
                    revokes |-> Withdrawn(id, new)]]
    /\ revoked' = revoked \ grants
    /\ firm' = firm \ grants
    /\ UNCHANGED <<usage, configured, flusher, disk, host, loop, bill, costs, faults, calls>>

Request(a) == /\ admin[a].pc = "idle"
              /\ configured = "host"
              /\ ops < MaxOps
              /\ ops' = ops + 1

\* POST /keys with a given or generated secret: UpsertKey, which replaces a
\* key that has the id.
CreateKey(a, id, s) ==
    /\ Request(a)
    /\ LET new == [secret |-> s, enabled |-> TRUE]
       IN  Change(a, id, new, "save", CredentialOf(id, new))

\* POST /keys/rotate: RotateKey keeps everything but the secret.
RotateKey(a, id, s) ==
    /\ Request(a)
    /\ keys[id] # NoKey
    /\ Fresh(s)
    /\ LET new == [keys[id] EXCEPT !.secret = s]
       IN  Change(a, id, new, "save", CredentialOf(id, new))

\* DELETE /keys: DeleteKey, up to where it releases mu.
DeleteKey(a, id) ==
    /\ Request(a)
    /\ keys[id] # NoKey
    /\ Change(a, id, NoKey, "reset", {})

\* PATCH /keys: the handler copies the key with Keys(), without updateMu, and
\* changes its name (not modelled), its enabled flag or its secret.
PatchKey(a, id) ==
    /\ Request(a)
    /\ keys[id] # NoKey
    /\ \E new \in {keys[id]} \cup {[keys[id] EXCEPT !.enabled = e] : e \in BOOLEAN}
                             \cup {[keys[id] EXCEPT !.secret = s] : s \in Secrets} :
         LET grants == IF new = keys[id] THEN {} ELSE CredentialOf(id, new)
         IN  /\ admin' = [admin EXCEPT ![a] = [@ EXCEPT !.pc = "patch", !.id = id, !.new = new]]
             /\ revoked' = revoked \ grants
             /\ firm' = firm \ grants
    /\ UNCHANGED <<memory, disk, updateMu, host, loop, bill, dirty, costs, faults, calls>>

\* ... and later hands the copy to UpsertKey, which installs it as it is.
PatchUpsert(a) ==
    /\ admin[a].pc = "patch"
    /\ Change(a, admin[a].id, admin[a].new, "save", {})
    /\ UNCHANGED ops

\* The rest of DeleteKey: the ledger entry goes after the snapshot was taken.
ResetUsage(a) ==
    /\ admin[a].pc = "reset"
    /\ usage' = [usage EXCEPT ![admin[a].id] = 0]
    /\ admin' = [admin EXCEPT ![a].pc = "save"]
    /\ UNCHANGED <<keys, configured, flusher, disk, updateMu, host, loop, bill, history, bounds>>

\* saveState succeeds: the request answers 200 and what it took away is revoked,
\* firmly so unless a patch in progress still carries it.
Saved(a) ==
    /\ admin[a].pc = "save"
    /\ SaveState(admin[a].keys, admin[a].usage)
    /\ dirty' = FALSE
    /\ updateMu' = NoOne
    /\ admin' = [admin EXCEPT ![a] = IdleAdmin]
    /\ revoked' = revoked \cup admin[a].revokes
    /\ firm' = (firm \cup admin[a].revokes) \ Held
    /\ UNCHANGED <<memory, host, loop, bill, bounds>>

\* saveState fails: the request answers with an error, memory stays changed.
SaveFailed(a) ==
    /\ admin[a].pc = "save"
    /\ Fault
    /\ updateMu' = NoOne
    /\ admin' = [admin EXCEPT ![a] = IdleAdmin]
    /\ UNCHANGED <<memory, disk, host, loop, bill, history, ops, costs, calls>>

Arrive(a) == \E id \in Ids : \/ \E s \in Secrets : CreateKey(a, id, s) \/ RotateKey(a, id, s)
                             \/ DeleteKey(a, id)
                             \/ PatchKey(a, id)
Proceed(a) == PatchUpsert(a) \/ ResetUsage(a) \/ Saved(a) \/ SaveFailed(a)
----------------------------------------------------------------------------
(***************************************************************************)
(* RecordUsage: look the key up, take the ledger pointer, add the cost.    *)
(***************************************************************************)
FindByID(b, id) ==
    /\ bill[b].pc = "idle"
    /\ configured = "host"
    /\ keys[id] # NoKey /\ keys[id].enabled
    /\ costs < MaxCosts
    /\ costs' = costs + 1
    /\ bill' = [bill EXCEPT ![b] = [@ EXCEPT !.pc = "found", !.id = id]]
    /\ UNCHANGED <<memory, disk, updateMu, admin, host, loop, history, ops, faults, calls>>

RuntimeComponents(b) ==
    /\ bill[b].pc = "found"
    /\ bill' = [bill EXCEPT ![b] = [@ EXCEPT !.pc = "record", !.current = TRUE]]
    /\ UNCHANGED <<memory, disk, updateMu, admin, host, loop, history, bounds>>

\* Defect: a failed request is refunded, charged or not.
RefundCost(b) ==
    /\ bill[b].pc = "record"
    /\ usage' = [usage EXCEPT ![bill[b].id] = @ + (IF bill[b].current THEN 1 ELSE 0 - 1)]
    /\ bill' = [bill EXCEPT ![b] = IdleBill]
    /\ UNCHANGED <<keys, configured, flusher, disk, updateMu, admin, host, loop, history, bounds>>

\* A cost added to a ledger that Configure has replaced is gone.
RecordCost(b) ==
    /\ bill[b].pc = "record"
    /\ usage' = [usage EXCEPT ![bill[b].id] = @ + (IF bill[b].current THEN 1 ELSE 0)]
    /\ bill' = [bill EXCEPT ![b] = IdleBill]
    /\ UNCHANGED <<keys, configured, flusher, disk, updateMu, admin, host, loop, history, bounds>>
----------------------------------------------------------------------------
(***************************************************************************)
(* usageFlusher.loop: a tick runs FlushUsage; the stop channel ends it, if *)
(* select looks at it.                                                     *)
(***************************************************************************)
Tick ==
    /\ loop.pc = "select"
    /\ loop' = [loop EXCEPT !.pc = "enter"]
    /\ UNCHANGED <<memory, disk, updateMu, admin, host, bill, history, bounds>>

\* Defect: FlushUsage waits for updateMu before it takes its snapshot.
FlushSnapshotUnderUpdateMu ==
    /\ loop.pc = "enter"
    /\ updateMu = NoOne
    /\ loop' = [loop EXCEPT !.pc = "write", !.usage = usage]
    /\ UNCHANGED <<memory, disk, updateMu, admin, host, bill, history, bounds>>

\* FlushUsage's snapshot, under mu.
FlushSnapshot ==
    /\ loop.pc = "enter"
    /\ loop' = [loop EXCEPT !.pc = "write", !.usage = usage]
    /\ UNCHANGED <<memory, disk, updateMu, admin, host, bill, history, bounds>>

Flushed ==
    /\ loop.pc = "write"
    /\ SaveUsageOnly(loop.usage)
    /\ loop' = [loop EXCEPT !.pc = "select"]
    /\ UNCHANGED <<memory, updateMu, admin, host, bill, history, bounds>>

\* The loop ignores FlushUsage's error.
FlushFailed ==
    /\ loop.pc = "write"
    /\ Fault
    /\ loop' = [loop EXCEPT !.pc = "select"]
    /\ UNCHANGED <<memory, disk, updateMu, admin, host, bill, history, ops, costs, calls>>

Exit ==
    /\ loop.pc = "select"
    /\ loop.stop
    /\ loop' = NoLoop
    /\ UNCHANGED <<memory, disk, updateMu, admin, host, bill, history, bounds>>
----------------------------------------------------------------------------
(***************************************************************************)
(* The host's lifecycle calls, one after the other: App.configure and      *)
(* App.Shutdown.  Both stop the goroutine and flush once more.             *)
(***************************************************************************)
Configure ==
    /\ host.pc = "idle"
    /\ calls < MaxCalls
    /\ calls' = calls + 1
    /\ updateMu = NoOne
    /\ updateMu' = Host
    /\ host' = [host EXCEPT !.pc = "detach", !.op = "configure", !.seen = usage, !.flushed = FALSE]
    /\ UNCHANGED <<memory, disk, admin, loop, bill, history, ops, costs, faults>>

Shutdown ==
    /\ host.pc = "idle"
    /\ configured = "host"
    /\ calls < MaxCalls
    /\ calls' = calls + 1
    /\ host' = [host EXCEPT !.pc = "detach", !.op = "shutdown", !.flushed = FALSE]
    /\ UNCHANGED <<memory, disk, updateMu, admin, loop, bill, history, ops, costs, faults>>

\* StopUsageFlusher takes the flusher out of the store and closes stopCh.
Detach ==
    /\ host.pc = "detach"
    /\ flusher' = FALSE
    /\ loop' = [loop EXCEPT !.stop = flusher]
    /\ host' = [host EXCEPT !.pc = IF flusher THEN "await" ELSE "snapshot"]
    /\ UNCHANGED <<keys, usage, configured, disk, updateMu, admin, bill, history, bounds>>

\* Defect: closing stopCh is taken for the end of the goroutine.
StopSignalled == loop.stop

\* doneCh is closed.
LoopDone == loop.pc = "off"

Await ==
    /\ host.pc = "await"
    /\ LoopDone
    /\ host' = [host EXCEPT !.pc = "snapshot"]
    /\ UNCHANGED <<memory, disk, updateMu, admin, loop, bill, history, bounds>>

\* FlushUsage, which does nothing while Store.statePath is empty or another file.
HostSnapshot ==
    /\ host.pc = "snapshot"
    /\ host' = [host EXCEPT !.pc = IF configured # "none" THEN "write" ELSE "install", !.usage = usage]
    /\ UNCHANGED <<memory, disk, updateMu, admin, loop, bill, history, bounds>>

HostFlushed ==
    /\ host.pc = "write"
    /\ SaveUsageOnly(host.usage)
    /\ host' = [host EXCEPT !.pc = "install", !.flushed = TRUE]
    /\ UNCHANGED <<memory, updateMu, admin, loop, bill, history, bounds>>

\* StopUsageFlusher ignores FlushUsage's error.
HostFlushFailed ==
    /\ host.pc = "write"
    /\ Fault
    /\ host' = [host EXCEPT !.pc = "install"]
    /\ UNCHANGED <<memory, disk, updateMu, admin, loop, bill, history, ops, costs, calls>>

\* A shutdown is over: the plugin is unloaded, with whatever was in progress.
Unload ==
    /\ host.pc = "install"
    /\ host.op = "shutdown"
    /\ FreshMemory
    /\ UNCHANGED <<revoked, firm, bounds>>

\* Configure replaces the keys and the ledger; a record that has the pointer
\* of the old ledger keeps it.
Install(ks, us) ==
    /\ keys' = ks
    /\ usage' = us
    /\ configured' = "host"
    /\ bill' = [b \in Billers |-> [bill[b] EXCEPT !.current = FALSE]]

InstallState ==
    /\ host.pc = "install" /\ host.op = "configure"
    /\ disk.present
    /\ Install(disk.keys, disk.usage)
    /\ dirty' = FALSE
    /\ updateMu' = NoOne
    /\ host' = [host EXCEPT !.pc = "start"]
    /\ UNCHANGED <<flusher, disk, admin, loop, revoked, firm, bounds>>

\* LoadState or the validation of what it read fails: App.configure returns
\* before it starts a flusher again.
LoadFailed ==
    /\ host.pc = "install" /\ host.op = "configure"
    /\ disk.present
    /\ Fault
    /\ updateMu' = NoOne
    /\ host' = [host EXCEPT !.pc = "idle", !.failed = TRUE]
    /\ UNCHANGED <<memory, disk, admin, loop, bill, history, ops, costs, calls>>

\* First boot: there is no state file, the keys are config.yaml's.
InstallSeed ==
    /\ host.pc = "install" /\ host.op = "configure"
    /\ ~disk.present
    /\ Install(Seed, NoUsage)
    /\ dirty' = TRUE
    /\ host' = [host EXCEPT !.pc = "seed", !.usage = NoUsage]
    /\ UNCHANGED <<flusher, disk, updateMu, admin, loop, revoked, firm, bounds>>

SeedSaved ==
    /\ host.pc = "seed"
    /\ SaveState(Seed, host.usage)
    /\ dirty' = FALSE
    /\ updateMu' = NoOne
    /\ host' = [host EXCEPT !.pc = "start"]
    /\ UNCHANGED <<memory, admin, loop, bill, revoked, firm, bounds>>

SeedFailed ==
    /\ host.pc = "seed"
    /\ Fault
    /\ updateMu' = NoOne
    /\ host' = [host EXCEPT !.pc = "idle", !.failed = TRUE]
    /\ UNCHANGED <<memory, disk, admin, loop, bill, history, ops, costs, calls>>

\* Defect: the check for a running flusher is the wrong way round.
StartUsageFlusherIfRunning ==
    /\ host.pc = "start"
    /\ flusher' = TRUE
    /\ loop' = IF flusher THEN [NoLoop EXCEPT !.pc = "select"] ELSE loop
    /\ host' = [IdleHost EXCEPT !.failed = FALSE]
    /\ UNCHANGED <<keys, usage, configured, disk, updateMu, admin, bill, history, bounds>>

\* StartUsageFlusher, after Configure has returned.
StartUsageFlusher ==
    /\ host.pc = "start"
    /\ flusher' = TRUE
    /\ loop' = IF flusher THEN loop ELSE [NoLoop EXCEPT !.pc = "select"]
    /\ host' = [IdleHost EXCEPT !.failed = FALSE]
    /\ UNCHANGED <<keys, usage, configured, disk, updateMu, admin, bill, history, bounds>>

LifecycleStep ==
    \/ Detach \/ Await \/ HostSnapshot \/ HostFlushed \/ HostFlushFailed \/ Unload
    \/ InstallState \/ LoadFailed \/ InstallSeed \/ SeedSaved \/ SeedFailed \/ StartUsageFlusher

\* The process dies, with everything that is not in the state file.
Crash ==
    /\ configured = "host"
    /\ Fault
    /\ FreshMemory
    /\ UNCHANGED <<revoked, firm, ops, costs, calls>>
----------------------------------------------------------------------------
Next ==
    \/ \E a \in Admins : Arrive(a) \/ Proceed(a)
    \/ \E b \in Billers : (\E id \in Ids : FindByID(b, id)) \/ RuntimeComponents(b) \/ RecordCost(b)
    \/ Tick \/ FlushSnapshot \/ Flushed \/ FlushFailed \/ Exit
    \/ Configure \/ Shutdown \/ LifecycleStep
    \/ Crash

\* Goroutines that can run do.  select picks among ready channels at random,
\* so a closed stopCh is seen although the ticker may be ready too.
Fairness ==
    /\ \A a \in Admins : WF_vars(Proceed(a))
    /\ \A b \in Billers : WF_vars(RuntimeComponents(b) \/ RecordCost(b))
    /\ WF_vars(Tick \/ FlushSnapshot \/ Flushed \/ FlushFailed)
    /\ SF_vars(Exit)
    /\ WF_vars(LifecycleStep)

Spec == Init /\ [][Next]_vars
FairSpec == Spec /\ Fairness
----------------------------------------------------------------------------
\* A credential whose rotation, deletion or disabling was acknowledged, and
\* that no patch in progress had read, is let in by neither the running store
\* nor the state file: no flush, reload, crash or failed write brings it back.
RevokedStaysRevoked == firm \cap (Accepted(keys) \cup Accepted(disk.keys)) = {}

\* The same without the exception, as the comment on Configure has it: "a
\* revoked or deleted key cannot be resurrected from an older in-memory snapshot".
NeverResurrected == revoked \cap Accepted(keys) = {}

\* Configure is between taking and releasing updateMu.
Reconfiguring == \/ host.pc = "seed"
                 \/ /\ host.op = "configure"
                    /\ host.pc \in {"detach", "await", "snapshot", "write", "install"}

\* Who is about to write keys to the state file holds updateMu, and what it
\* will write is still what is in memory and nothing it took away.
WritersHoldCurrentKeys ==
    /\ \A a \in Admins : admin[a].pc \in {"reset", "save"} =>
          /\ updateMu = a
          /\ admin[a].keys = keys
          /\ admin[a].revokes \cap Accepted(keys) = {}
    /\ Reconfiguring => updateMu = Host
    /\ host.pc = "seed" => keys = Seed

\* The keys in memory and in the state file are those of the abstract registry.
Registry == INSTANCE KeyRegistry WITH
    Keys <- KeyRecords, live <- keys, written <- disk.present, durable <- disk.keys,
    synced <- ~dirty

\* The store implements the registry: only a management request's own write
\* changes the keys in the file, and only the file or the seed replaces memory.
ImplementsRegistry == Registry!Spec

\* Configure's "flush, then load": a reload whose flush succeeded keeps every
\* cost that was in the ledger when Configure got the lock.
UsageSurvivesReload ==
    [][host.pc = "install" /\ host'.pc = "start" /\ host.flushed
         => \A id \in Ids : usage'[id] >= host.seen[id]]_vars

\* Configure and Shutdown come to an end: waiting for the flusher's goroutine
\* while holding updateMu is no deadlock.
LifecycleEnds == host.pc # "idle" ~> host.pc = "idle"

\* What a ledger entry holds reaches the state file, unless the entry is reset
\* or the last lifecycle call failed.
LedgerReachesDisk ==
    \A id \in Ids, n \in 1..MaxCosts :
        usage[id] = n ~> (disk.usage[id] >= n \/ usage[id] < n \/ host.failed)

\* As long as no management request was made, a configured store has the keys
\* of config.yaml.
SeedKept == configured = "host" /\ ops = 0 => keys = Seed
=============================================================================
