------------------------- MODULE PolicyStoreProofs -------------------------
(***************************************************************************)
(* What PolicyStore's runs check on small instances, proved for every set  *)
(* of ids, secrets and threads and every bound.                            *)
(***************************************************************************)
EXTENDS PolicyStore, TLAPS

USE IdsExist, NoKeyIsNone, SeedIsKeys, SharedIsBoolean, BoundsAreNaturals, HoldersDiffer

LEMMA IdleStates ==
    /\ NoKeys \in KeyMaps
    /\ NoUsage \in Ledgers
    /\ IdleAdmin \in AdminStates
    /\ IdleHost \in HostStates
    /\ NoLoop \in LoopStates
    /\ IdleBill \in BillStates
<1>1. NoKeys \in KeyMaps /\ NoUsage \in Ledgers
  BY DEF NoKeys, KeyMaps, NoUsage, Ledgers
<1>2. (CHOOSE id \in Ids : TRUE) \in Ids
  OBVIOUS
<1>3. IdleAdmin \in AdminStates
  BY <1>1, <1>2 DEF IdleAdmin, AdminStates
<1>4. QED
  BY <1>1, <1>2, <1>3 DEF IdleHost, HostStates, NoLoop, LoopStates, IdleBill, BillStates

LEMMA FaultTyped == TypeOK /\ Fault => faults' \in 0..MaxFaults
BY DEF TypeOK, Fault

LEMMA FreshTyped ==
    ASSUME TypeOK, FreshMemory
    PROVE  /\ keys' \in KeyMaps /\ usage' \in Ledgers
           /\ configured' \in {"none", "default", "host"} /\ flusher' \in BOOLEAN
           /\ disk' \in [present : BOOLEAN, keys : KeyMaps, usage : Ledgers]
           /\ updateMu' \in Admins \cup {Host, NoOne}
           /\ admin' \in [Admins -> AdminStates]
           /\ host' \in HostStates /\ loop' \in LoopStates
           /\ bill' \in [Billers -> BillStates]
           /\ dirty' \in BOOLEAN
<1>1. disk \in [present : BOOLEAN, keys : KeyMaps, usage : Ledgers]
  BY DEF TypeOK
<1>2. /\ keys' \in {NoKeys, disk.keys} /\ usage' \in {NoUsage, disk.usage}
      /\ dirty' \in BOOLEAN /\ configured' \in {"none", "default", "host"}
  BY DEF FreshMemory, NewApp
<1>3. disk' = disk \/ disk' = [present |-> TRUE, keys |-> NoKeys, usage |-> NoUsage]
  BY DEF FreshMemory, NewApp, SaveState
<1>4. disk' \in [present : BOOLEAN, keys : KeyMaps, usage : Ledgers]
  <2>1. NoKeys \in KeyMaps /\ NoUsage \in Ledgers
    BY IdleStates
  <2>2. [present |-> TRUE, keys |-> NoKeys, usage |-> NoUsage]
          \in [present : BOOLEAN, keys : KeyMaps, usage : Ledgers]
    BY <2>1
  <2>3. QED
    BY <1>1, <1>3, <2>2
<1>5. QED
  BY <1>1, <1>2, <1>4, IdleStates DEF FreshMemory

\* A change of one key leaves every typed variable typed.
LEMMA ChangeTyped ==
    ASSUME TypeOK, NEW a \in Admins, NEW id \in Ids, NEW new \in KeyRecords \cup {NoKey},
           NEW pc \in {"reset", "save"}, NEW grants \in SUBSET Credentials,
           Change(a, id, new, pc, grants), ops' \in 0..MaxOps
    PROVE  TypeOK'
<1>1. KeysSnapshot(id, new) \in KeyMaps
  BY DEF TypeOK, KeysSnapshot, KeyMaps
<1>2. Withdrawn(id, new) \in SUBSET Credentials
  BY DEF Withdrawn
<1>3. admin' \in [Admins -> AdminStates]
  BY <1>1, <1>2 DEF TypeOK, Change, AdminStates
<1>4. keys' \in KeyMaps
  BY DEF TypeOK, Change, KeyMaps
<1>5. QED
  BY <1>3, <1>4 DEF TypeOK, Change

LEMMA CredentialsOf == ASSUME NEW id, NEW k PROVE CredentialOf(id, k) \in SUBSET Credentials
BY DEF CredentialOf

LEMMA TypeInit == Init => TypeOK
<1>1. 0 \in 0..MaxOps /\ 0 \in 0..MaxCosts /\ 0 \in 0..MaxFaults /\ 0 \in 0..MaxCalls
  BY SMT
<1>2. Init => disk \in [present : BOOLEAN, keys : KeyMaps, usage : Ledgers]
  BY IdleStates DEF Init
<1>3. QED
  BY <1>1, <1>2, IdleStates DEF Init, TypeOK

LEMMA TypeArrive == ASSUME TypeOK, NEW a \in Admins, Arrive(a) PROVE TypeOK'
<1>1. ASSUME NEW id \in Ids, NEW s \in Secrets, CreateKey(a, id, s) PROVE TypeOK'
  <2>1. [secret |-> s, enabled |-> TRUE] \in KeyRecords
    BY DEF KeyRecords
  <2>2. ops' \in 0..MaxOps
    BY <1>1 DEF CreateKey, Request, TypeOK
  <2>3. QED
    BY <1>1, <2>1, <2>2, ChangeTyped, CredentialsOf DEF CreateKey
<1>2. ASSUME NEW id \in Ids, NEW s \in Secrets, RotateKey(a, id, s) PROVE TypeOK'
  <2>1. [keys[id] EXCEPT !.secret = s] \in KeyRecords
    BY <1>2 DEF RotateKey, TypeOK, KeyMaps, KeyRecords
  <2>2. ops' \in 0..MaxOps
    BY <1>2 DEF RotateKey, Request, TypeOK
  <2>3. QED
    BY <1>2, <2>1, <2>2, ChangeTyped, CredentialsOf DEF RotateKey
<1>3. ASSUME NEW id \in Ids, DeleteKey(a, id) PROVE TypeOK'
  <2>1. ops' \in 0..MaxOps
    BY <1>3 DEF DeleteKey, Request, TypeOK
  <2>2. QED
    BY <1>3, <2>1, ChangeTyped DEF DeleteKey
<1>4. ASSUME NEW id \in Ids, PatchKey(a, id) PROVE TypeOK'
  <2>1. ops' \in 0..MaxOps
    BY <1>4 DEF PatchKey, Request, TypeOK
  <2>2. keys[id] \in KeyRecords
    BY <1>4 DEF PatchKey, TypeOK, KeyMaps
  <2>3. PICK new \in {keys[id]} \cup {[keys[id] EXCEPT !.enabled = e] : e \in BOOLEAN}
                                \cup {[keys[id] EXCEPT !.secret = s] : s \in Secrets} :
          /\ admin' = [admin EXCEPT ![a] = [@ EXCEPT !.pc = "patch", !.id = id, !.new = new]]
          /\ revoked' \in SUBSET revoked
          /\ firm' \in SUBSET firm
    BY <1>4 DEF PatchKey
  <2>4. new \in KeyRecords
    BY <2>2, <2>3 DEF KeyRecords
  <2>5. admin' \in [Admins -> AdminStates]
    <3>0. admin[a] \in AdminStates
      BY DEF TypeOK
    <3>1. [admin[a] EXCEPT !.pc = "patch", !.id = id, !.new = new] \in AdminStates
      BY <2>4, <3>0 DEF AdminStates
    <3>2. QED
      BY <2>3, <3>1 DEF TypeOK
  <2>6. QED
    BY <1>4, <2>1, <2>3, <2>5 DEF PatchKey, TypeOK, memory
<1>5. QED
  BY <1>1, <1>2, <1>3, <1>4 DEF Arrive

LEMMA TypeProceed == ASSUME TypeOK, NEW a \in Admins, Proceed(a) PROVE TypeOK'
<1>1. admin[a] \in AdminStates
  BY DEF TypeOK
<1>2. CASE PatchUpsert(a)
  <2>1. admin[a].id \in Ids /\ admin[a].new \in KeyRecords \cup {NoKey}
    BY <1>1 DEF AdminStates
  <2>2. QED
    BY <1>2, <2>1, ChangeTyped DEF PatchUpsert, TypeOK
<1>3. CASE ResetUsage(a)
  <2>1. usage' \in Ledgers
    BY <1>1, <1>3 DEF ResetUsage, TypeOK, Ledgers, AdminStates
  <2>2. admin' \in [Admins -> AdminStates]
    BY <1>3 DEF ResetUsage, TypeOK, AdminStates
  <2>3. QED
    BY <1>3, <2>1, <2>2 DEF ResetUsage, TypeOK, history, bounds
<1>4. CASE Saved(a)
  <2>1. admin' \in [Admins -> AdminStates]
    BY <1>4, IdleStates DEF Saved, TypeOK
  <2>2. disk' \in [present : BOOLEAN, keys : KeyMaps, usage : Ledgers]
    BY <1>1, <1>4 DEF Saved, SaveState, AdminStates
  <2>3. revoked' \in SUBSET Credentials /\ firm' \in SUBSET Credentials
    BY <1>1, <1>4 DEF Saved, AdminStates, TypeOK
  <2>4. QED
    BY <1>4, <2>1, <2>2, <2>3 DEF Saved, TypeOK, memory, bounds
<1>5. CASE SaveFailed(a)
  BY <1>5, IdleStates, FaultTyped DEF SaveFailed, TypeOK, memory, history
<1>6. QED
  BY <1>2, <1>3, <1>4, <1>5 DEF Proceed

LEMMA TypeBilling ==
    ASSUME TypeOK, NEW b \in Billers,
           (\E id \in Ids : FindByID(b, id)) \/ RuntimeComponents(b) \/ RecordCost(b)
    PROVE  TypeOK'
<1>1. bill[b] \in BillStates
  BY DEF TypeOK
<1>2. ASSUME NEW id \in Ids, FindByID(b, id) PROVE TypeOK'
  <2>1. [bill[b] EXCEPT !.pc = "found", !.id = id] \in BillStates
    BY <1>1 DEF BillStates
  <2>2. costs \in 0..MaxCosts /\ costs < MaxCosts /\ costs' = costs + 1
    BY <1>2 DEF FindByID, TypeOK
  <2>3. costs' \in 0..MaxCosts
    BY <2>2
  <2>4. QED
    BY <1>2, <2>1, <2>3 DEF FindByID, TypeOK, memory, history
<1>3. CASE RuntimeComponents(b)
  <2>1. [bill[b] EXCEPT !.pc = "record", !.current = TRUE] \in BillStates
    BY <1>1 DEF BillStates
  <2>2. QED
    BY <1>3, <2>1 DEF RuntimeComponents, TypeOK, memory, history, bounds
<1>4. CASE RecordCost(b)
  <2>1. usage' \in Ledgers
    BY <1>1, <1>4 DEF RecordCost, TypeOK, Ledgers, BillStates
  <2>2. QED
    BY <1>4, <2>1, IdleStates DEF RecordCost, TypeOK, history, bounds
<1>5. QED
  BY <1>2, <1>3, <1>4

LEMMA TypeLoop ==
    ASSUME TypeOK, Tick \/ FlushSnapshot \/ Flushed \/ FlushFailed \/ Exit
    PROVE  TypeOK'
<1>1. CASE Tick
  BY <1>1 DEF Tick, TypeOK, LoopStates, memory, history, bounds
<1>2. CASE FlushSnapshot
  BY <1>2 DEF FlushSnapshot, TypeOK, LoopStates, memory, history, bounds
<1>3. CASE Flushed
  BY <1>3 DEF Flushed, SaveUsageOnly, TypeOK, LoopStates, memory, history, bounds
<1>4. CASE FlushFailed
  BY <1>4, FaultTyped DEF FlushFailed, TypeOK, LoopStates, memory, history
<1>5. CASE Exit
  BY <1>5, IdleStates DEF Exit, TypeOK, memory, history, bounds
<1>6. QED
  BY <1>1, <1>2, <1>3, <1>4, <1>5

LEMMA TypeInstall ==
    ASSUME TypeOK, NEW ks \in KeyMaps, NEW us \in Ledgers, Install(ks, us)
    PROVE  /\ keys' \in KeyMaps /\ usage' \in Ledgers /\ configured' \in {"none", "default", "host"}
           /\ bill' \in [Billers -> BillStates]
<1>1. ASSUME NEW b \in Billers PROVE [bill[b] EXCEPT !.current = FALSE] \in BillStates
  BY DEF TypeOK, BillStates
<1>2. QED
  BY <1>1 DEF Install

LEMMA TypeLifecycle ==
    ASSUME TypeOK, Configure \/ Shutdown \/ LifecycleStep \/ Crash
    PROVE  TypeOK'
<1>1. CASE Configure
  <2>1. calls' \in 0..MaxCalls
    BY <1>1 DEF Configure, TypeOK
  <2>2. QED
    BY <1>1, <2>1 DEF Configure, TypeOK, HostStates, memory, history
<1>2. CASE Shutdown
  <2>1. calls' \in 0..MaxCalls
    BY <1>2 DEF Shutdown, TypeOK
  <2>2. QED
    BY <1>2, <2>1 DEF Shutdown, TypeOK, HostStates, memory, history
<1>3. CASE Detach
  BY <1>3 DEF Detach, TypeOK, HostStates, LoopStates, history, bounds
<1>4. CASE Await \/ HostSnapshot
  BY <1>4 DEF Await, HostSnapshot, TypeOK, HostStates, memory, history, bounds
<1>5. CASE HostFlushed
  BY <1>5 DEF HostFlushed, SaveUsageOnly, TypeOK, HostStates, memory, history, bounds
<1>6. CASE HostFlushFailed \/ LoadFailed \/ SeedFailed
  BY <1>6, FaultTyped DEF HostFlushFailed, LoadFailed, SeedFailed, TypeOK, HostStates, memory, history
<1>7. CASE Unload
  BY <1>7, FreshTyped DEF Unload, TypeOK, bounds
<1>8. CASE InstallState
  BY <1>8, TypeInstall DEF InstallState, TypeOK, HostStates, bounds
<1>9. CASE InstallSeed
  BY <1>9, TypeInstall, IdleStates DEF InstallSeed, TypeOK, HostStates, bounds
<1>10. CASE SeedSaved
  BY <1>10 DEF SeedSaved, SaveState, TypeOK, HostStates, memory, bounds
<1>11. CASE StartUsageFlusher
  BY <1>11, IdleStates DEF StartUsageFlusher, TypeOK, HostStates, LoopStates, history, bounds
<1>12. CASE Crash
  BY <1>12, FreshTyped, FaultTyped DEF Crash, TypeOK
<1>13. QED
  BY <1>1, <1>2, <1>3, <1>4, <1>5, <1>6, <1>7, <1>8, <1>9, <1>10, <1>11, <1>12 DEF LifecycleStep

LEMMA TypeNext == ASSUME TypeOK, Next PROVE TypeOK'
BY TypeArrive, TypeProceed, TypeBilling, TypeLoop, TypeLifecycle DEF Next

\* Every reachable state is well typed.
THEOREM TypeCorrect == Spec => []TypeOK
<1>1. TypeOK /\ [Next]_vars => TypeOK'
  <2>1. ASSUME TypeOK, UNCHANGED vars PROVE TypeOK'
    BY <2>1 DEF TypeOK, vars, memory, history, bounds
  <2>2. QED
    BY <2>1, TypeNext
<1>2. QED
  BY <1>1, TypeInit, PTL DEF Spec
----------------------------------------------------------------------------
(***************************************************************************)
(* The inductive invariant behind RevokedStaysRevoked.  The property alone *)
(* is not inductive: a write may bring back what the file lost unless the  *)
(* writer's snapshot is current, and a patch may unless what it carries is *)
(* exempt.                                                                 *)
(***************************************************************************)
PatchesExempt == firm \cap Held = {}
SeedOnlyBeforeRevocations == firm # {} => disk.present
IInv == /\ TypeOK
        /\ WritersHoldCurrentKeys
        /\ PatchesExempt
        /\ SeedOnlyBeforeRevocations
        /\ RevokedStaysRevoked

LEMMA AcceptedNoKeys == Accepted(NoKeys) = {}
BY DEF Accepted, NoKeys, LetsIn, Credentials

\* Changing one key lets in nothing but the new key's own credential.
LEMMA AcceptedEdit ==
    ASSUME NEW m \in KeyMaps, NEW id \in Ids, NEW new \in KeyRecords \cup {NoKey}
    PROVE  Accepted([m EXCEPT ![id] = new]) \subseteq Accepted(m) \cup CredentialOf(id, new)
BY DEF Accepted, CredentialOf, KeyMaps, Credentials

\* What a change takes away is not let in once it is made.
LEMMA WithdrawnGone ==
    ASSUME NEW id \in Ids, NEW new \in KeyRecords \cup {NoKey}, TypeOK
    PROVE  Withdrawn(id, new) \cap Accepted([keys EXCEPT ![id] = new]) = {}
BY DEF Withdrawn, Accepted, TypeOK, KeyMaps

\* Held depends on the management requests alone.
LEMMA HeldSame == ASSUME admin' = admin PROVE Held' = Held
BY DEF Held

LEMMA FreshInv ==
    ASSUME IInv, TypeOK', FreshMemory, UNCHANGED firm
    PROVE  IInv'
<1>1. Held' = {}
  BY DEF FreshMemory, IdleAdmin, Held
<1>2. \A a \in Admins : admin'[a].pc = "idle"
  BY DEF FreshMemory, IdleAdmin
<1>3. host'.pc = "idle"
  BY DEF FreshMemory, IdleHost
<1>4. WritersHoldCurrentKeys'
  BY <1>2, <1>3 DEF WritersHoldCurrentKeys, Reconfiguring
<1>5. /\ keys' \in {NoKeys, disk.keys} /\ disk'.keys \in {NoKeys, disk.keys}
      /\ disk.present => disk'.present
  BY DEF FreshMemory, NewApp, SaveState
<1>6. RevokedStaysRevoked'
  BY <1>5, AcceptedNoKeys DEF IInv, RevokedStaysRevoked
<1>7. QED
  BY <1>1, <1>4, <1>5, <1>6 DEF IInv, PatchesExempt, SeedOnlyBeforeRevocations

\* No one else is about to write while updateMu is free.
LEMMA NoWriters ==
    ASSUME IInv, updateMu = NoOne
    PROVE  /\ \A a \in Admins : admin[a].pc \notin {"reset", "save"}
           /\ ~Reconfiguring
BY DEF IInv, WritersHoldCurrentKeys

LEMMA NoOtherWriters ==
    ASSUME IInv, NEW a \in Admins, updateMu = a
    PROVE  /\ \A o \in Admins \ {a} : admin[o].pc \notin {"reset", "save"}
           /\ ~Reconfiguring
BY DEF IInv, WritersHoldCurrentKeys

\* A change keeps the invariant when what it lets in was asked for or is
\* carried by a patch.
LEMMA ChangeInv ==
    ASSUME IInv, TypeOK', NEW a \in Admins, NEW id \in Ids, NEW new \in KeyRecords \cup {NoKey},
           NEW pc \in {"reset", "save"}, NEW grants,
           Change(a, id, new, pc, grants),
           CredentialOf(id, new) \subseteq grants \cup Held
    PROVE  IInv'
<1>1. keys' = [keys EXCEPT ![id] = new] /\ admin'[a].keys = keys' /\ updateMu' = a
  BY DEF Change, KeysSnapshot, IInv, TypeOK
<1>2. \A o \in Admins \ {a} : admin'[o] = admin[o]
  BY DEF Change, IInv, TypeOK
<1>3. admin'[a].pc = pc /\ admin'[a].revokes = Withdrawn(id, new)
  BY DEF Change, IInv, TypeOK
<1>4. Held' \subseteq Held
  BY <1>2, <1>3 DEF Held
<1>5. firm' = firm \ grants /\ disk' = disk /\ host' = host
  BY DEF Change
<1>6. PatchesExempt'
  BY <1>4, <1>5 DEF IInv, PatchesExempt
<1>7. Accepted(keys') \subseteq Accepted(keys) \cup CredentialOf(id, new)
  BY <1>1, AcceptedEdit DEF IInv, TypeOK
<1>8. RevokedStaysRevoked'
  BY <1>5, <1>7 DEF IInv, PatchesExempt, RevokedStaysRevoked
<1>9. WritersHoldCurrentKeys'
  <2>1. updateMu = NoOne
    BY DEF Change
  <2>2. \A o \in Admins \ {a} : admin'[o].pc \notin {"reset", "save"}
    BY <1>2, <2>1, NoWriters
  <2>3. admin'[a].revokes \cap Accepted(keys') = {}
    BY <1>1, <1>3, WithdrawnGone DEF IInv
  <2>4. ~Reconfiguring' /\ host'.pc # "seed"
    BY <1>5, <2>1, NoWriters DEF Reconfiguring
  <2>5. QED
    BY <1>1, <2>2, <2>3, <2>4 DEF WritersHoldCurrentKeys
<1>10. QED
  BY <1>5, <1>6, <1>8, <1>9 DEF IInv, SeedOnlyBeforeRevocations

LEMMA InvInit == ASSUME Init PROVE IInv
<1>1. TypeOK
  BY TypeInit
<1>2. \A a \in Admins : admin[a].pc = "idle"
  BY DEF Init, IdleAdmin
<1>3. host.pc = "idle" /\ firm = {}
  BY DEF Init, IdleHost
<1>4. QED
  BY <1>1, <1>2, <1>3
  DEF IInv, WritersHoldCurrentKeys, Reconfiguring, PatchesExempt, SeedOnlyBeforeRevocations,
      RevokedStaysRevoked

LEMMA InvArrive == ASSUME IInv, TypeOK', NEW a \in Admins, Arrive(a) PROVE IInv'
<1>1. ASSUME NEW id \in Ids, NEW s \in Secrets, CreateKey(a, id, s) PROVE IInv'
  <2>1. [secret |-> s, enabled |-> TRUE] \in KeyRecords
    BY DEF KeyRecords
  <2>2. QED
    BY <1>1, <2>1, ChangeInv DEF CreateKey
<1>2. ASSUME NEW id \in Ids, NEW s \in Secrets, RotateKey(a, id, s) PROVE IInv'
  <2>1. [keys[id] EXCEPT !.secret = s] \in KeyRecords
    BY <1>2 DEF RotateKey, IInv, TypeOK, KeyMaps, KeyRecords
  <2>2. QED
    BY <1>2, <2>1, ChangeInv DEF RotateKey
<1>3. ASSUME NEW id \in Ids, DeleteKey(a, id) PROVE IInv'
  <2>1. CredentialOf(id, NoKey) = {}
    BY DEF CredentialOf, LetsIn
  <2>2. QED
    BY <1>3, <2>1, ChangeInv DEF DeleteKey
<1>4. ASSUME NEW id \in Ids, PatchKey(a, id) PROVE IInv'
  <2>1. PICK new \in {keys[id]} \cup {[keys[id] EXCEPT !.enabled = e] : e \in BOOLEAN}
                                \cup {[keys[id] EXCEPT !.secret = s] : s \in Secrets} :
          LET grants == IF new = keys[id] THEN {} ELSE CredentialOf(id, new)
          IN  /\ admin' = [admin EXCEPT ![a] = [@ EXCEPT !.pc = "patch", !.id = id, !.new = new]]
              /\ firm' = firm \ grants
    BY <1>4 DEF PatchKey
  <2>2. firm' \subseteq firm /\ firm' \cap CredentialOf(id, new) = {}
    <3>1. CredentialOf(id, keys[id]) \subseteq Accepted(keys)
      BY DEF CredentialOf, Accepted, Credentials
    <3>2. QED
      BY <2>1, <3>1 DEF IInv, RevokedStaysRevoked
  <2>3. admin[a] \in AdminStates
    BY DEF IInv, TypeOK
  <2>4. admin'[a].pc = "patch" /\ admin'[a].id = id /\ admin'[a].new = new
    BY <2>1, <2>3 DEF AdminStates, IInv, TypeOK
  <2>5. \A o \in Admins \ {a} : admin'[o] = admin[o]
    BY <2>1 DEF IInv, TypeOK
  <2>6. Held' \subseteq Held \cup CredentialOf(id, new)
    BY <2>4, <2>5 DEF Held, CredentialOf
  <2>7. PatchesExempt'
    BY <2>2, <2>6 DEF IInv, PatchesExempt
  <2>8. keys' = keys /\ disk' = disk /\ updateMu' = updateMu /\ host' = host
    BY <1>4 DEF PatchKey, memory
  <2>9. WritersHoldCurrentKeys'
    BY <2>4, <2>5, <2>8 DEF IInv, WritersHoldCurrentKeys, Reconfiguring
  <2>10. QED
    BY <2>2, <2>7, <2>8, <2>9 DEF IInv, RevokedStaysRevoked, SeedOnlyBeforeRevocations
<1>5. QED
  BY <1>1, <1>2, <1>3, <1>4 DEF Arrive

LEMMA InvProceed == ASSUME IInv, TypeOK', NEW a \in Admins, Proceed(a) PROVE IInv'
<1>1. admin[a] \in AdminStates /\ admin \in [Admins -> AdminStates]
  BY DEF IInv, TypeOK
<1>2. CASE PatchUpsert(a)
  <2>1. admin[a].id \in Ids /\ admin[a].new \in KeyRecords \cup {NoKey}
    BY <1>1 DEF AdminStates
  <2>2. CredentialOf(admin[a].id, admin[a].new) \subseteq Held
    BY <1>2 DEF PatchUpsert, Held, CredentialOf
  <2>3. QED
    BY <1>2, <2>1, <2>2, ChangeInv DEF PatchUpsert
<1>3. CASE ResetUsage(a)
  <2>1. admin'[a].pc = "save" /\ admin'[a].keys = admin[a].keys
          /\ admin'[a].revokes = admin[a].revokes
    BY <1>1, <1>3 DEF ResetUsage, AdminStates
  <2>2. \A o \in Admins \ {a} : admin'[o] = admin[o]
    BY <1>1, <1>3 DEF ResetUsage
  <2>3. keys' = keys /\ disk' = disk /\ updateMu' = updateMu /\ host' = host /\ firm' = firm
    BY <1>3 DEF ResetUsage, history
  <2>4. WritersHoldCurrentKeys'
    BY <1>3, <2>1, <2>2, <2>3 DEF ResetUsage, IInv, WritersHoldCurrentKeys, Reconfiguring
  <2>5. Held' \subseteq Held
    BY <2>1, <2>2 DEF Held
  <2>6. QED
    BY <2>3, <2>4, <2>5
    DEF IInv, PatchesExempt, SeedOnlyBeforeRevocations, RevokedStaysRevoked
<1>4. CASE Saved(a) \/ SaveFailed(a)
  <2>1. updateMu = a /\ admin[a].keys = keys /\ admin[a].revokes \cap Accepted(keys) = {}
    BY <1>4 DEF Saved, SaveFailed, IInv, WritersHoldCurrentKeys
  <2>2. admin'[a].pc = "idle"
    BY <1>1, <1>4 DEF Saved, SaveFailed, IdleAdmin
  <2>3. \A o \in Admins \ {a} : admin'[o] = admin[o]
    BY <1>1, <1>4 DEF Saved, SaveFailed
  <2>4. keys' = keys /\ host' = host
    BY <1>4 DEF Saved, SaveFailed, memory
  <2>5. \A o \in Admins : admin'[o].pc \notin {"reset", "save"}
    BY <2>1, <2>2, <2>3, NoOtherWriters
  <2>6. ~Reconfiguring' /\ host'.pc # "seed"
    BY <2>1, <2>4, NoOtherWriters DEF Reconfiguring
  <2>7. WritersHoldCurrentKeys'
    BY <2>5, <2>6 DEF WritersHoldCurrentKeys
  <2>8. Held' \subseteq Held
    BY <2>2, <2>3 DEF Held
  <2>9. CASE Saved(a)
    <3>1. firm' = (firm \cup admin[a].revokes) \ Held
      BY <2>9 DEF Saved
    <3>2. disk'.present /\ disk'.keys = keys
      BY <2>1, <2>9 DEF Saved, SaveState
    <3>3. RevokedStaysRevoked'
      BY <2>1, <2>4, <3>1, <3>2 DEF IInv, RevokedStaysRevoked
    <3>4. QED
      BY <2>7, <2>8, <3>1, <3>2, <3>3 DEF IInv, PatchesExempt, SeedOnlyBeforeRevocations
  <2>10. CASE SaveFailed(a)
    <3>1. disk' = disk /\ firm' = firm
      BY <2>10 DEF SaveFailed, history
    <3>2. QED
      BY <2>4, <2>7, <2>8, <3>1
      DEF IInv, PatchesExempt, SeedOnlyBeforeRevocations, RevokedStaysRevoked
  <2>11. QED
    BY <1>4, <2>9, <2>10
<1>5. QED
  BY <1>2, <1>3, <1>4 DEF Proceed

\* A usage flush leaves the keys of the file alone, and a step that changes
\* neither keys nor requests keeps the invariant.
LEMMA UsageInv ==
    ASSUME IInv, TypeOK', UNCHANGED <<keys, admin, updateMu, firm>>,
           disk'.keys = disk.keys, disk.present => disk'.present,
           Reconfiguring' => Reconfiguring, host'.pc = "seed" => host.pc = "seed"
    PROVE  IInv'
<1>1. Held' = Held
  BY HeldSame
<1>2. WritersHoldCurrentKeys'
  BY DEF IInv, WritersHoldCurrentKeys
<1>3. QED
  BY <1>1, <1>2 DEF IInv, PatchesExempt, SeedOnlyBeforeRevocations, RevokedStaysRevoked

LEMMA InvBilling ==
    ASSUME IInv, TypeOK', NEW b \in Billers,
           (\E id \in Ids : FindByID(b, id)) \/ RuntimeComponents(b) \/ RecordCost(b)
    PROVE  IInv'
BY UsageInv
DEF FindByID, RuntimeComponents, RecordCost, memory, history, Reconfiguring

LEMMA InvLoop ==
    ASSUME IInv, TypeOK', Tick \/ FlushSnapshot \/ Flushed \/ FlushFailed \/ Exit
    PROVE  IInv'
<1>1. disk \in [present : BOOLEAN, keys : KeyMaps, usage : Ledgers]
  BY DEF IInv, TypeOK
<1>2. UNCHANGED <<keys, admin, updateMu, firm, host>>
  BY DEF Tick, FlushSnapshot, Flushed, FlushFailed, Exit, memory, history
<1>3. disk'.keys = disk.keys /\ (disk.present => disk'.present)
  BY <1>1 DEF Tick, FlushSnapshot, Flushed, FlushFailed, Exit, SaveUsageOnly
<1>4. QED
  BY <1>2, <1>3, UsageInv DEF Reconfiguring

LEMMA InvLifecycle ==
    ASSUME IInv, TypeOK', Configure \/ Shutdown \/ LifecycleStep \/ Crash
    PROVE  IInv'
<1>1. disk \in [present : BOOLEAN, keys : KeyMaps, usage : Ledgers] /\ host \in HostStates
  BY DEF IInv, TypeOK
<1>2. CASE Configure
  <2>1. updateMu = NoOne /\ updateMu' = Host
    BY <1>2 DEF Configure
  <2>2. \A a \in Admins : admin[a].pc \notin {"reset", "save"}
    BY <2>1, NoWriters
  <2>3. UNCHANGED <<keys, admin, disk, firm>> /\ host'.pc = "detach"
    BY <1>1, <1>2 DEF Configure, HostStates, memory, history
  <2>4. WritersHoldCurrentKeys'
    BY <2>1, <2>2, <2>3 DEF WritersHoldCurrentKeys
  <2>5. QED
    BY <2>3, <2>4, HeldSame
    DEF IInv, PatchesExempt, SeedOnlyBeforeRevocations, RevokedStaysRevoked
<1>3. CASE Shutdown
  <2>1. host'.pc = "detach" /\ host'.op = "shutdown"
    BY <1>1, <1>3 DEF Shutdown, HostStates
  <2>2. QED
    BY <1>3, <2>1, UsageInv DEF Shutdown, Reconfiguring, memory, history
<1>4. CASE Detach \/ Await \/ HostSnapshot \/ HostFlushFailed \/ HostFlushed
  <2>1. host'.op = host.op /\ host'.pc \in {"await", "snapshot", "write", "install"}
    BY <1>1, <1>4 DEF Detach, Await, HostSnapshot, HostFlushFailed, HostFlushed, HostStates
  <2>2. host.pc \in {"detach", "await", "snapshot", "write"}
    BY <1>4 DEF Detach, Await, HostSnapshot, HostFlushFailed, HostFlushed
  <2>3. UNCHANGED <<keys, admin, updateMu, firm>>
    BY <1>4 DEF Detach, Await, HostSnapshot, HostFlushFailed, HostFlushed, memory, history
  <2>4. disk'.keys = disk.keys /\ (disk.present => disk'.present)
    BY <1>1, <1>4 DEF Detach, Await, HostSnapshot, HostFlushFailed, HostFlushed, SaveUsageOnly
  <2>5. QED
    BY <2>1, <2>2, <2>3, <2>4, UsageInv DEF Reconfiguring
<1>5. CASE Unload
  BY <1>5, FreshInv DEF Unload
<1>6. CASE Crash
  BY <1>6, FreshInv DEF Crash
<1>7. CASE InstallState \/ InstallSeed
  <2>1. updateMu = Host /\ \A a \in Admins : admin[a].pc \notin {"reset", "save"}
    BY <1>7 DEF InstallState, InstallSeed, IInv, WritersHoldCurrentKeys, Reconfiguring
  <2>2. UNCHANGED <<admin, disk, firm>>
    BY <1>7 DEF InstallState, InstallSeed
  <2>3. CASE InstallState
    <3>1. host'.pc = "start" /\ keys' = disk.keys
      BY <1>1, <2>3 DEF InstallState, Install, HostStates
    <3>2. WritersHoldCurrentKeys'
      BY <2>1, <2>2, <3>1 DEF WritersHoldCurrentKeys, Reconfiguring
    <3>3. QED
      BY <2>2, <3>1, <3>2, HeldSame
      DEF IInv, PatchesExempt, SeedOnlyBeforeRevocations, RevokedStaysRevoked
  <2>4. CASE InstallSeed
    <3>1. host'.pc = "seed" /\ keys' = Seed /\ updateMu' = Host
      BY <1>1, <2>1, <2>4 DEF InstallSeed, Install, HostStates
    <3>2. firm = {}
      BY <2>4 DEF InstallSeed, IInv, SeedOnlyBeforeRevocations
    <3>3. WritersHoldCurrentKeys'
      BY <2>1, <2>2, <3>1 DEF WritersHoldCurrentKeys
    <3>4. QED
      BY <2>2, <3>2, <3>3
      DEF IInv, PatchesExempt, SeedOnlyBeforeRevocations, RevokedStaysRevoked
  <2>5. QED
    BY <1>7, <2>3, <2>4
<1>8. CASE LoadFailed \/ SeedFailed \/ SeedSaved
  <2>1. updateMu = Host /\ \A a \in Admins : admin[a].pc \notin {"reset", "save"}
    BY <1>8 DEF LoadFailed, SeedFailed, SeedSaved, IInv, WritersHoldCurrentKeys, Reconfiguring
  <2>2. UNCHANGED <<keys, admin, firm>> /\ host'.pc \in {"idle", "start"}
    BY <1>1, <1>8 DEF LoadFailed, SeedFailed, SeedSaved, HostStates, memory, history
  <2>3. WritersHoldCurrentKeys'
    BY <2>1, <2>2 DEF WritersHoldCurrentKeys, Reconfiguring
  <2>4. (disk.present => disk'.present) /\ disk'.keys \in {disk.keys, keys}
    BY <1>8 DEF LoadFailed, SeedFailed, SeedSaved, SaveState, IInv, WritersHoldCurrentKeys
  <2>5. QED
    BY <2>2, <2>3, <2>4, HeldSame
    DEF IInv, PatchesExempt, SeedOnlyBeforeRevocations, RevokedStaysRevoked
<1>9. CASE StartUsageFlusher
  <2>1. host'.pc = "idle"
    BY <1>9 DEF StartUsageFlusher, IdleHost
  <2>2. QED
    BY <1>9, <2>1, UsageInv DEF StartUsageFlusher, Reconfiguring, history
<1>10. QED
  BY <1>2, <1>3, <1>4, <1>5, <1>6, <1>7, <1>8, <1>9 DEF LifecycleStep

LEMMA InvNext == IInv /\ [Next]_vars => IInv'
<1>1. ASSUME IInv, UNCHANGED vars PROVE IInv'
  <2>1. TypeOK'
    BY <1>1 DEF IInv, TypeOK, vars, memory, history, bounds
  <2>2. QED
    BY <1>1, <2>1, UsageInv DEF vars, memory, history, Reconfiguring
<1>2. ASSUME IInv, Next PROVE IInv'
  <2>1. TypeOK'
    BY <1>2, TypeNext DEF IInv
  <2>2. QED
    BY <1>2, <2>1, InvArrive, InvProceed, InvBilling, InvLoop, InvLifecycle DEF Next
<1>3. QED
  BY <1>1, <1>2

LEMMA Invariance == Spec => []IInv
BY InvInit, InvNext, PTL DEF Spec

\* No key that was firmly revoked is let in again by memory or by the file,
\* whatever is saved, flushed, reloaded or lost in a crash.
THEOREM RevocationHolds == Spec => []RevokedStaysRevoked
<1>1. IInv => RevokedStaysRevoked
  BY DEF IInv
<1>2. QED
  BY <1>1, Invariance, PTL

\* Holding updateMu from the change to the write keeps every writer's snapshot
\* current, so no two of them can write in the wrong order.
THEOREM WritersStayCurrent == Spec => []WritersHoldCurrentKeys
<1>1. IInv => WritersHoldCurrentKeys
  BY DEF IInv
<1>2. QED
  BY <1>1, Invariance, PTL
----------------------------------------------------------------------------
(***************************************************************************)
(* The store implements the abstract registry.                             *)
(***************************************************************************)
LEMMA MapsInit == Init => Registry!Init
BY DEF Init, Registry!Init, NoKeys, Registry!NoKeys

\* A change of a key is the registry's Edit, whoever makes it.
LEMMA ChangeIsEdit ==
    ASSUME IInv, NEW a, NEW id \in Ids, NEW new \in KeyRecords \cup {NoKey},
           NEW pc, NEW grants, Change(a, id, new, pc, grants)
    PROVE  Registry!Edit
BY DEF Change, Registry!Edit

LEMMA MapsArrive ==
    ASSUME IInv, NEW a \in Admins, Arrive(a) PROVE [Registry!Next]_(Registry!registry)
<1>1. ASSUME NEW id \in Ids, NEW s \in Secrets, CreateKey(a, id, s) \/ RotateKey(a, id, s)
      PROVE  Registry!Edit
  <2>1. [secret |-> s, enabled |-> TRUE] \in KeyRecords
    BY DEF KeyRecords
  <2>2. keys[id] # NoKey => [keys[id] EXCEPT !.secret = s] \in KeyRecords
    BY DEF IInv, TypeOK, KeyMaps, KeyRecords
  <2>3. QED
    BY <1>1, <2>1, <2>2, ChangeIsEdit DEF CreateKey, RotateKey
<1>2. ASSUME NEW id \in Ids, DeleteKey(a, id) PROVE Registry!Edit
  BY <1>2, ChangeIsEdit DEF DeleteKey
<1>3. ASSUME NEW id \in Ids, PatchKey(a, id) PROVE UNCHANGED Registry!registry
  BY <1>3 DEF PatchKey, memory, Registry!registry
<1>4. QED
  BY <1>1, <1>2, <1>3 DEF Arrive, Registry!Next

LEMMA MapsProceed ==
    ASSUME IInv, NEW a \in Admins, Proceed(a) PROVE [Registry!Next]_(Registry!registry)
<1>1. CASE PatchUpsert(a)
  <2>1. admin[a].id \in Ids /\ admin[a].new \in KeyRecords \cup {NoKey}
    BY DEF IInv, TypeOK, AdminStates
  <2>2. QED
    BY <1>1, <2>1, ChangeIsEdit DEF PatchUpsert, Registry!Next
<1>2. CASE Saved(a)
  <2>1. admin[a].keys = keys
    BY <1>2 DEF Saved, IInv, WritersHoldCurrentKeys
  <2>2. Registry!Persist
    BY <1>2, <2>1 DEF Saved, SaveState, memory, Registry!Persist
  <2>3. QED
    BY <2>2 DEF Registry!Next
<1>3. CASE ResetUsage(a) \/ SaveFailed(a)
  BY <1>3 DEF ResetUsage, SaveFailed, memory, history, Registry!registry
<1>4. QED
  BY <1>1, <1>2, <1>3 DEF Proceed

\* A usage flush that finds no file makes one without keys; any other is invisible.
LEMMA MapsFlush ==
    ASSUME IInv, NEW us, SaveUsageOnly(us), UNCHANGED <<keys, dirty>>
    PROVE  [Registry!Next]_(Registry!registry)
<1>1. disk \in [present : BOOLEAN, keys : KeyMaps, usage : Ledgers]
  BY DEF IInv, TypeOK
<1>2. disk'.present /\ disk'.keys = disk.keys
  BY <1>1 DEF SaveUsageOnly
<1>3. CASE disk.present
  BY <1>1, <1>2, <1>3 DEF Registry!registry
<1>4. CASE ~disk.present
  BY <1>1, <1>2, <1>4 DEF Registry!Blank, Registry!Next
<1>5. QED
  BY <1>3, <1>4

LEMMA MapsLifecycle ==
    ASSUME IInv, Configure \/ Shutdown \/ LifecycleStep \/ Crash
    PROVE  [Registry!Next]_(Registry!registry)
<1>1. CASE \/ Configure \/ Shutdown \/ Detach \/ Await \/ HostSnapshot \/ HostFlushFailed
           \/ LoadFailed \/ SeedFailed \/ StartUsageFlusher
  BY <1>1 DEF Configure, Shutdown, Detach, Await, HostSnapshot, HostFlushFailed, LoadFailed,
              SeedFailed, StartUsageFlusher, memory, history, Registry!registry
<1>2. CASE HostFlushed
  BY <1>2, MapsFlush DEF HostFlushed, memory, history
<1>3. CASE Unload \/ Crash
  <2>1. Registry!Restart \/ Registry!Reload
    BY <1>3 DEF Unload, Crash, FreshMemory, NewApp, SaveState, Registry!Restart, Registry!Reload,
                NoKeys, Registry!NoKeys
  <2>2. QED
    BY <2>1 DEF Registry!Next
<1>4. CASE InstallState
  BY <1>4 DEF InstallState, Install, Registry!Reload, Registry!Next
<1>5. CASE InstallSeed
  BY <1>5 DEF InstallSeed, Install, Registry!Boot, Registry!Next
<1>6. CASE SeedSaved
  <2>1. keys = Seed
    BY <1>6 DEF SeedSaved, IInv, WritersHoldCurrentKeys
  <2>2. Registry!Persist
    BY <1>6, <2>1 DEF SeedSaved, SaveState, memory, Registry!Persist
  <2>3. QED
    BY <2>2 DEF Registry!Next
<1>7. QED
  BY <1>1, <1>2, <1>3, <1>4, <1>5, <1>6 DEF LifecycleStep

LEMMA MapsNext == IInv /\ [Next]_vars => [Registry!Next]_(Registry!registry)
<1>1. ASSUME IInv, UNCHANGED vars PROVE UNCHANGED Registry!registry
  BY <1>1 DEF vars, memory, history, Registry!registry
<1>2. ASSUME IInv, NEW b \in Billers,
             (\E id \in Ids : FindByID(b, id)) \/ RuntimeComponents(b) \/ RecordCost(b)
      PROVE  UNCHANGED Registry!registry
  <2>1. UNCHANGED <<keys, disk, dirty>>
    BY <1>2 DEF FindByID, RuntimeComponents, RecordCost, memory, history
  <2>2. QED
    BY <2>1 DEF Registry!registry
<1>3. ASSUME IInv, Tick \/ FlushSnapshot \/ FlushFailed \/ Exit
      PROVE  UNCHANGED Registry!registry
  BY <1>3 DEF Tick, FlushSnapshot, FlushFailed, Exit, memory, history, Registry!registry
<1>4. ASSUME IInv, Flushed PROVE [Registry!Next]_(Registry!registry)
  BY <1>4, MapsFlush DEF Flushed, memory, history
<1>5. ASSUME IInv, Next PROVE [Registry!Next]_(Registry!registry)
  BY <1>2, <1>3, <1>4, <1>5, MapsArrive, MapsProceed, MapsLifecycle DEF Next
<1>6. QED
  BY <1>1, <1>5

\* Every behaviour of the store is one of the registry: keys reach the file
\* only by a complete write of what is in memory, and come from it only whole.
THEOREM StoreImplementsRegistry == Spec => ImplementsRegistry
BY MapsInit, MapsNext, Invariance, PTL DEF Spec, ImplementsRegistry, Registry!Spec

\* In the registry, the flag is up only while memory and file agree.
LEMMA AgreementStep == Registry!Agreement /\ [Registry!Next]_(Registry!registry)
                         => Registry!Agreement'
BY DEF Registry!Agreement, Registry!Next, Registry!registry, Registry!Edit, Registry!Persist,
       Registry!Reload, Registry!Boot, Registry!Blank, Registry!Restart

\* So whenever no change is waiting to be written, the state file exists and
\* holds exactly the keys in memory: a crash then loses none of them.
THEOREM CleanStoreIsOnDisk == Spec => []Registry!Agreement
<1>1. Registry!Init => Registry!Agreement
  BY DEF Registry!Init, Registry!Agreement
<1>2. QED
  BY <1>1, AgreementStep, StoreImplementsRegistry, PTL DEF ImplementsRegistry, Registry!Spec
----------------------------------------------------------------------------
(***************************************************************************)
(* A reload and the ledger.  While Configure holds updateMu no ledger entry *)
(* is reset, and once the flusher's goroutine has ended nobody but          *)
(* Configure writes: what it flushed is what it loads.                      *)
(***************************************************************************)
Covers(us, seen) == \A id \in Ids : us[id] >= seen[id]

FlusherEnds ==
    /\ ~flusher /\ host.pc # "await" => loop.pc = "off"
    /\ host.pc \in {"await", "snapshot", "write", "install", "seed", "start"} => ~flusher

ReloadCovers ==
    host.op = "configure" =>
      /\ host.pc \in {"detach", "await", "snapshot", "write"} => ~host.flushed
      /\ host.pc \in {"detach", "await", "snapshot"} => Covers(usage, host.seen)
      /\ host.pc = "write" => Covers(host.usage, host.seen)
      /\ host.pc = "install" /\ host.flushed => Covers(disk.usage, host.seen)

FlushKept == FlusherEnds /\ ReloadCovers

\* A step of nobody but the ledger's users leaves the lifecycle call alone.
LEMMA ReloadUndisturbed ==
    ASSUME FlushKept, UNCHANGED <<host, flusher>>,
           loop.pc = "off" => loop'.pc = "off",
           Reconfiguring => Covers(usage', usage) /\ UNCHANGED disk,
           TypeOK, TypeOK'
    PROVE  FlushKept'
<1>1. FlusherEnds'
  BY DEF FlushKept, FlusherEnds
<1>2. ASSUME host.op = "configure", host.pc \in {"detach", "await", "snapshot"}
      PROVE  Covers(usage', host.seen)
  <2>1. Covers(usage, host.seen) /\ Covers(usage', usage)
    BY <1>2 DEF FlushKept, ReloadCovers, Reconfiguring
  <2>2. \A id \in Ids : usage[id] \in Nat /\ usage'[id] \in Nat /\ host.seen[id] \in Nat
    BY DEF TypeOK, Ledgers, HostStates
  <2>3. QED
    BY <2>1, <2>2 DEF Covers
<1>3. host.op = "configure" /\ host.pc = "install" => UNCHANGED disk
  BY DEF Reconfiguring
<1>4. ReloadCovers'
  BY <1>2, <1>3 DEF FlushKept, ReloadCovers, Covers
<1>5. QED
  BY <1>1, <1>4 DEF FlushKept

LEMMA FlushKeptInit == Init => FlushKept
BY DEF Init, FlushKept, FlusherEnds, ReloadCovers, IdleHost, NoLoop

LEMMA FlushKeptFresh == FreshMemory => FlushKept'
BY DEF FreshMemory, FlushKept, FlusherEnds, ReloadCovers, IdleHost, NoLoop

LEMMA FlushKeptRequests ==
    ASSUME IInv, TypeOK', FlushKept, NEW a \in Admins, Arrive(a) \/ Proceed(a)
    PROVE  FlushKept'
<1>1. TypeOK /\ \A id \in Ids : usage[id] \in Nat
  BY DEF IInv, TypeOK, Ledgers
<1>2. CASE ResetUsage(a) \/ Saved(a)
  <2>1. ~Reconfiguring
    BY <1>2 DEF ResetUsage, Saved, IInv, WritersHoldCurrentKeys
  <2>2. UNCHANGED <<host, flusher, loop>>
    BY <1>2 DEF ResetUsage, Saved, memory
  <2>3. QED
    BY <1>1, <2>1, <2>2, ReloadUndisturbed
<1>3. CASE Arrive(a) \/ PatchUpsert(a) \/ SaveFailed(a)
  <2>1. UNCHANGED <<host, flusher, loop, usage, disk>>
    BY <1>3 DEF Arrive, CreateKey, RotateKey, DeleteKey, PatchKey, PatchUpsert, SaveFailed, Change, memory
  <2>2. Covers(usage', usage)
    BY <1>1, <2>1 DEF Covers
  <2>3. QED
    BY <1>1, <2>1, <2>2, ReloadUndisturbed
<1>4. QED
  BY <1>2, <1>3 DEF Proceed

LEMMA FlushKeptBilling ==
    ASSUME TypeOK, TypeOK', FlushKept, NEW b \in Billers,
           (\E id \in Ids : FindByID(b, id)) \/ RuntimeComponents(b) \/ RecordCost(b)
    PROVE  FlushKept'
<1>1. UNCHANGED <<host, flusher, loop, disk>>
  BY DEF FindByID, RuntimeComponents, RecordCost, memory
<1>2. \A id \in Ids : usage[id] \in Nat
  BY DEF TypeOK, Ledgers
<1>3. usage' = usage \/ usage' = [usage EXCEPT ![bill[b].id] = @ + (IF bill[b].current THEN 1 ELSE 0)]
  BY DEF FindByID, RuntimeComponents, RecordCost, memory
<1>4. Covers(usage', usage)
  <2>1. CASE usage' = usage
    BY <1>2, <2>1 DEF Covers
  <2>2. CASE usage' = [usage EXCEPT ![bill[b].id] = @ + (IF bill[b].current THEN 1 ELSE 0)]
    <3>1. usage \in Ledgers
      BY DEF TypeOK
    <3>2. \A id \in Ids : usage'[id] \in {usage[id], usage[id] + 1}
      BY <1>2, <2>2, <3>1 DEF Ledgers
    <3>3. QED
      BY <1>2, <3>2 DEF Covers
  <2>3. QED
    BY <1>3, <2>1, <2>2
<1>5. QED
  BY <1>1, <1>4, ReloadUndisturbed

\* The goroutine writes only while it runs, when no lifecycle call is past it.
LEMMA FlushKeptLoop ==
    ASSUME TypeOK, FlushKept, Tick \/ FlushSnapshot \/ Flushed \/ FlushFailed \/ Exit
    PROVE  FlushKept'
<1>1. UNCHANGED <<host, flusher, usage>>
  BY DEF Tick, FlushSnapshot, Flushed, FlushFailed, Exit, memory
<1>2. loop.pc # "off"
  BY DEF Tick, FlushSnapshot, Flushed, FlushFailed, Exit
<1>3. host.pc # "install"
  BY <1>2 DEF FlushKept, FlusherEnds
<1>4. FlusherEnds'
  BY <1>1, <1>2 DEF FlushKept, FlusherEnds
<1>5. ReloadCovers'
  BY <1>1, <1>3 DEF FlushKept, ReloadCovers, Covers
<1>6. QED
  BY <1>4, <1>5 DEF FlushKept

LEMMA FlushKeptLifecycle ==
    ASSUME TypeOK, FlushKept, Configure \/ Shutdown \/ LifecycleStep \/ Crash
    PROVE  FlushKept'
<1>1. \A id \in Ids : usage[id] \in Nat
  BY DEF TypeOK, Ledgers
<1> USE DEF FlushKept, FlusherEnds, ReloadCovers
<1>2. CASE Configure
  <2>1. /\ host'.pc = "detach" /\ host'.op = "configure" /\ ~host'.flushed /\ host'.seen = usage
        /\ UNCHANGED <<usage, flusher, loop>> /\ host.pc = "idle"
    BY <1>2 DEF Configure, memory, TypeOK, HostStates
  <2>2. Covers(usage', host'.seen)
    BY <1>1, <2>1 DEF Covers
  <2>3. QED
    BY <2>1, <2>2
<1>3. CASE Shutdown
  BY <1>3 DEF Shutdown, memory, TypeOK, HostStates
<1>4. CASE Detach
  <2>1. /\ host'.pc = IF flusher THEN "await" ELSE "snapshot"
        /\ host'.op = host.op /\ host'.flushed = host.flushed /\ host'.seen = host.seen
        /\ host.pc = "detach" /\ ~flusher' /\ loop'.pc = loop.pc /\ UNCHANGED usage
    BY <1>4 DEF Detach, TypeOK, HostStates, LoopStates
  <2>2. QED
    BY <2>1 DEF Covers
<1>5. CASE Await
  <2>1. /\ host'.pc = "snapshot" /\ host'.op = host.op /\ host'.flushed = host.flushed /\ host'.seen = host.seen
        /\ host.pc = "await" /\ loop.pc = "off" /\ UNCHANGED <<flusher, loop, usage>>
    BY <1>5 DEF Await, LoopDone, memory, TypeOK, HostStates
  <2>2. QED
    BY <2>1 DEF Covers
<1>6. CASE HostSnapshot
  <2>1. /\ host'.pc \in {"write", "install"} /\ host'.op = host.op /\ host'.flushed = host.flushed
        /\ host'.seen = host.seen /\ host'.usage = usage
        /\ host.pc = "snapshot" /\ UNCHANGED <<flusher, loop>>
    BY <1>6 DEF HostSnapshot, memory, TypeOK, HostStates
  <2>2. QED
    BY <2>1 DEF Covers
<1>7. CASE HostFlushed
  <2>1. /\ host'.pc = "install" /\ host'.op = host.op /\ host'.seen = host.seen
        /\ host.pc = "write" /\ disk'.usage = host.usage /\ UNCHANGED <<flusher, loop>>
    BY <1>7 DEF HostFlushed, SaveUsageOnly, memory, TypeOK, HostStates
  <2>2. QED
    BY <2>1 DEF Covers
<1>8. CASE HostFlushFailed
  <2>1. /\ host'.pc = "install" /\ host'.op = host.op /\ host'.flushed = host.flushed
        /\ host.pc = "write" /\ UNCHANGED <<flusher, loop>>
    BY <1>8 DEF HostFlushFailed, memory, TypeOK, HostStates
  <2>2. QED
    BY <2>1
<1>9. CASE InstallState \/ LoadFailed \/ InstallSeed \/ SeedSaved \/ SeedFailed
  <2>1. /\ host.pc \in {"install", "seed"} /\ host'.pc \in {"start", "idle", "seed"}
        /\ UNCHANGED <<flusher, loop>>
    BY <1>9 DEF InstallState, LoadFailed, InstallSeed, SeedSaved, SeedFailed, memory, TypeOK, HostStates
  <2>2. QED
    BY <2>1
<1>10. CASE StartUsageFlusher
  BY <1>10 DEF StartUsageFlusher, IdleHost
<1>11. CASE Unload \/ Crash
  BY <1>11, FlushKeptFresh DEF Unload, Crash
<1>12. QED
  BY <1>2, <1>3, <1>4, <1>5, <1>6, <1>7, <1>8, <1>9, <1>10, <1>11 DEF LifecycleStep

LEMMA FlushKeptNext == ASSUME IInv, IInv', FlushKept, [Next]_vars PROVE FlushKept'
<1>1. TypeOK /\ TypeOK'
  BY DEF IInv
<1>2. CASE UNCHANGED vars
  BY <1>2 DEF vars, memory, FlushKept, FlusherEnds, ReloadCovers, Covers
<1>3. CASE Next
  BY <1>1, <1>3, FlushKeptRequests, FlushKeptBilling, FlushKeptLoop, FlushKeptLifecycle DEF Next
<1>4. QED
  BY <1>2, <1>3

\* Only the load of a state file goes from there to the start of a flusher.
LEMMA StartsFromFile ==
    ASSUME TypeOK, Next, host.pc = "install", host'.pc = "start"
    PROVE  host.op = "configure" /\ usage' = disk.usage
<1>1. CASE \E a \in Admins : Arrive(a) \/ Proceed(a)
  <2>1. PICK a \in Admins : Arrive(a) \/ Proceed(a)
    BY <1>1
  <2>2. CASE Arrive(a)
    <3>1. PICK id \in Ids : \/ \E s \in Secrets : CreateKey(a, id, s) \/ RotateKey(a, id, s)
                           \/ DeleteKey(a, id)
                           \/ PatchKey(a, id)
      BY <2>2 DEF Arrive
    <3>2. QED
      BY <3>1 DEF CreateKey, RotateKey, DeleteKey, PatchKey, Change
  <2>3. CASE Proceed(a)
    BY <2>3 DEF Proceed, PatchUpsert, Change, ResetUsage, Saved, SaveFailed
  <2>4. QED
    BY <2>1, <2>2, <2>3
<1>2. CASE \E b \in Billers : (\E id \in Ids : FindByID(b, id)) \/ RuntimeComponents(b) \/ RecordCost(b)
  BY <1>2 DEF FindByID, RuntimeComponents, RecordCost
<1>3. CASE Tick \/ FlushSnapshot \/ Flushed \/ FlushFailed \/ Exit
  BY <1>3 DEF Tick, FlushSnapshot, Flushed, FlushFailed, Exit
<1>4. CASE Configure \/ Shutdown \/ Crash
  BY <1>4 DEF Configure, Shutdown, Crash, FreshMemory, IdleHost
<1>5. CASE LifecycleStep
  <2>1. CASE Detach \/ Await \/ HostSnapshot \/ HostFlushed \/ HostFlushFailed
    BY <2>1 DEF Detach, Await, HostSnapshot, HostFlushed, HostFlushFailed
  <2>2. CASE Unload \/ SeedSaved \/ SeedFailed \/ StartUsageFlusher
    BY <2>2 DEF Unload, FreshMemory, IdleHost, SeedSaved, SeedFailed, StartUsageFlusher
  <2>3. CASE LoadFailed \/ InstallSeed
    BY <2>3 DEF LoadFailed, InstallSeed, TypeOK, HostStates
  <2>4. CASE InstallState
    BY <2>4 DEF InstallState, Install
  <2>5. QED
    BY <1>5, <2>1, <2>2, <2>3, <2>4 DEF LifecycleStep
<1>6. QED
  BY <1>1, <1>2, <1>3, <1>4, <1>5 DEF Next

\* A reload whose flush succeeded keeps every cost that was in the ledger when
\* Configure got the lock, whatever requests, bills and the flusher's goroutine
\* did meanwhile.
THEOREM ReloadKeepsUsage == Spec => UsageSurvivesReload
<1> DEFINE Survives == host.pc = "install" /\ host'.pc = "start" /\ host.flushed
                         => \A id \in Ids : usage'[id] >= host.seen[id]
<1>1. Init => FlushKept
  BY FlushKeptInit
<1>2. IInv /\ IInv' /\ FlushKept /\ [Next]_vars => FlushKept'
  BY FlushKeptNext
<1>3. IInv /\ FlushKept /\ [Next]_vars => [Survives]_vars
  BY StartsFromFile DEF IInv, FlushKept, ReloadCovers, Covers
<1>4. Spec => [][Survives]_vars
  <2> HIDE DEF Survives
  <2>1. QED
    BY <1>1, <1>2, <1>3, Invariance, PTL DEF Spec
<1>5. QED
  BY <1>4 DEF UsageSurvivesReload
=============================================================================
