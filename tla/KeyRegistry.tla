---------------------------- MODULE KeyRegistry ----------------------------
(***************************************************************************)
(* What the policy store promises about the downstream keys it owns: a     *)
(* map held in memory, a copy of it in the state file, and a flag that     *)
(* says the two agree.  An edit changes one key and takes the flag down;   *)
(* only writing the whole map puts it up again, and the map is only ever   *)
(* replaced by what the state file holds.  Nothing else touches the file's *)
(* keys, however often usage is written beside them.                       *)
(***************************************************************************)
CONSTANTS
    Ids,        \* the ids a downstream key can have
    Keys,       \* the key records
    NoKey,      \* an id without a record
    Seed        \* the keys of config.yaml, used when there is no state file

VARIABLES
    live,       \* the keys the running plugin authenticates with
    written,    \* does the state file exist
    durable,    \* the keys in it
    synced      \* the last edit was written and nothing was edited since

registry == <<live, written, durable, synced>>

NoKeys == [id \in Ids |-> NoKey]
KeyMaps == [Ids -> Keys \cup {NoKey}]

Init == /\ live = NoKeys
        /\ written \in BOOLEAN
        /\ durable = NoKeys
        /\ synced = FALSE

\* One key is created, replaced or removed in memory.
Edit == /\ \E id \in Ids, k \in Keys \cup {NoKey} : live' = [live EXCEPT ![id] = k]
        /\ synced' = FALSE
        /\ UNCHANGED <<written, durable>>

\* The map in memory becomes the one in the file.
Persist == /\ written' = TRUE
           /\ durable' = live
           /\ synced' = TRUE
           /\ UNCHANGED live

\* The map in the file becomes the one in memory.
Reload == /\ written
          /\ live' = durable
          /\ synced' = TRUE
          /\ UNCHANGED <<written, durable>>

\* There is no file: start from config.yaml.
Boot == /\ ~written
        /\ live' = Seed
        /\ synced' = FALSE
        /\ UNCHANGED <<written, durable>>

\* A usage flush that finds no file makes one, without any key in it.
Blank == /\ ~written
         /\ written' = TRUE
         /\ UNCHANGED <<live, durable, synced>>

\* The process ends and a new one starts, which may make an empty file.
Restart == /\ live' = NoKeys
           /\ synced' = FALSE
           /\ \/ UNCHANGED <<written, durable>>
              \/ ~written /\ written' = TRUE /\ durable' = NoKeys

Next == Edit \/ Persist \/ Reload \/ Boot \/ Blank \/ Restart

Spec == Init /\ [][Next]_registry
----------------------------------------------------------------------------
TypeOK == /\ live \in KeyMaps
          /\ durable \in KeyMaps
          /\ written \in BOOLEAN
          /\ synced \in BOOLEAN

\* When the flag is up, memory and file hold the same keys: a restart then
\* loses no acknowledged change.
Agreement == synced => written /\ durable = live
=============================================================================
