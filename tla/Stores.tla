------------------------------- MODULE Stores -------------------------------
(***************************************************************************)
(* createPersistenceDriver (infrastructure/persistence/factory.ts): each   *)
(* start of the process takes one of the two drivers, the JSON driver if   *)
(* it is configured or if the SQLite driver fails.  The files of both stay *)
(* on the disk, and nothing carries data from one to the other.            *)
(***************************************************************************)
EXTENDS JsonStore

CONSTANTS StateDriver,   \* config.stateDriver
          SqlFaults

ASSUME StateDriverAssumption == StateDriver \in {"json", "sqlite"}

VARIABLES db, wal, pending, holder, at, line, known, sqlPhase,
          driver         \* that this process uses, "none" before it has chosen

Sql == INSTANCE SqliteStore

sqlVars == <<db, wal, pending, holder, at, line, known, sqlPhase>>
jsonVars == <<file, tmp, older, mem, snap, owner, step, waiting, outcome, phase>>
storesVars == <<vars, sqlVars, driver>>

StoresInit == Init /\ Sql!Init /\ driver = "none"

Choose ==
    /\ driver = "none"
    /\ driver' = StateDriver
    /\ UNCHANGED <<vars, sqlVars>>

\* The error of the SQLite driver is logged, and the JSON driver is taken.
FallBack ==
    /\ driver = "sqlite" /\ sqlPhase = "unavailable"
    /\ driver' = "json" /\ sqlPhase' = "down"
    /\ UNCHANGED <<vars, db, wal, pending, holder, at, line, known>>

\* A transaction is known by its effect: it is called on one of the stores.
CallJson(t) == driver = "json" /\ known[t] = "uncalled" /\ Call(t)
CallSqlite(t) == driver = "sqlite" /\ outcome[t] = "uncalled" /\ Sql!Call(t)

JsonStep ==
    /\ driver = "json"
    /\ \/ \E t \in Txs : CallJson(t)
       \/ Transaction
       \/ ReadFile \/ ReadMissing \/ ReadFails \/ Backup \/ FreshTmp \/ FreshRename
    /\ UNCHANGED <<sqlVars, driver>>

SqliteStep ==
    /\ driver = "sqlite"
    /\ \/ \E t \in Txs : CallSqlite(t)
       \/ Sql!Transaction \/ Sql!Checkpoint \/ Sql!Start
    /\ UNCHANGED <<jsonVars, driver>>

\* The process dies, or its start fails.  A power failure undoes what is not
\* flushed of the JSON file, whichever driver is at work.
Dies ==
    /\ \/ driver = "json" /\ (Crash \/ StartFails) /\ UNCHANGED sqlVars
       \/ /\ driver = "sqlite" /\ Sql!Crash
          /\ UNCHANGED diskVars \/ PowerFails
          /\ UNCHANGED <<mem, lockVars, phase>>
    /\ driver' = "none"

WriteBack == Flush /\ UNCHANGED <<sqlVars, driver>>

StoresNext == Choose \/ FallBack \/ JsonStep \/ SqliteStep \/ Dies \/ WriteBack

StoresSpec == StoresInit /\ [][StoresNext]_storesVars

\* A call of the OS or of SQLite returns, and resolved promises are gone on with.
FairStoresSpec ==
    /\ StoresSpec
    /\ WF_storesVars(JsonStep /\ Transaction)
    /\ WF_storesVars(SqliteStep /\ Sql!Transaction)

-----------------------------------------------------------------------------
\* With either driver a caller hears of its transaction, unless the process
\* dies: whatever fails, the lock of the driver is given on.
EveryCallHeard == EveryCallEnds /\ Sql!EveryCallEnds

\* The database keeps transactions atomic, isolated and durable as well,
\* wherever the process dies and while other starts work on the JSON file.
SqliteImplementsDurableStore == Sql!ImplementsDurableStore
=============================================================================
