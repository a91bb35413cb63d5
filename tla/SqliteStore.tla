----------------------------- MODULE SqliteStore ----------------------------
(***************************************************************************)
(* The SQLite driver (infrastructure/persistence/sqlite-store.ts): one     *)
(* connection, on which the transactions of the bot follow each other      *)
(* under a lock of the process, each between BEGIN IMMEDIATE and COMMIT or *)
(* ROLLBACK.  A database that cannot be opened is set aside and an empty   *)
(* one is made.  Of SQLite itself (WAL, synchronous = FULL) the model has  *)
(* what it promises: COMMIT is atomic and what it returned from is on disk.*)
(*                                                                         *)
(* The tables and their constraints do not show: alias = projectId for     *)
(* every project that selectProject writes, and a session is only written  *)
(* for a project that has a row, so that UNIQUE and REFERENCES never fail. *)
(***************************************************************************)
EXTENDS Integers, Sequences

CONSTANTS Txs,         \* calls of runInTransaction
          None,
          SqlFaults,   \* "module": this Node has no node:sqlite; "begin": the
                       \* statement fails; "busy": a sound database does not open;
                       \* "rot": the disk damages it; "files": it cannot be set aside
          MaxCrashes   \* bound: how often the process dies

VARIABLES db, wal,     \* the database file and its write-ahead log
          pending,     \* what the open transaction sees
          holder, at,  \* who has the lock, and its next statement
          line,        \* who waits for the lock
          known,       \* what callers know
          sqlPhase,    \* of the driver
          crashes

connVars == <<pending, holder, at, line, known>>
sqlVars == <<db, wal, connVars, sqlPhase>>
vars == <<sqlVars, crashes>>

\* A file: its state, and the transactions it has the effect of.
Whole(d) == [state |-> "whole", data |-> d]
Missing == [state |-> "missing", data |-> {}]
Rotten == [state |-> "rotten", data |-> {}]

File == [state : {"whole", "missing", "rotten"}, data : SUBSET Txs]
Steps == {"free", "begin", "work", "commit", "return"}
Known == {"uncalled", "waiting", "done", "failed", "lost"}
SqlPhases == {"down", "renameDb", "renameWal", "again", "up", "unavailable"}

TypeOK ==
    /\ db \in File /\ wal \in SUBSET Txs /\ pending \in SUBSET Txs
    /\ holder \in Txs \cup {None} /\ at \in Steps
    /\ line \in Seq(Txs)
    /\ known \in [Txs -> Known]
    /\ sqlPhase \in SqlPhases

Init ==
    /\ db = Missing /\ wal = {} /\ pending = {}
    /\ holder = None /\ at = "free" /\ line = <<>>
    /\ known = [t \in Txs |-> "uncalled"]
    /\ sqlPhase = "down"

\* What a reader of the database sees: the file and the log on top of it.
Content == IF db.state = "whole" THEN db.data \cup wal ELSE {}

-----------------------------------------------------------------------------
(* runInTransaction under withLock.                                        *)

Call(t) ==
    /\ sqlPhase = "up" /\ known[t] = "uncalled"
    /\ known' = [known EXCEPT ![t] = "waiting"]
    /\ line' = Append(line, t)
    /\ UNCHANGED <<db, wal, pending, holder, at, sqlPhase, crashes>>

Take ==
    /\ sqlPhase = "up" /\ at = "free" /\ line # <<>>
    /\ holder' = Head(line) /\ line' = Tail(line) /\ at' = "begin"
    /\ UNCHANGED <<db, wal, pending, known, sqlPhase, crashes>>

\* The transaction ends and the lock is released.
Ends(result) ==
    /\ known' = [known EXCEPT ![holder] = result]
    /\ holder' = None /\ at' = "free" /\ pending' = {}
    /\ UNCHANGED <<line, sqlPhase, crashes>>

\* A mutant: a transaction that could not begin keeps the lock.
BeginFailsAndKeeps ==
    /\ at = "begin" /\ "begin" \in SqlFaults
    /\ at' = "stuck"
    /\ UNCHANGED <<db, wal, pending, holder, line, known, sqlPhase, crashes>>

\* BEGIN stands before the try: there is nothing to roll back.
BeginFails ==
    /\ at = "begin" /\ "begin" \in SqlFaults
    /\ Ends("failed") /\ UNCHANGED <<db, wal>>

Begin ==
    /\ at = "begin"
    /\ pending' = Content /\ at' = "work"
    /\ UNCHANGED <<db, wal, holder, line, known, sqlPhase, crashes>>

\* The statements of the work, from the first that writes.
Work ==
    /\ at = "work"
    /\ pending' = pending \cup {holder} /\ at' = "commit"
    /\ UNCHANGED <<db, wal, holder, line, known, sqlPhase, crashes>>

\* A mutant: COMMIT follows an error as well.
RollbackCommits ==
    /\ at \in {"work", "commit"}
    /\ wal' = wal \cup pending
    /\ Ends("failed") /\ UNCHANGED db

\* The work throws, before its first write or after some, or COMMIT does, and
\* ROLLBACK follows.
Rollback ==
    /\ at \in {"work", "commit"}
    /\ Ends("failed") /\ UNCHANGED <<db, wal>>

Commit ==
    /\ at = "commit"
    /\ wal' = wal \cup pending /\ at' = "return"
    /\ UNCHANGED <<db, pending, holder, line, known, sqlPhase, crashes>>

Return ==
    /\ at = "return"
    /\ Ends("done") /\ UNCHANGED <<db, wal>>

-----------------------------------------------------------------------------
(* SQLite and the disk.                                                    *)

\* The log is written back to the database.
Checkpoint ==
    /\ sqlPhase = "up" /\ wal # {}
    /\ db' = Whole(Content) /\ wal' = {}
    /\ UNCHANGED <<connVars, sqlPhase, crashes>>

\* A transaction that was not committed is not seen again.
Crash ==
    /\ crashes < MaxCrashes
    /\ crashes' = crashes + 1 /\ sqlPhase' = "down"
    /\ pending' = {} /\ holder' = None /\ at' = "free" /\ line' = <<>>
    /\ known' = [t \in Txs |-> IF known[t] = "waiting" THEN "lost" ELSE known[t]]
    /\ \/ UNCHANGED <<db, wal>>
       \/ "rot" \in SqlFaults /\ db.state = "whole" /\ db' = Rotten /\ UNCHANGED wal

-----------------------------------------------------------------------------
(* createSqlitePersistenceDriver, openSqliteWithContinuity.                *)

Opening == UNCHANGED <<connVars, crashes>>
Opens == db' = Whole(Content) /\ wal' = {} /\ sqlPhase' = "up"

NoModule ==
    /\ sqlPhase = "down" /\ "module" \in SqlFaults
    /\ sqlPhase' = "unavailable"
    /\ UNCHANGED <<db, wal>> /\ Opening

\* A missing database is created; the log of one that is gone is deleted.
Open ==
    /\ sqlPhase = "down" /\ db.state # "rotten"
    /\ Opens /\ Opening

\* Whatever the error is, the database is set aside.
OpenFails ==
    /\ sqlPhase = "down"
    /\ db.state = "rotten" \/ "busy" \in SqlFaults
    /\ sqlPhase' = "renameDb"
    /\ UNCHANGED <<db, wal>> /\ Opening

\* backupUnreadableSqliteState: the file first, then the log.
RenameDb ==
    /\ sqlPhase = "renameDb"
    /\ db' = Missing /\ sqlPhase' = "renameWal"
    /\ UNCHANGED wal /\ Opening

RenameWal ==
    /\ sqlPhase = "renameWal"
    /\ wal' = {} /\ sqlPhase' = "again"
    /\ UNCHANGED db /\ Opening

OpenAgain ==
    /\ sqlPhase = "again"
    /\ Opens /\ Opening

\* An error of the file system, or a second failure to open.
GivesUp ==
    /\ \/ sqlPhase \in {"renameDb", "renameWal"} /\ "files" \in SqlFaults
       \/ sqlPhase = "again" /\ "busy" \in SqlFaults
    /\ sqlPhase' = "unavailable"
    /\ UNCHANGED <<db, wal>> /\ Opening

-----------------------------------------------------------------------------
Transaction ==
    Take \/ BeginFails \/ Begin \/ Work \/ Rollback \/ Commit \/ Return

Start ==
    \/ NoModule \/ Open \/ OpenFails
    \/ RenameDb \/ RenameWal \/ OpenAgain \/ GivesUp

-----------------------------------------------------------------------------
\* A caller hears of its transaction, unless the process dies.
EveryCallEnds == \A t \in Txs : known[t] = "waiting" ~> known[t] # "waiting"

Durable == INSTANCE DurableStore WITH
    committed <- Content,
    earlier <- {},
    answered <- {t \in Txs : known[t] = "done"},
    refused <- {t \in Txs : known[t] = "failed"},
    damaged <- db.state = "rotten"

\* Transactions on the database are atomic, isolated and durable, also over
\* a power failure, and one that failed leaves nothing behind.
ImplementsDurableStore == Durable!Spec
=============================================================================
