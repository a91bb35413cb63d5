------------------------------ MODULE JsonStore -----------------------------
(***************************************************************************)
(* The JSON driver (infrastructure/persistence/json-store.ts): transactions*)
(* wait for each other, work on a copy of the data in memory, write the    *)
(* copy to a temporary file, rename it over the state file and then make   *)
(* it the data in memory.  The process may die anywhere and be started     *)
(* again.  The content of a file is the set of transactions it has the     *)
(* effect of.                                                              *)
(***************************************************************************)
EXTENDS Integers, Sequences

CONSTANTS Txs,          \* calls of runInTransaction
          None,
          DiskFaults,   \* "write", "rename", "read": calls of the OS that may fail;
                        \* "power": the machine may stop
          MaxCrashes    \* bound: how often the process dies

ASSUME NoneAssumption == None \notin Txs

VARIABLES file, tmp,    \* the state file and the temporary file
          older,        \* state files that the disk may have in place of this one:
                        \* nobody flushes the file or its directory
          mem,          \* the data in memory
          snap,         \* the copy that the transaction works on
          owner,        \* the transaction that holds the lock
          step,         \* what it does next
          waiting,      \* the transactions that wait for the lock
          outcome,      \* what callers know
          phase,        \* of the process
          crashes

vars == <<file, tmp, older, mem, snap, owner, step, waiting, outcome, phase, crashes>>
diskVars == <<file, tmp, older>>
lockVars == <<snap, owner, step, waiting, outcome>>

Whole(d) == [state |-> "whole", data |-> d]
Missing == [state |-> "missing", data |-> {}]
Torn == [state |-> "torn", data |-> {}]

File == [state : {"whole", "missing", "torn"}, data : SUBSET Txs]
Steps == {"free", "work", "write", "rename", "swap"}
Outcomes == {"uncalled", "waiting", "done", "failed", "lost"}
Phases == {"down", "backup", "fresh", "freshRename", "up"}

TypeOK ==
    /\ file \in File /\ tmp \in File /\ older \in SUBSET File
    /\ mem \in SUBSET Txs /\ snap \in SUBSET Txs
    /\ owner \in Txs \cup {None} /\ step \in Steps
    /\ waiting \in Seq(Txs)
    /\ outcome \in [Txs -> Outcomes]
    /\ phase \in Phases
    /\ crashes \in Nat

Init ==
    /\ file = Missing /\ tmp = Missing /\ older = {}
    /\ mem = {} /\ snap = {}
    /\ owner = None /\ step = "free" /\ waiting = <<>>
    /\ outcome = [t \in Txs |-> "uncalled"]
    /\ phase = "down" /\ crashes = 0

-----------------------------------------------------------------------------
(* runInTransaction under withLock.                                        *)

Call(t) ==
    /\ phase = "up" /\ outcome[t] = "uncalled"
    /\ outcome' = [outcome EXCEPT ![t] = "waiting"]
    /\ waiting' = Append(waiting, t)
    /\ UNCHANGED <<diskVars, mem, snap, owner, step, phase, crashes>>

\* A mutant: the copy is the one that the transaction before left.
TakeOldCopy ==
    /\ phase = "up" /\ step = "free" /\ waiting # <<>>
    /\ owner' = Head(waiting) /\ waiting' = Tail(waiting)
    /\ snap' = snap /\ step' = "work"
    /\ UNCHANGED <<diskVars, mem, outcome, phase, crashes>>

Take ==
    /\ phase = "up" /\ step = "free" /\ waiting # <<>>
    /\ owner' = Head(waiting) /\ waiting' = Tail(waiting)
    /\ snap' = mem /\ step' = "work"
    /\ UNCHANGED <<diskVars, mem, outcome, phase, crashes>>

\* The transaction ends: the lock is released in any case.
Ends(result) ==
    /\ outcome' = [outcome EXCEPT ![owner] = result]
    /\ owner' = None /\ step' = "free"
    /\ UNCHANGED <<waiting, phase, crashes>>

\* All the reads and writes of the work; they touch the copy only.
Work ==
    /\ step = "work"
    /\ snap' = snap \cup {owner} /\ step' = "write"
    /\ UNCHANGED <<diskVars, mem, owner, waiting, outcome, phase, crashes>>

\* It throws before its first write or after some.
WorkThrows ==
    /\ step = "work"
    /\ snap' \in {snap, snap \cup {owner}}
    /\ Ends("failed") /\ UNCHANGED <<diskVars, mem>>

WriteTmp ==
    /\ step = "write"
    /\ tmp' = Whole(snap) /\ step' = "rename"
    /\ UNCHANGED <<file, older, mem, snap, owner, waiting, outcome, phase, crashes>>

WriteFails ==
    /\ step = "write" /\ "write" \in DiskFaults
    /\ tmp' = Torn
    /\ Ends("failed") /\ UNCHANGED <<file, older, mem, snap>>

\* Another file takes the name of the state file.
Replaces(f) == file' = f /\ older' = older \cup {file}

Rename ==
    /\ step = "rename"
    /\ Replaces(tmp) /\ tmp' = Missing /\ step' = "swap"
    /\ UNCHANGED <<mem, snap, owner, waiting, outcome, phase, crashes>>

\* A mutant: the memory has the change that could not be written.
RenameFailsButSwaps ==
    /\ step = "rename" /\ "rename" \in DiskFaults
    /\ mem' = snap
    /\ Ends("failed") /\ UNCHANGED <<diskVars, snap>>

RenameFails ==
    /\ step = "rename" /\ "rename" \in DiskFaults
    /\ Ends("failed") /\ UNCHANGED <<diskVars, mem, snap>>

Swap ==
    /\ step = "swap"
    /\ mem' = snap
    /\ Ends("done") /\ UNCHANGED <<diskVars, snap>>

-----------------------------------------------------------------------------
(* The process dies, and is started (openJsonWithContinuity).              *)

Writing == step = "write" \/ phase = "fresh"

\* A file that was being written may be half there.
ProcessStops ==
    /\ tmp' \in {tmp} \cup (IF Writing THEN {Torn} ELSE {})
    /\ UNCHANGED <<file, older>>

\* Of what was not flushed the disk has an older file, or the name of the
\* latest and only a part of it.
PowerFails ==
    /\ "power" \in DiskFaults
    /\ file' \in {file} \cup older \cup (IF older # {} THEN {Torn} ELSE {})
    /\ tmp' \in {tmp, Torn} /\ older' = {}

Crash ==
    /\ phase # "down" /\ crashes < MaxCrashes
    /\ crashes' = crashes + 1 /\ phase' = "down"
    /\ mem' = {} /\ snap' = {} /\ owner' = None /\ step' = "free" /\ waiting' = <<>>
    /\ outcome' = [t \in Txs |-> IF outcome[t] = "waiting" THEN "lost" ELSE outcome[t]]
    /\ ProcessStops \/ PowerFails

\* The OS writes back what it holds, at any time.
Flush ==
    /\ older # {} /\ older' = {}
    /\ UNCHANGED <<file, tmp, mem, lockVars, phase, crashes>>

Opening == UNCHANGED <<lockVars, crashes>>

\* readStoreFile: the temporary file is never looked at.
ReadFile ==
    /\ phase = "down" /\ file.state = "whole"
    /\ mem' = file.data /\ phase' = "up"
    /\ UNCHANGED diskVars /\ Opening

ReadMissing ==
    /\ phase = "down" /\ file.state = "missing"
    /\ phase' = "fresh"
    /\ UNCHANGED <<diskVars, mem>> /\ Opening

Unreadable == file.state = "torn" \/ (file.state = "whole" /\ "read" \in DiskFaults)

\* Whatever the reason that the file cannot be read, it is set aside.
ReadFails ==
    /\ phase = "down" /\ Unreadable
    /\ phase' = "backup"
    /\ UNCHANGED <<diskVars, mem>> /\ Opening

\* backupUnreadableJsonState
Backup ==
    /\ phase = "backup"
    /\ Replaces(Missing) /\ phase' = "fresh"
    /\ UNCHANGED <<tmp, mem>> /\ Opening

FreshTmp ==
    /\ phase = "fresh"
    /\ tmp' = Whole({}) /\ phase' = "freshRename"
    /\ UNCHANGED <<file, older, mem>> /\ Opening

FreshRename ==
    /\ phase = "freshRename"
    /\ Replaces(tmp) /\ tmp' = Missing /\ mem' = {} /\ phase' = "up"
    /\ Opening

\* The start is given up; it is tried once more first, which is no different.
StartFails ==
    /\ \/ phase \in {"backup", "freshRename"} /\ "rename" \in DiskFaults
       \/ phase = "fresh" /\ "write" \in DiskFaults
    /\ phase' = "down"
    /\ UNCHANGED <<diskVars, mem>> /\ Opening

-----------------------------------------------------------------------------
Transaction ==
    \/ Take \/ Work \/ WorkThrows \/ WriteTmp \/ WriteFails
    \/ Rename \/ RenameFails \/ Swap

Start ==
    \/ ReadFile \/ ReadMissing \/ ReadFails \/ Backup
    \/ FreshTmp \/ FreshRename \/ StartFails

Next ==
    \/ \E t \in Txs : Call(t)
    \/ Transaction
    \/ Crash
    \/ Flush
    \/ Start

Spec == Init /\ [][Next]_vars

\* A call of the OS returns, and a promise that is resolved is gone on with.
FairSpec == Spec /\ WF_vars(Transaction)

-----------------------------------------------------------------------------
\* Between transactions the memory and the file say the same: a failed write
\* is not in the memory, a committed one is, and a start repairs the file.
MemoryIsFile == phase = "up" /\ step # "swap" => file = Whole(mem)

\* A caller hears of its transaction, unless the process dies.
EveryCallEnds == \A t \in Txs : outcome[t] = "waiting" ~> outcome[t] # "waiting"

Durable == INSTANCE DurableStore WITH
    committed <- file.data,
    earlier <- {f.data : f \in older},
    answered <- {t \in Txs : outcome[t] = "done"},
    refused <- {t \in Txs : outcome[t] = "failed"},
    damaged <- file.state = "torn"

\* Transactions are atomic and isolated, whichever write fails and wherever
\* the process dies, and one that failed has no effect.  A power failure may
\* undo the latest of them, answered or not, but leaves what was there after
\* an earlier one, and not a mixture; only a state file that it tore takes
\* everything with it, and the start makes the store usable again.
ImplementsDurableStore == Durable!Spec

=============================================================================
