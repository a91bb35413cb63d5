---------------------------- MODULE StoresProofs ----------------------------
(***************************************************************************)
(* Both drivers, for any number of transactions and of crashes.  The JSON  *)
(* driver: the memory and the file never disagree while the bot serves;    *)
(* transactions are atomic, failed ones have no effect, and what was       *)
(* answered is lost only to a power failure, or when the disk does not     *)
(* read it back; alone, and under a bot whose starts choose between the    *)
(* drivers.  The SQLite driver under such a bot: the same, and a power     *)
(* failure takes nothing; only a disk that damages the database does, if a *)
(* sound database opens: an error of opening sets it aside.                *)
(***************************************************************************)
EXTENDS Stores, SequenceTheorems, TLAPS

-----------------------------------------------------------------------------
(* The JSON driver.                                                        *)

\* The transaction in the lock has a caller that waits; a bot that is not up
\* has none.
LockHeld ==
    /\ step # "free" => owner \in Txs /\ outcome[owner] = "waiting"
    /\ phase # "up" => step = "free"

\* Callers in the line wait, each at one place; who has the lock is not there.
LineWaits ==
    \A i \in 1..Len(waiting) :
        /\ outcome[waiting[i]] = "waiting"
        /\ step # "free" => waiting[i] # owner
LineOnce ==
    \A i, k \in 1..Len(waiting) : waiting[i] = waiting[k] => i = k

\* The copy is the memory, and then the memory with one more transaction.
CopyOfMemory ==
    /\ step = "work" => snap = mem
    /\ step \in {"write", "rename", "swap"} => snap = mem \cup {owner}

\* What is about to be renamed is complete.
TmpIsWhole ==
    /\ step = "rename" => tmp = Whole(snap)
    /\ phase = "freshRename" => tmp = Whole({})

\* The file is ahead of the memory between the rename and the swap.
FileOfMemory == phase = "up" => file = Whole(IF step = "swap" THEN snap ELSE mem)

IInv ==
    /\ TypeOK
    /\ LockHeld
    /\ LineWaits
    /\ LineOnce
    /\ CopyOfMemory
    /\ TmpIsWhole
    /\ FileOfMemory

-----------------------------------------------------------------------------
\* Nothing is called and nothing is on the disk.
LEMMA InitInv == Init => IInv
BY NoneAssumption
   DEF Init, IInv, TypeOK, File, Steps, Outcomes, Phases, Missing, LockHeld,
       LineWaits, LineOnce, CopyOfMemory, TmpIsWhole, FileOfMemory

\* A new caller goes to the end of the line.
LEMMA CallInv ==
  ASSUME IInv, NEW t \in Txs, Call(t)
  PROVE  IInv'
<1> USE DEF IInv
<1>1. /\ waiting \in Seq(Txs) /\ waiting' = Append(waiting, t) /\ Len(waiting) \in Nat
      /\ outcome[t] = "uncalled" /\ outcome'[t] = "waiting"
      /\ \A u \in Txs : u # t => outcome'[u] = outcome[u]
      /\ UNCHANGED <<file, tmp, older, mem, snap, owner, step, phase, crashes>>
  BY DEF Call, TypeOK, diskVars
<1>2. TypeOK'
  BY DEF TypeOK, Call, diskVars, Outcomes
<1>3. /\ Len(waiting') = Len(waiting) + 1 /\ waiting'[Len(waiting) + 1] = t
      /\ \A i \in 1..Len(waiting) : waiting'[i] = waiting[i] /\ waiting[i] \in Txs
  BY <1>1
<1>4. \A i \in 1..Len(waiting) : waiting[i] # t
  BY <1>1 DEF LineWaits
<1>5. LockHeld'
  BY <1>1 DEF LockHeld
<1>6. LineWaits'
  <2> SUFFICES ASSUME NEW i \in 1..Len(waiting')
               PROVE  /\ outcome'[waiting'[i]] = "waiting"
                      /\ step' # "free" => waiting'[i] # owner'
    BY DEF LineWaits
  <2>1. CASE i = Len(waiting) + 1
    BY <1>1, <1>3, <2>1 DEF LockHeld
  <2>2. CASE i \in 1..Len(waiting)
    BY <1>1, <1>3, <1>4, <2>2 DEF LineWaits
  <2> QED
    BY <1>1, <1>3, <2>1, <2>2
<1>7. LineOnce'
  BY <1>1, <1>3, <1>4 DEF LineOnce
<1>8. CopyOfMemory' /\ TmpIsWhole' /\ FileOfMemory'
  BY <1>1 DEF CopyOfMemory, TmpIsWhole, FileOfMemory
<1> QED
  BY <1>2, <1>5, <1>6, <1>7, <1>8

\* The head of the line gets the lock and a copy of the memory.
LEMMA TakeInv ==
  ASSUME IInv, Take
  PROVE  IInv'
<1> USE DEF IInv
<1>1. /\ waiting \in Seq(Txs) /\ waiting # <<>> /\ Len(waiting) \in Nat
      /\ waiting' = Tail(waiting) /\ owner' = Head(waiting)
      /\ snap' = mem /\ step = "free" /\ step' = "work" /\ phase = "up"
      /\ UNCHANGED <<file, tmp, older, mem, outcome, phase, crashes>>
  BY DEF Take, TypeOK, diskVars
<1>2. /\ Head(waiting) = waiting[1] /\ 1 \in 1..Len(waiting) /\ waiting[1] \in Txs
      /\ Tail(waiting) \in Seq(Txs) /\ Len(Tail(waiting)) = Len(waiting) - 1
      /\ \A i \in 1..Len(Tail(waiting)) :
            Tail(waiting)[i] = waiting[i + 1] /\ i + 1 \in 1..Len(waiting) /\ i + 1 # 1
  BY <1>1
<1>3. TypeOK'
  BY <1>1, <1>2 DEF TypeOK, Steps
<1>4. LockHeld'
  BY <1>1, <1>2 DEF LockHeld, LineWaits
<1>5. LineWaits'
  <2> SUFFICES ASSUME NEW i \in 1..Len(waiting')
               PROVE  /\ outcome'[waiting'[i]] = "waiting"
                      /\ step' # "free" => waiting'[i] # owner'
    BY DEF LineWaits
  <2>1. waiting'[i] = waiting[i + 1] /\ i + 1 \in 1..Len(waiting) /\ i + 1 # 1
    BY <1>1, <1>2
  <2> QED
    BY <1>1, <1>2, <2>1 DEF LineWaits, LineOnce
<1>6. LineOnce'
  <2> SUFFICES ASSUME NEW i \in 1..Len(waiting'), NEW k \in 1..Len(waiting'),
                      waiting'[i] = waiting'[k]
               PROVE  i = k
    BY DEF LineOnce
  <2>1. /\ waiting'[i] = waiting[i + 1] /\ i + 1 \in 1..Len(waiting)
        /\ waiting'[k] = waiting[k + 1] /\ k + 1 \in 1..Len(waiting)
    BY <1>1, <1>2
  <2> QED
    BY <1>1, <1>2, <2>1 DEF LineOnce
<1>7. CopyOfMemory' /\ TmpIsWhole' /\ FileOfMemory'
  BY <1>1 DEF CopyOfMemory, TmpIsWhole, FileOfMemory
<1> QED
  BY <1>3, <1>4, <1>5, <1>6, <1>7

\* When a transaction ends nobody is in the lock, and the line is as it was.
LEMMA EndsInv ==
  ASSUME IInv, step # "free", NEW result \in {"done", "failed"}, Ends(result)
  PROVE  /\ LockHeld' /\ LineWaits' /\ LineOnce' /\ CopyOfMemory'
         /\ outcome' \in [Txs -> Outcomes] /\ owner' = None /\ step' = "free"
         /\ UNCHANGED <<waiting, phase, crashes>>
         /\ outcome'[owner] = result
         /\ \A t \in Txs : t # owner => outcome'[t] = outcome[t]
<1> USE DEF IInv
<1>1. /\ owner \in Txs /\ owner' = None /\ step' = "free"
      /\ UNCHANGED <<waiting, phase, crashes>>
      /\ outcome' \in [Txs -> Outcomes]
      /\ outcome'[owner] = result
      /\ \A t \in Txs : t # owner => outcome'[t] = outcome[t]
  BY DEF Ends, TypeOK, LockHeld, Outcomes
<1>2. waiting \in Seq(Txs)
  BY DEF TypeOK
<1>3. LineWaits'
  <2> SUFFICES ASSUME NEW i \in 1..Len(waiting)
               PROVE  outcome'[waiting[i]] = "waiting"
    BY <1>1 DEF LineWaits
  <2>1. waiting[i] \in Txs /\ waiting[i] # owner
    BY <1>2 DEF LineWaits
  <2> QED
    BY <1>1, <2>1 DEF LineWaits
<1>4. LineOnce'
  BY <1>1 DEF LineOnce
<1> QED
  BY <1>1, <1>3, <1>4 DEF LockHeld, CopyOfMemory

\* The steps of the transaction in the lock.
LEMMA TransactionInv ==
  ASSUME IInv, Transaction
  PROVE  IInv'
<1> USE DEF IInv
<1>0. /\ file \in File /\ tmp \in File /\ older \in SUBSET File
      /\ mem \in SUBSET Txs /\ snap \in SUBSET Txs
      /\ owner \in Txs \cup {None} /\ phase \in Phases /\ crashes \in Nat
      /\ waiting \in Seq(Txs) /\ outcome \in [Txs -> Outcomes]
      /\ Whole(snap) \in File /\ Torn \in File /\ Missing \in File
  BY DEF TypeOK, Whole, Torn, Missing, File
<1>1. CASE Take
  BY <1>1, TakeInv
<1>2. CASE Work
  <2>1. /\ step = "work" /\ step' = "write" /\ snap' = snap \cup {owner}
        /\ UNCHANGED <<file, tmp, older, mem, owner, waiting, outcome, phase, crashes>>
        /\ owner \in Txs /\ phase = "up"
    BY <1>2 DEF Work, diskVars, LockHeld
  <2>2. TypeOK'
    BY <1>0, <2>1 DEF TypeOK, Steps
  <2>3. LockHeld' /\ LineWaits' /\ LineOnce'
    BY <2>1 DEF LockHeld, LineWaits, LineOnce
  <2> QED
    BY <2>1, <2>2, <2>3 DEF CopyOfMemory, TmpIsWhole, FileOfMemory
<1>3. CASE WorkThrows
  <2>1. /\ step = "work" /\ Ends("failed") /\ UNCHANGED <<file, tmp, older, mem>>
        /\ phase = "up" /\ snap' \in SUBSET Txs
    BY <1>0, <1>3 DEF WorkThrows, diskVars, LockHeld
  <2> QED
    BY <1>0, <2>1, EndsInv DEF TypeOK, Steps, TmpIsWhole, FileOfMemory
<1>4. CASE WriteTmp
  <2>1. /\ step = "write" /\ step' = "rename" /\ tmp' = Whole(snap)
        /\ UNCHANGED <<file, older, mem, snap, owner, waiting, outcome, phase, crashes>>
        /\ phase = "up"
    BY <1>4 DEF WriteTmp, LockHeld
  <2>2. TypeOK'
    BY <1>0, <2>1 DEF TypeOK, Steps
  <2>3. LockHeld' /\ LineWaits' /\ LineOnce'
    BY <2>1 DEF LockHeld, LineWaits, LineOnce
  <2> QED
    BY <2>1, <2>2, <2>3 DEF CopyOfMemory, TmpIsWhole, FileOfMemory
<1>5. CASE WriteFails
  <2>1. /\ step = "write" /\ Ends("failed") /\ tmp' = Torn
        /\ UNCHANGED <<file, older, mem, snap>> /\ phase = "up"
    BY <1>5 DEF WriteFails, LockHeld
  <2> QED
    BY <1>0, <2>1, EndsInv DEF TypeOK, Steps, TmpIsWhole, FileOfMemory
<1>6. CASE Rename
  <2>1. /\ step = "rename" /\ step' = "swap" /\ file' = tmp /\ tmp' = Missing
        /\ older' \in SUBSET File
        /\ UNCHANGED <<mem, snap, owner, waiting, outcome, phase, crashes>>
        /\ phase = "up"
    BY <1>0, <1>6 DEF Rename, Replaces, LockHeld
  <2>2. TypeOK'
    BY <1>0, <2>1 DEF TypeOK, Steps
  <2>3. LockHeld' /\ LineWaits' /\ LineOnce'
    BY <2>1 DEF LockHeld, LineWaits, LineOnce
  <2> QED
    BY <2>1, <2>2, <2>3 DEF CopyOfMemory, TmpIsWhole, FileOfMemory
<1>7. CASE RenameFails
  <2>1. /\ step = "rename" /\ Ends("failed") /\ UNCHANGED <<file, tmp, older, mem, snap>>
        /\ phase = "up"
    BY <1>7 DEF RenameFails, diskVars, LockHeld
  <2> QED
    BY <1>0, <2>1, EndsInv DEF TypeOK, Steps, TmpIsWhole, FileOfMemory
<1>8. CASE Swap
  <2>1. /\ step = "swap" /\ Ends("done") /\ mem' = snap /\ UNCHANGED <<file, tmp, older, snap>>
        /\ phase = "up"
    BY <1>8 DEF Swap, diskVars, LockHeld
  <2> QED
    BY <1>0, <2>1, EndsInv DEF TypeOK, Steps, TmpIsWhole, FileOfMemory
<1> QED
  BY <1>1, <1>2, <1>3, <1>4, <1>5, <1>6, <1>7, <1>8 DEF Transaction

\* What the disk has after a stop of the process or of the machine is one of the
\* files that it had, or torn.
LEMMA StopTypes ==
  ASSUME IInv, ProcessStops \/ PowerFails
  PROVE  file' \in File /\ tmp' \in File /\ older' \in SUBSET File
<1>1. file \in File /\ tmp \in File /\ older \in SUBSET File /\ Torn \in File
  BY DEF IInv, TypeOK, Torn, File
<1> QED
  BY <1>1 DEF ProcessStops, PowerFails

\* A bot that died has nobody in the lock or in the line.
LEMMA CrashInv ==
  ASSUME IInv, Crash
  PROVE  IInv'
<1>1. /\ phase' = "down" /\ step' = "free" /\ owner' = None /\ waiting' = <<>>
      /\ mem' = {} /\ snap' = {} /\ crashes' = crashes + 1
      /\ outcome' \in [Txs -> Outcomes]
  BY DEF Crash, IInv, TypeOK, Outcomes
<1>2. file' \in File /\ tmp' \in File /\ older' \in SUBSET File
  BY StopTypes DEF Crash
<1>3. TypeOK'
  BY <1>1, <1>2 DEF IInv, TypeOK, Steps, Phases
<1> QED
  BY <1>1, <1>3
     DEF IInv, LockHeld, LineWaits, LineOnce, CopyOfMemory, TmpIsWhole, FileOfMemory

\* What is not on the disk yet is nothing to the bot.
LEMMA FlushInv ==
  ASSUME IInv, Flush
  PROVE  IInv'
BY DEF Flush, lockVars, IInv, TypeOK, LockHeld, LineWaits, LineOnce, CopyOfMemory, TmpIsWhole,
       FileOfMemory

\* A start that comes to its end has in memory what is in the file.
LEMMA StartInv ==
  ASSUME IInv, Start
  PROVE  IInv'
<1> USE DEF IInv
<1>1. /\ UNCHANGED <<snap, owner, step, waiting, outcome, crashes>>
      /\ phase # "up" /\ step = "free"
  BY DEF Start, ReadFile, ReadMissing, ReadFails, Backup, FreshTmp, FreshRename,
         StartFails, Opening, lockVars, LockHeld
<1>2. /\ file' \in File /\ tmp' \in File /\ older' \in SUBSET File
      /\ mem' \in SUBSET Txs /\ phase' \in Phases
      /\ phase' = "up" => file' = Whole(mem')
      /\ phase' = "freshRename" => tmp' = Whole({})
  <2>1. /\ file \in File /\ tmp \in File /\ older \in SUBSET File /\ mem \in SUBSET Txs
        /\ Missing \in File /\ Whole({}) \in File
        /\ phase = "freshRename" => tmp = Whole({})
    BY DEF TypeOK, File, Missing, Whole, TmpIsWhole
  <2>2. CASE ReadFile
    <3>1. /\ UNCHANGED <<file, tmp, older>> /\ phase' = "up" /\ mem' = file.data
          /\ file.state = "whole"
      BY <2>2 DEF ReadFile, diskVars
    <3>2. file = Whole(file.data) /\ file.data \in SUBSET Txs
      BY <2>1, <3>1 DEF File, Whole
    <3> QED
      BY <2>1, <3>1, <3>2 DEF Phases
  <2>3. CASE ReadMissing \/ ReadFails
    BY <2>1, <2>3 DEF ReadMissing, ReadFails, diskVars, Phases
  <2>4. CASE Backup
    BY <2>1, <2>4 DEF Backup, Replaces, Phases
  <2>5. CASE FreshTmp
    BY <2>1, <2>5 DEF FreshTmp, Phases
  <2>6. CASE FreshRename
    BY <2>1, <2>6 DEF FreshRename, Replaces, Phases
  <2>7. CASE StartFails
    BY <2>1, <2>7 DEF StartFails, diskVars, Phases
  <2> QED
    BY <2>2, <2>3, <2>4, <2>5, <2>6, <2>7 DEF Start
<1>3. TypeOK'
  BY <1>1, <1>2 DEF TypeOK
<1> QED
  BY <1>1, <1>2, <1>3
     DEF LockHeld, LineWaits, LineOnce, CopyOfMemory, TmpIsWhole, FileOfMemory

LEMMA NextInv == IInv /\ [Next]_vars => IInv'
<1> SUFFICES ASSUME IInv, [Next]_vars PROVE IInv'
  OBVIOUS
<1>1. CASE Next
  BY <1>1, CallInv, TransactionInv, CrashInv, FlushInv, StartInv DEF Next
<1>2. CASE UNCHANGED vars
  BY <1>2 DEF vars, IInv, TypeOK, LockHeld, LineWaits, LineOnce, CopyOfMemory,
              TmpIsWhole, FileOfMemory
<1> QED
  BY <1>1, <1>2

\* The invariant holds of every state that the driver reaches.
THEOREM Invariance == Spec => []IInv
BY InitInv, NextInv, PTL DEF Spec

\* The state of the driver stays well-formed (runInTransaction and
\* openJsonWithContinuity together).
THEOREM Typing == Spec => []TypeOK
BY Invariance, PTL DEF IInv

\* Whatever fails, power and reads included: between two transactions the
\* memory holds exactly what the file holds (runInTransaction swaps the data
\* only after the rename, and a start repairs what it cannot read).
THEOREM MemoryAgrees == Spec => []MemoryIsFile
<1>1. IInv => MemoryIsFile
  BY DEF IInv, FileOfMemory, MemoryIsFile
<1> QED
  BY <1>1, Invariance, PTL

-----------------------------------------------------------------------------
(* With a disk that reads back what is not torn.                           *)

ReadsBack == "read" \notin DiskFaults

\* A start sets aside only what is torn, and makes a file only where none is.
SetAsideIsTorn ==
    /\ file.state # "whole" => file.data = {}
    /\ phase = "backup" => file = Torn
    /\ phase \in {"fresh", "freshRename"} => file = Missing

\* A torn file is on the disk: the machine stopped since.
OlderFiles ==
    /\ \A f \in older : f.state # "whole" => f.data = {}
    /\ file.state = "torn" => older = {}

\* What a file has the effect of, now or after a power failure, has taken
\* effect for its caller, or is about to.
Held == file.data \cup UNION {f.data : f \in older}
HeldIsDone ==
    \A t \in Held : outcome[t] \in {"done", "lost"} \/ (t = owner /\ step = "swap")

DInv ==
    /\ IInv
    /\ SetAsideIsTorn
    /\ OlderFiles
    /\ HeldIsDone

\* What callers know.
Answered == {t \in Txs : outcome[t] = "done"}
Refused == {t \in Txs : outcome[t] = "failed"}

LEMMA InitDInv == Init => DInv
<1> SUFFICES ASSUME Init PROVE DInv
  OBVIOUS
<1>1. IInv
  BY InitInv
<1> QED
  BY <1>1 DEF Init, DInv, SetAsideIsTorn, OlderFiles, HeldIsDone, Held, Missing

\* An abstract step.
Maps == [Durable!Next]_Durable!durableVars

\* What a step of the disk is to those who know nothing of files.
DiskStep ==
    \/ /\ file'.data = file.data /\ (file'.state = "torn" <=> file.state = "torn")
       /\ older' \in {older, {}}
    \/ /\ \E f \in older : file'.data = f.data
       /\ (file'.state = "torn" <=> file.state = "torn") /\ older' = {}
    \/ file'.data = {} /\ file'.state = "torn" /\ older' = {}
    \/ /\ file'.data = file.data /\ older' = older \cup {file}
       /\ file'.state # "torn"

LEMMA DiskStepMaps ==
  ASSUME DiskStep, UNCHANGED <<Answered, Refused>>
  PROVE  Maps
<1>1. CASE /\ file'.data = file.data /\ (file'.state = "torn" <=> file.state = "torn")
           /\ older' \in {older, {}}
  <2>1. CASE older' = older
    BY <1>1, <2>1 DEF Maps, Durable!durableVars, Answered, Refused
  <2>2. CASE older' = {}
    <3>1. Durable!Flush
      BY <1>1, <2>2 DEF Durable!Flush, Answered, Refused
    <3> QED
      BY <3>1 DEF Maps, Durable!Next
  <2> QED
    BY <1>1, <2>1, <2>2
<1>2. CASE /\ \E f \in older : file'.data = f.data
           /\ (file'.state = "torn" <=> file.state = "torn") /\ older' = {}
  <2>1. Durable!PowerFails
    BY <1>2 DEF Durable!PowerFails, Answered, Refused
  <2> QED
    BY <2>1 DEF Maps, Durable!Next
<1>3. CASE file'.data = {} /\ file'.state = "torn" /\ older' = {}
  <2>1. Durable!Damage
    BY <1>3 DEF Durable!Damage, Answered, Refused
  <2> QED
    BY <2>1 DEF Maps, Durable!Next
<1>4. CASE /\ file'.data = file.data /\ older' = older \cup {file}
           /\ file'.state # "torn"
  <2>1. {f.data : f \in older'} = {f.data : f \in older} \cup {file.data}
    BY <1>4
  <2>2. Durable!Rewrite
    BY <1>4, <2>1 DEF Durable!Rewrite, Answered, Refused
  <2> QED
    BY <2>2 DEF Maps, Durable!Next
<1> QED
  BY <1>1, <1>2, <1>3, <1>4 DEF DiskStep

\* A stop takes the latest transactions or the whole file, and adds nothing.
LEMMA StopMaps ==
  ASSUME DInv, ProcessStops \/ PowerFails
  PROVE  /\ DiskStep /\ OlderFiles' /\ Held' \subseteq Held
         /\ file'.state # "whole" => file'.data = {}
<1> USE DEF DInv, SetAsideIsTorn, OlderFiles
<1>1. CASE ProcessStops
  BY <1>1 DEF ProcessStops, DiskStep, Held
<1>2. CASE PowerFails
  <2>1. older' = {} /\ Torn.state = "torn" /\ Torn.data = {}
    BY <1>2 DEF PowerFails, Torn
  <2>2. CASE file' = file
    BY <2>1, <2>2 DEF DiskStep, Held
  <2>3. CASE file' = Torn
    BY <2>1, <2>3 DEF DiskStep, Held
  <2>4. ASSUME NEW f \in older, file' = f
        PROVE  /\ DiskStep /\ OlderFiles' /\ Held' \subseteq Held
               /\ file'.state # "whole" => file'.data = {}
    <3>1. file.state # "torn" /\ (f.state # "whole" => f.data = {})
      BY <2>4
    <3>2. OlderFiles' /\ Held' \subseteq Held
      BY <2>1, <2>4 DEF Held
    <3>3. CASE f.state = "torn"
      BY <2>1, <2>4, <3>1, <3>2, <3>3 DEF DiskStep
    <3>4. CASE f.state # "torn"
      BY <2>1, <2>4, <3>1, <3>2, <3>4 DEF DiskStep
    <3> QED
      BY <3>3, <3>4
  <2> QED
    BY <1>2, <2>2, <2>3, <2>4 DEF PowerFails
<1> QED
  BY <1>1, <1>2

\* A step that tells nobody anything and adds nothing to the files.
LEMMA HeldStays ==
  ASSUME HeldIsDone, Held' \subseteq Held, UNCHANGED <<outcome, owner, step>>
  PROVE  HeldIsDone'
BY DEF HeldIsDone

-----------------------------------------------------------------------------
\* A call changes nothing on the disk, and tells nobody anything.
LEMMA CallMaps ==
  ASSUME DInv, NEW t \in Txs, Call(t)
  PROVE  DInv' /\ Maps
<1> USE DEF DInv
<1>0. IInv'
  BY NextInv DEF Next
<1>1. /\ UNCHANGED <<file, older, phase, owner, step>>
      /\ outcome \in [Txs -> Outcomes]
      /\ outcome[t] = "uncalled" /\ outcome' = [outcome EXCEPT ![t] = "waiting"]
  BY DEF Call, diskVars, IInv, TypeOK
<1>2. SetAsideIsTorn' /\ OlderFiles'
  BY <1>1 DEF SetAsideIsTorn, OlderFiles
<1>3. Held' = Held /\ t \notin Held
  <2>1. step = "swap" => outcome[owner] = "waiting"
    BY DEF IInv, LockHeld
  <2> QED
    BY <1>1, <2>1 DEF Held, HeldIsDone
<1>4. HeldIsDone'
  <2> SUFFICES ASSUME NEW u \in Held
               PROVE  outcome'[u] \in {"done", "lost"} \/ (u = owner' /\ step' = "swap")
    BY <1>3 DEF HeldIsDone
  <2>1. outcome'[u] = outcome[u]
    BY <1>1, <1>3
  <2> QED
    BY <1>1, <2>1 DEF HeldIsDone
<1>5. Maps
  <2>1. UNCHANGED <<Answered, Refused>>
    BY <1>1 DEF Answered, Refused
  <2> QED
    BY <1>1, <2>1, DiskStepMaps DEF DiskStep
<1> QED
  BY <1>0, <1>2, <1>4, <1>5

\* A transaction that ends tells its caller, and the disk stays as it is.
LEMMA EndsMaps ==
  ASSUME DInv, step # "free", NEW result \in {"done", "failed"}, Ends(result),
         result = "done" <=> step = "swap", owner \in file.data <=> step = "swap",
         UNCHANGED <<file, older>>
  PROVE  SetAsideIsTorn' /\ OlderFiles' /\ HeldIsDone' /\ Maps
<1> USE DEF DInv
<1>1. /\ owner \in Txs /\ outcome[owner] = "waiting" /\ step' = "free"
      /\ outcome'[owner] = result
      /\ \A t \in Txs : t # owner => outcome'[t] = outcome[t]
      /\ UNCHANGED phase
  BY EndsInv DEF IInv, LockHeld
<1>2. SetAsideIsTorn' /\ OlderFiles'
  BY <1>1 DEF SetAsideIsTorn, OlderFiles
<1>3. Held' = Held /\ Held \subseteq Txs
  BY DEF Held, IInv, TypeOK, File
<1>4. result = "failed" => owner \notin Held
  BY <1>1 DEF HeldIsDone
<1>5. HeldIsDone'
  BY <1>1, <1>3, <1>4 DEF HeldIsDone
<1>6. CASE result = "done"
  <2>1. Answered' = Answered \cup {owner} /\ Refused' = Refused
    BY <1>1, <1>6 DEF Answered, Refused
  <2>2. \E t \in Txs : Durable!Answer(t)
    <3>1. PICK t \in Txs : t = owner
      BY <1>1
    <3>2. t \in file.data /\ Answered' = Answered \cup {t} /\ Refused' = Refused
      BY <1>6, <2>1, <3>1
    <3>3. Durable!Answer(t)
      BY <3>2 DEF Durable!Answer, Answered, Refused
    <3> QED
      BY <3>3, Zenon
  <2> QED
    BY <1>2, <1>5, <2>2 DEF Maps, Durable!Next
<1>7. CASE result = "failed"
  <2>1. Refused' = Refused \cup {owner} /\ Answered' = Answered
    BY <1>1, <1>7 DEF Answered, Refused
  <2>2. \E t \in Txs : Durable!Refuse(t)
    <3>1. PICK t \in Txs : t = owner
      BY <1>1
    <3>2. /\ t \notin file.data \cup UNION {f.data : f \in older}
          /\ Refused' = Refused \cup {t} /\ Answered' = Answered
      BY <1>4, <1>7, <2>1, <3>1 DEF Held
    <3>3. Durable!Refuse(t)
      BY <3>2 DEF Durable!Refuse, Answered, Refused
    <3> QED
      BY <3>3, Zenon
  <2> QED
    BY <1>2, <1>5, <2>2 DEF Maps, Durable!Next
<1> QED
  BY <1>6, <1>7

\* What the steps of a transaction are to its caller and to those after it.
LEMMA TransactionMaps ==
  ASSUME DInv, Transaction
  PROVE  DInv' /\ Maps
<1> USE DEF DInv
<1>0. IInv'
  BY TransactionInv
<1>1. /\ phase = "up" /\ file = Whole(IF step = "swap" THEN snap ELSE mem)
      /\ file.state = "whole" /\ file.data = (IF step = "swap" THEN snap ELSE mem)
  BY DEF Transaction, Take, Work, WorkThrows, WriteTmp, WriteFails, Rename, RenameFails,
         Swap, IInv, LockHeld, FileOfMemory, Whole
<1>2. CASE Take \/ Work \/ WriteTmp
  <2>1. /\ UNCHANGED <<file, older, outcome, phase>> /\ step # "swap" /\ step' # "swap"
    BY <1>2 DEF Take, Work, WriteTmp, diskVars
  <2>2. SetAsideIsTorn' /\ OlderFiles' /\ HeldIsDone'
    BY <2>1 DEF SetAsideIsTorn, OlderFiles, HeldIsDone, Held
  <2>3. Maps
    BY <2>1, DiskStepMaps DEF DiskStep, Answered, Refused
  <2> QED
    BY <1>0, <2>2, <2>3
<1>3. CASE WorkThrows \/ WriteFails \/ RenameFails
  <2>1. /\ step \in {"work", "write", "rename"} /\ Ends("failed")
        /\ UNCHANGED <<file, older>>
    BY <1>3 DEF WorkThrows, WriteFails, RenameFails, diskVars
  <2>2. owner \notin file.data
    BY <2>1 DEF IInv, LockHeld, HeldIsDone, Held
  <2> QED
    BY <1>0, <2>1, <2>2, EndsMaps
<1>4. CASE Rename
  <2>1. /\ step = "rename" /\ step' = "swap" /\ file' = tmp /\ older' = older \cup {file}
        /\ UNCHANGED <<owner, outcome, phase>>
        /\ owner \in Txs /\ outcome[owner] = "waiting"
    BY <1>4 DEF Rename, Replaces, IInv, LockHeld
  <2>2. tmp = Whole(snap) /\ snap = mem \cup {owner} /\ file.data = mem
    BY <1>1, <2>1 DEF IInv, TmpIsWhole, CopyOfMemory
  <2>3. file'.data = file.data \cup {owner} /\ file'.state = "whole"
    BY <2>1, <2>2 DEF Whole
  <2>4. SetAsideIsTorn' /\ OlderFiles'
    BY <1>1, <2>1, <2>3 DEF SetAsideIsTorn, OlderFiles
  <2>5. Held' = Held \cup {owner}
    BY <2>1, <2>3 DEF Held
  <2>6. HeldIsDone'
    BY <2>1, <2>5 DEF HeldIsDone
  <2>7. owner \notin Refused /\ UNCHANGED <<Answered, Refused>>
    BY <2>1 DEF Answered, Refused
  <2>8. {f.data : f \in older'} = {f.data : f \in older} \cup {file.data}
    BY <2>1
  <2>9. \E t \in Txs : Durable!Commit(t)
    <3>1. PICK t \in Txs : t = owner
      BY <2>1
    <3>2. Durable!Commit(t)
      BY <1>1, <2>3, <2>7, <2>8, <3>1 DEF Durable!Commit, Answered, Refused
    <3> QED
      BY <3>2, Zenon
  <2> QED
    BY <1>0, <2>4, <2>6, <2>9 DEF Maps, Durable!Next
<1>5. CASE Swap
  <2>1. step = "swap" /\ Ends("done") /\ UNCHANGED <<file, older>>
    BY <1>5 DEF Swap, diskVars
  <2>2. owner \in file.data
    BY <1>1, <2>1 DEF IInv, CopyOfMemory
  <2> QED
    BY <1>0, <2>1, <2>2, EndsMaps
<1> QED
  BY <1>2, <1>3, <1>4, <1>5 DEF Transaction

\* A crash changes nothing that a caller was told of.
LEMMA CrashMaps ==
  ASSUME DInv, Crash
  PROVE  DInv' /\ Maps
<1> USE DEF DInv
<1>0. IInv'
  BY CrashInv
<1>1. /\ phase' = "down"
      /\ outcome' = [t \in Txs |-> IF outcome[t] = "waiting" THEN "lost" ELSE outcome[t]]
      /\ outcome \in [Txs -> Outcomes]
  BY DEF Crash, IInv, TypeOK
<1>2. /\ DiskStep /\ OlderFiles' /\ Held' \subseteq Held
      /\ file'.state # "whole" => file'.data = {}
  BY StopMaps DEF Crash
<1>3. UNCHANGED <<Answered, Refused>>
  BY <1>1 DEF Answered, Refused
<1>4. HeldIsDone'
  <2> SUFFICES ASSUME NEW t \in Held PROVE outcome'[t] \in {"done", "lost"}
    BY <1>2 DEF HeldIsDone
  <2>1. t \in Txs
    BY DEF Held, IInv, TypeOK, File
  <2>2. outcome[t] \in {"done", "lost", "waiting"}
    BY DEF HeldIsDone, IInv, LockHeld
  <2> QED
    BY <1>1, <2>1, <2>2
<1> QED
  BY <1>0, <1>1, <1>2, <1>3, <1>4, DiskStepMaps DEF SetAsideIsTorn

\* The disk is told to keep what it has.
LEMMA FlushMaps ==
  ASSUME DInv, Flush
  PROVE  DInv' /\ Maps
<1> USE DEF DInv
<1>1. UNCHANGED <<file, phase, outcome, owner, step>> /\ older' = {}
  BY DEF Flush, lockVars
<1>2. IInv' /\ SetAsideIsTorn' /\ OlderFiles'
  BY <1>1, FlushInv DEF SetAsideIsTorn, OlderFiles
<1>3. HeldIsDone'
  BY <1>1, HeldStays DEF Held
<1> QED
  BY <1>1, <1>2, <1>3, DiskStepMaps DEF DiskStep, Answered, Refused

\* A start keeps what is in the file; only a torn one is set aside.
LEMMA StartMaps ==
  ASSUME ReadsBack, DInv, Start
  PROVE  DInv' /\ Maps
<1> USE DEF DInv
<1>0. IInv'
  BY StartInv
<1>1. UNCHANGED <<outcome, owner, step, Answered, Refused>>
  BY DEF Start, ReadFile, ReadMissing, ReadFails, Backup, FreshTmp, FreshRename,
         StartFails, Opening, lockVars, Answered, Refused
<1>2. SUFFICES SetAsideIsTorn' /\ OlderFiles' /\ Held' \subseteq Held /\ DiskStep
  BY <1>0, <1>1, HeldStays, DiskStepMaps
<1>3. CASE ReadFile \/ ReadMissing \/ ReadFails \/ FreshTmp \/ StartFails
  <2>1. UNCHANGED <<file, older>>
    BY <1>3 DEF ReadFile, ReadMissing, ReadFails, FreshTmp, StartFails, diskVars
  <2>2. file \in File
    BY DEF IInv, TypeOK
  <2>3. SetAsideIsTorn'
    BY <1>3, <2>1, <2>2
       DEF ReadFile, ReadMissing, ReadFails, FreshTmp, StartFails, SetAsideIsTorn, ReadsBack,
           Unreadable, File, Torn, Missing
  <2> QED
    BY <2>1, <2>3 DEF OlderFiles, Held, DiskStep
<1>4. CASE Backup
  <2>1. /\ file = Torn /\ file' = Missing /\ phase' = "fresh" /\ older' = older \cup {file}
        /\ Torn.data = {} /\ Torn.state = "torn" /\ Missing.data = {}
        /\ Missing.state = "missing"
    BY <1>4 DEF Backup, Replaces, SetAsideIsTorn, Torn, Missing
  <2>2. SetAsideIsTorn' /\ OlderFiles'
    BY <2>1 DEF SetAsideIsTorn, OlderFiles
  <2>3. Held' \subseteq Held
    BY <2>1 DEF Held
  <2> QED
    BY <2>1, <2>2, <2>3 DEF DiskStep
<1>5. CASE FreshRename
  <2>1. /\ file = Missing /\ file' = Whole({}) /\ phase' = "up"
        /\ older' = older \cup {file}
        /\ Missing.data = {} /\ Missing.state = "missing"
        /\ file'.data = {} /\ file'.state = "whole"
    BY <1>5 DEF FreshRename, Replaces, SetAsideIsTorn, IInv, TmpIsWhole, Whole, Missing
  <2>2. SetAsideIsTorn' /\ OlderFiles'
    BY <2>1 DEF SetAsideIsTorn, OlderFiles
  <2>3. Held' \subseteq Held
    BY <2>1 DEF Held
  <2> QED
    BY <2>1, <2>2, <2>3 DEF DiskStep
<1> QED
  BY <1>3, <1>4, <1>5 DEF Start

\* Every step is one of the abstract store, or does not show there.
LEMMA StepMaps ==
  ASSUME ReadsBack, DInv, [Next]_vars
  PROVE  DInv' /\ Maps
<1>1. CASE UNCHANGED vars
  <2>1. IInv'
    BY <1>1, NextInv DEF DInv
  <2>2. SetAsideIsTorn' /\ OlderFiles' /\ HeldIsDone'
    BY <1>1 DEF DInv, vars, SetAsideIsTorn, OlderFiles, HeldIsDone, Held
  <2>3. Maps
    BY <1>1, DiskStepMaps DEF vars, DiskStep, Answered, Refused
  <2> QED
    BY <2>1, <2>2, <2>3 DEF DInv
<1> QED
  BY <1>1, CallMaps, TransactionMaps, CrashMaps, FlushMaps, StartMaps DEF Next

\* A transaction takes effect as a whole, on top of all those before it, and
\* not at all if its caller is told that it failed, whichever write fails and
\* wherever the process dies (runInTransaction, writeStoreFileAtomically).  A
\* power failure undoes the latest transactions and no others; a file that it
\* tore is repaired by the start (backupUnreadableJsonState).
THEOREM Durability == ASSUME ReadsBack PROVE Spec => ImplementsDurableStore
<1>1. Init => Durable!Init
  BY DEF Init, Missing, Durable!Init
<1>2. DInv /\ [Next]_vars => DInv' /\ [Durable!Next]_Durable!durableVars
  BY StepMaps DEF Maps
<1> QED
  BY <1>1, <1>2, InitDInv, PTL DEF Spec, ImplementsDurableStore, Durable!Spec

-----------------------------------------------------------------------------
(* With a machine that does not stop, moreover.                            *)

ReliableDisk == ReadsBack /\ "power" \notin DiskFaults

\* Whoever was answered is in the file, and the file is never torn.
AnsweredIsWritten == \A t \in Txs : outcome[t] = "done" => t \in file.data
NeverTorn == file.state # "torn"

AInv == DInv /\ AnsweredIsWritten /\ NeverTorn

LEMMA StepKeepsAnswered ==
  ASSUME ReliableDisk, AInv, [Next]_vars
  PROVE  AInv'
<1> USE DEF AInv
<1>0. DInv' /\ outcome \in [Txs -> Outcomes]
  BY StepMaps DEF ReliableDisk, DInv, IInv, TypeOK
<1>1. ASSUME NEW t \in Txs, Call(t)
      PROVE  AnsweredIsWritten' /\ NeverTorn'
  <2>1. file' = file /\ \A u \in Txs : outcome'[u] = "done" => outcome[u] = "done"
    BY <1>0, <1>1 DEF Call, diskVars
  <2> QED
    BY <2>1 DEF AnsweredIsWritten, NeverTorn
<1>2. CASE Transaction
  <2>1. step # "free" \/ Take
    BY <1>2 DEF Transaction, Work, WorkThrows, WriteTmp, WriteFails, Rename, RenameFails, Swap
  <2>2. /\ Take => UNCHANGED <<file, outcome>>
        /\ phase = "up" /\ file = Whole(IF step = "swap" THEN snap ELSE mem)
    BY <1>2 DEF Transaction, Take, Work, WorkThrows, WriteTmp, WriteFails, Rename, RenameFails,
                Swap, diskVars, DInv, IInv, LockHeld, FileOfMemory
  <2>3. CASE Take \/ Work \/ WriteTmp
    BY <1>0, <2>3 DEF Take, Work, WriteTmp, diskVars, AnsweredIsWritten, NeverTorn
  <2>4. CASE WorkThrows \/ WriteFails \/ RenameFails
    <3>1. file' = file /\ outcome' = [outcome EXCEPT ![owner] = "failed"]
      BY <2>4 DEF WorkThrows, WriteFails, RenameFails, Ends, diskVars
    <3> QED
      BY <1>0, <3>1 DEF AnsweredIsWritten, NeverTorn
  <2>5. CASE Rename
    <3>1. /\ file' = tmp /\ tmp = Whole(snap) /\ snap = mem \cup {owner} /\ file = Whole(mem)
          /\ UNCHANGED outcome
      BY <2>2, <2>5 DEF Rename, Replaces, DInv, IInv, TmpIsWhole, CopyOfMemory
    <3> QED
      BY <1>0, <3>1 DEF AnsweredIsWritten, NeverTorn, Whole
  <2>6. CASE Swap
    <3>1. /\ file' = file /\ outcome' = [outcome EXCEPT ![owner] = "done"]
          /\ owner \in file.data
      BY <2>2, <2>6 DEF Swap, Ends, diskVars, DInv, IInv, CopyOfMemory, Whole
    <3> QED
      BY <1>0, <3>1 DEF AnsweredIsWritten, NeverTorn
  <2> QED
    BY <1>2, <2>3, <2>4, <2>5, <2>6 DEF Transaction
<1>3. CASE Crash
  <2>1. file' = file
    BY <1>3 DEF Crash, ProcessStops, PowerFails, ReliableDisk
  <2>2. \A t \in Txs : outcome'[t] = "done" => outcome[t] = "done"
    BY <1>0, <1>3 DEF Crash
  <2> QED
    BY <1>0, <2>1, <2>2 DEF AnsweredIsWritten, NeverTorn
<1>4. CASE Start
  <2>1. UNCHANGED outcome
    BY <1>4 DEF Start, ReadFile, ReadMissing, ReadFails, Backup, FreshTmp, FreshRename,
                StartFails, Opening, lockVars
  <2>2. ~Backup
    BY DEF Backup, DInv, SetAsideIsTorn, NeverTorn, Torn
  <2>3. file' = file \/ (file = Missing /\ file'.state = "whole")
    BY <1>4, <2>2
       DEF Start, ReadFile, ReadMissing, ReadFails, FreshTmp, FreshRename, StartFails, Replaces,
           diskVars, DInv, IInv, TmpIsWhole, SetAsideIsTorn, Whole
  <2> QED
    BY <1>0, <2>1, <2>3 DEF AnsweredIsWritten, NeverTorn, Missing
<1>5. CASE Flush \/ UNCHANGED vars
  <2>1. UNCHANGED <<file, outcome>>
    BY <1>5 DEF Flush, lockVars, vars
  <2> QED
    BY <1>0, <2>1 DEF AnsweredIsWritten, NeverTorn
<1> QED
  BY <1>0, <1>1, <1>2, <1>3, <1>4, <1>5 DEF Next

\* Without power failures nothing that a caller was told of is ever lost,
\* whichever write fails and wherever the process dies.
THEOREM AnsweredStays == ASSUME ReliableDisk PROVE Spec => []AnsweredIsWritten
<1>1. Init => AInv
  BY InitDInv DEF Init, AInv, AnsweredIsWritten, NeverTorn, Missing
<1>2. AInv /\ [Next]_vars => AInv'
  BY StepKeepsAnswered
<1>3. AInv => AnsweredIsWritten
  BY DEF AInv
<1> QED
  BY <1>1, <1>2, <1>3, PTL DEF Spec

-----------------------------------------------------------------------------
(* The SQLite driver.                                                      *)

\* The transaction in the lock has a caller that waits; a database that is not
\* open has none.
SqlLockHeld ==
    /\ at # "free" => holder \in Txs /\ known[holder] = "waiting"
    /\ sqlPhase # "up" => at = "free"

\* Callers in the line wait, each at one place; who has the lock is not there.
SqlLineWaits ==
    \A i \in 1..Len(line) :
        /\ known[line[i]] = "waiting"
        /\ at # "free" => line[i] # holder
SqlLineOnce ==
    \A i, k \in 1..Len(line) : line[i] = line[k] => i = k

\* What an open transaction sees is the database and its own work, and when it
\* returns its work is in the database.
ViewOfContent ==
    /\ at = "work" => pending = Sql!Content
    /\ at = "commit" => pending = Sql!Content \cup {holder}
    /\ at = "return" => holder \in Sql!Content

\* What is in the database has taken effect for its caller, or is about to.
ContentIsDone ==
    \A t \in Sql!Content : known[t] \in {"done", "lost"} \/ (t = holder /\ at = "return")

\* Only a rotten database is set aside, and an open one is whole.
PhaseOfDb ==
    /\ sqlPhase = "up" => db.state = "whole"
    /\ sqlPhase = "renameDb" => db.state = "rotten"
    /\ sqlPhase \in {"renameWal", "again"} => db.state = "missing"

SInv ==
    /\ Sql!TypeOK
    /\ SqlLockHeld
    /\ SqlLineWaits
    /\ SqlLineOnce
    /\ ViewOfContent
    /\ ContentIsDone
    /\ PhaseOfDb

\* Nothing but a lock of another process keeps a sound database from opening.
NeverBusy == "busy" \notin SqlFaults

\* What the callers of the database know.
SqlAnswered == {t \in Txs : known[t] = "done"}
SqlRefused == {t \in Txs : known[t] = "failed"}

-----------------------------------------------------------------------------
LEMMA SqlInitInv == StoresInit => SInv
BY NoneAssumption
   DEF StoresInit, SInv, Sql!Init, Sql!TypeOK, Sql!File, Sql!Steps, Sql!Known,
       Sql!SqlPhases, Sql!Missing, SqlLockHeld, SqlLineWaits, SqlLineOnce,
       ViewOfContent, ContentIsDone, Sql!Content, PhaseOfDb

\* A new caller goes to the end of the line.
LEMMA SqlCallInv ==
  ASSUME SInv, NEW t \in Txs, Sql!Call(t)
  PROVE  SInv' /\ UNCHANGED <<db, wal, SqlAnswered, SqlRefused>>
<1> USE DEF SInv
<1>1. /\ line \in Seq(Txs) /\ line' = Append(line, t) /\ Len(line) \in Nat
      /\ known[t] = "uncalled" /\ known'[t] = "waiting"
      /\ \A u \in Txs : u # t => known'[u] = known[u]
      /\ UNCHANGED <<db, wal, pending, holder, at, sqlPhase>>
  BY DEF Sql!Call, Sql!TypeOK
<1>2. Sql!TypeOK'
  BY DEF Sql!TypeOK, Sql!Call, Sql!Known
<1>3. /\ Len(line') = Len(line) + 1 /\ line'[Len(line) + 1] = t
      /\ \A i \in 1..Len(line) : line'[i] = line[i] /\ line[i] \in Txs
  BY <1>1
<1>4. \A i \in 1..Len(line) : line[i] # t
  BY <1>1 DEF SqlLineWaits
<1>5. SqlLockHeld'
  BY <1>1 DEF SqlLockHeld
<1>6. SqlLineWaits'
  <2> SUFFICES ASSUME NEW i \in 1..Len(line')
               PROVE  /\ known'[line'[i]] = "waiting"
                      /\ at' # "free" => line'[i] # holder'
    BY DEF SqlLineWaits
  <2>1. CASE i = Len(line) + 1
    BY <1>1, <1>3, <2>1 DEF SqlLockHeld
  <2>2. CASE i \in 1..Len(line)
    BY <1>1, <1>3, <1>4, <2>2 DEF SqlLineWaits
  <2> QED
    BY <1>1, <1>3, <2>1, <2>2
<1>7. SqlLineOnce'
  BY <1>1, <1>3, <1>4 DEF SqlLineOnce
<1>8. ViewOfContent' /\ ContentIsDone' /\ PhaseOfDb'
  <2>1. Sql!Content' = Sql!Content /\ Sql!Content \in SUBSET Txs
    BY <1>1 DEF Sql!Content, Sql!TypeOK, Sql!File
  <2>2. t \notin Sql!Content
    BY <1>1 DEF ContentIsDone, SqlLockHeld
  <2> QED
    BY <1>1, <2>1, <2>2 DEF ViewOfContent, ContentIsDone, PhaseOfDb
<1>9. UNCHANGED <<SqlAnswered, SqlRefused>>
  BY <1>1 DEF SqlAnswered, SqlRefused
<1> QED
  BY <1>1, <1>2, <1>5, <1>6, <1>7, <1>8, <1>9

\* The head of the line gets the lock.
LEMMA SqlTakeInv ==
  ASSUME SInv, Sql!Take
  PROVE  SInv' /\ UNCHANGED <<db, wal, SqlAnswered, SqlRefused>>
<1> USE DEF SInv
<1>1. /\ line \in Seq(Txs) /\ line # <<>> /\ Len(line) \in Nat
      /\ line' = Tail(line) /\ holder' = Head(line)
      /\ at = "free" /\ at' = "begin" /\ sqlPhase = "up"
      /\ UNCHANGED <<db, wal, pending, known, sqlPhase>>
  BY DEF Sql!Take, Sql!TypeOK
<1>2. /\ Head(line) = line[1] /\ 1 \in 1..Len(line) /\ line[1] \in Txs
      /\ Tail(line) \in Seq(Txs) /\ Len(Tail(line)) = Len(line) - 1
      /\ \A i \in 1..Len(Tail(line)) :
            Tail(line)[i] = line[i + 1] /\ i + 1 \in 1..Len(line) /\ i + 1 # 1
  BY <1>1
<1>3. Sql!TypeOK'
  BY <1>1, <1>2 DEF Sql!TypeOK, Sql!Steps
<1>4. SqlLockHeld'
  BY <1>1, <1>2 DEF SqlLockHeld, SqlLineWaits
<1>5. SqlLineWaits'
  <2> SUFFICES ASSUME NEW i \in 1..Len(line')
               PROVE  /\ known'[line'[i]] = "waiting"
                      /\ at' # "free" => line'[i] # holder'
    BY DEF SqlLineWaits
  <2>1. line'[i] = line[i + 1] /\ i + 1 \in 1..Len(line) /\ i + 1 # 1
    BY <1>1, <1>2
  <2> QED
    BY <1>1, <1>2, <2>1 DEF SqlLineWaits, SqlLineOnce
<1>6. SqlLineOnce'
  <2> SUFFICES ASSUME NEW i \in 1..Len(line'), NEW k \in 1..Len(line'), line'[i] = line'[k]
               PROVE  i = k
    BY DEF SqlLineOnce
  <2>1. /\ line'[i] = line[i + 1] /\ i + 1 \in 1..Len(line)
        /\ line'[k] = line[k + 1] /\ k + 1 \in 1..Len(line)
    BY <1>1, <1>2
  <2> QED
    BY <1>1, <1>2, <2>1 DEF SqlLineOnce
<1>7. ViewOfContent' /\ ContentIsDone' /\ PhaseOfDb'
  BY <1>1 DEF ViewOfContent, ContentIsDone, Sql!Content, PhaseOfDb
<1>8. UNCHANGED <<SqlAnswered, SqlRefused>>
  BY <1>1 DEF SqlAnswered, SqlRefused
<1> QED
  BY <1>1, <1>3, <1>4, <1>5, <1>6, <1>7, <1>8

\* When a transaction ends nobody is in the lock, and the line is as it was.
LEMMA SqlEndsInv ==
  ASSUME SInv, at # "free", NEW result \in {"done", "failed"}, Sql!Ends(result),
         UNCHANGED <<db, wal>>, result = "done" <=> at = "return"
  PROVE  /\ SInv' /\ holder \in Txs
         /\ holder \in Sql!Content <=> result = "done"
         /\ SqlAnswered' = SqlAnswered \cup (IF result = "done" THEN {holder} ELSE {})
         /\ SqlRefused' = SqlRefused \cup (IF result = "failed" THEN {holder} ELSE {})
<1> USE DEF SInv
<1>1. /\ holder \in Txs /\ holder' = None /\ at' = "free" /\ pending' = {}
      /\ UNCHANGED <<line, sqlPhase, db, wal>>
      /\ known' \in [Txs -> Sql!Known]
      /\ known[holder] = "waiting" /\ known'[holder] = result
      /\ \A t \in Txs : t # holder => known'[t] = known[t]
  BY DEF Sql!Ends, Sql!TypeOK, SqlLockHeld, Sql!Known
<1>2. Sql!TypeOK'
  BY <1>1 DEF Sql!TypeOK, Sql!Steps
<1>3. SqlLineWaits'
  <2> SUFFICES ASSUME NEW i \in 1..Len(line)
               PROVE  known'[line[i]] = "waiting"
    BY <1>1 DEF SqlLineWaits
  <2>1. line[i] \in Txs /\ line[i] # holder
    BY DEF SqlLineWaits, Sql!TypeOK
  <2> QED
    BY <1>1, <2>1 DEF SqlLineWaits
<1>4. SqlLockHeld' /\ SqlLineOnce' /\ ViewOfContent' /\ PhaseOfDb'
  BY <1>1 DEF SqlLockHeld, SqlLineOnce, ViewOfContent, PhaseOfDb
<1>5. /\ SqlAnswered' = SqlAnswered \cup (IF result = "done" THEN {holder} ELSE {})
      /\ SqlRefused' = SqlRefused \cup (IF result = "failed" THEN {holder} ELSE {})
  BY <1>1 DEF SqlAnswered, SqlRefused
<1>6. holder \in Sql!Content <=> result = "done"
  BY <1>1 DEF ContentIsDone, ViewOfContent
<1>7. ContentIsDone'
  <2>1. Sql!Content' = Sql!Content /\ Sql!Content \in SUBSET Txs
    BY <1>1 DEF Sql!Content, Sql!TypeOK, Sql!File
  <2> QED
    BY <1>1, <1>6, <2>1 DEF ContentIsDone
<1> QED
  BY <1>1, <1>2, <1>3, <1>4, <1>5, <1>6, <1>7

\* What a step of the transaction in the lock does to the database and to what
\* callers know: it commits its own work on top of all that was committed,
\* tells its caller, or does neither.
LEMMA SqlTransactionMaps ==
  ASSUME SInv, Sql!Transaction
  PROVE  /\ SInv' /\ db.state = "whole" /\ UNCHANGED db
         /\ \/ UNCHANGED <<wal, SqlAnswered, SqlRefused>>
            \/ /\ Sql!Content' = Sql!Content \cup {holder} /\ holder \in Txs \ SqlRefused
               /\ UNCHANGED <<SqlAnswered, SqlRefused>>
            \/ /\ UNCHANGED wal /\ holder \in Sql!Content /\ holder \in Txs
               /\ SqlAnswered' = SqlAnswered \cup {holder} /\ UNCHANGED SqlRefused
            \/ /\ UNCHANGED wal /\ holder \notin Sql!Content /\ holder \in Txs
               /\ SqlRefused' = SqlRefused \cup {holder} /\ UNCHANGED SqlAnswered
<1> USE DEF SInv
<1>0. sqlPhase = "up" /\ db.state = "whole"
  BY DEF Sql!Transaction, Sql!Take, Sql!BeginFails, Sql!Begin, Sql!Work, Sql!Rollback,
         Sql!Commit, Sql!Return, SqlLockHeld, PhaseOfDb
<1>a. /\ db \in Sql!File /\ db.data \in SUBSET Txs /\ wal \in SUBSET Txs
      /\ pending \in SUBSET Txs /\ line \in Seq(Txs) /\ known \in [Txs -> Sql!Known]
      /\ holder \in Txs \cup {None} /\ Sql!Content \in SUBSET Txs
  BY DEF Sql!TypeOK, Sql!File, Sql!Content
<1>1. CASE Sql!Take
  BY <1>0, <1>1, SqlTakeInv
<1>2. CASE Sql!BeginFails \/ Sql!Rollback
  <2>1. at \in {"begin", "work", "commit"} /\ Sql!Ends("failed") /\ UNCHANGED <<db, wal>>
    BY <1>2 DEF Sql!BeginFails, Sql!Rollback
  <2> QED
    BY <1>0, <2>1, SqlEndsInv
<1>3. CASE Sql!Begin
  <2>1. /\ at = "begin" /\ at' = "work" /\ pending' = Sql!Content
        /\ UNCHANGED <<db, wal, holder, line, known, sqlPhase>>
    BY <1>3 DEF Sql!Begin
  <2>2. Sql!TypeOK'
    BY <1>a, <2>1 DEF Sql!TypeOK, Sql!Steps
  <2>3. SqlLockHeld' /\ SqlLineWaits' /\ SqlLineOnce' /\ PhaseOfDb'
    BY <2>1 DEF SqlLockHeld, SqlLineWaits, SqlLineOnce, PhaseOfDb
  <2>4. ViewOfContent' /\ ContentIsDone'
    BY <2>1 DEF ViewOfContent, ContentIsDone, Sql!Content
  <2> QED
    BY <1>0, <2>1, <2>2, <2>3, <2>4 DEF SqlAnswered, SqlRefused
<1>4. CASE Sql!Work
  <2>1. /\ at = "work" /\ at' = "commit" /\ pending' = pending \cup {holder}
        /\ UNCHANGED <<db, wal, holder, line, known, sqlPhase>>
        /\ holder \in Txs /\ pending = Sql!Content
    BY <1>4 DEF Sql!Work, SqlLockHeld, ViewOfContent
  <2>2. Sql!TypeOK'
    BY <1>a, <2>1 DEF Sql!TypeOK, Sql!Steps
  <2>3. SqlLockHeld' /\ SqlLineWaits' /\ SqlLineOnce' /\ PhaseOfDb'
    BY <2>1 DEF SqlLockHeld, SqlLineWaits, SqlLineOnce, PhaseOfDb
  <2>4. ViewOfContent' /\ ContentIsDone'
    BY <2>1 DEF ViewOfContent, ContentIsDone, Sql!Content
  <2> QED
    BY <1>0, <2>1, <2>2, <2>3, <2>4 DEF SqlAnswered, SqlRefused
<1>5. CASE Sql!Commit
  <2>1. /\ at = "commit" /\ at' = "return" /\ wal' = wal \cup pending
        /\ UNCHANGED <<db, pending, holder, line, known, sqlPhase>>
        /\ holder \in Txs /\ pending = Sql!Content \cup {holder}
    BY <1>5 DEF Sql!Commit, SqlLockHeld, ViewOfContent
  <2>2. Sql!TypeOK'
    BY <1>a, <2>1 DEF Sql!TypeOK, Sql!Steps
  <2>3. SqlLockHeld' /\ SqlLineWaits' /\ SqlLineOnce' /\ PhaseOfDb'
    BY <2>1 DEF SqlLockHeld, SqlLineWaits, SqlLineOnce, PhaseOfDb
  <2>4. Sql!Content' = Sql!Content \cup {holder}
    BY <1>0, <2>1 DEF Sql!Content
  <2>5. ViewOfContent' /\ ContentIsDone'
    BY <2>1, <2>4 DEF ViewOfContent, ContentIsDone
  <2>6. holder \notin SqlRefused
    BY <2>1 DEF SqlLockHeld, SqlRefused
  <2> QED
    BY <1>0, <2>1, <2>2, <2>3, <2>4, <2>5, <2>6 DEF SqlAnswered, SqlRefused
<1>6. CASE Sql!Return
  <2>1. /\ at = "return" /\ Sql!Ends("done") /\ UNCHANGED <<db, wal>>
        /\ holder \in Txs /\ holder \in Sql!Content
    BY <1>6 DEF Sql!Return, SqlLockHeld, ViewOfContent
  <2> QED
    BY <1>0, <2>1, SqlEndsInv
<1> QED
  BY <1>1, <1>2, <1>3, <1>4, <1>5, <1>6 DEF Sql!Transaction

\* The log is written back: the database has the same transactions in it.
LEMMA SqlCheckpointMaps ==
  ASSUME SInv, Sql!Checkpoint
  PROVE  /\ SInv' /\ db.state = "whole" /\ db'.state = "whole"
         /\ UNCHANGED <<SqlAnswered, SqlRefused>> /\ Sql!Content' = Sql!Content
<1> USE DEF SInv
<1>1. /\ db.state = "whole" /\ db' = Sql!Whole(Sql!Content) /\ wal' = {}
      /\ UNCHANGED <<pending, holder, at, line, known, sqlPhase>>
  BY DEF Sql!Checkpoint, Sql!connVars, PhaseOfDb
<1>2. db'.state = "whole" /\ Sql!Content' = Sql!Content
  BY <1>1 DEF Sql!Content, Sql!Whole
<1>3. Sql!TypeOK'
  BY <1>1 DEF Sql!TypeOK, Sql!File, Sql!Content, Sql!Whole
<1>4. SqlLockHeld' /\ SqlLineWaits' /\ SqlLineOnce'
  BY <1>1 DEF SqlLockHeld, SqlLineWaits, SqlLineOnce
<1>5. ViewOfContent' /\ ContentIsDone' /\ PhaseOfDb'
  BY <1>1, <1>2 DEF ViewOfContent, ContentIsDone, PhaseOfDb
<1> QED
  BY <1>1, <1>2, <1>3, <1>4, <1>5 DEF SqlAnswered, SqlRefused

\* A process that dies takes nothing from the database; the disk may.
LEMMA SqlCrashMaps ==
  ASSUME SInv, Sql!Crash
  PROVE  /\ SInv' /\ UNCHANGED <<SqlAnswered, SqlRefused>>
         /\ UNCHANGED <<db, wal>> \/ (db'.state = "rotten" /\ Sql!Content' = {})
<1> USE DEF SInv
<1>1. /\ sqlPhase' = "down" /\ pending' = {} /\ holder' = None /\ at' = "free"
      /\ line' = <<>>
      /\ known' = [t \in Txs |-> IF known[t] = "waiting" THEN "lost" ELSE known[t]]
      /\ UNCHANGED <<db, wal>> \/ (db' = Sql!Rotten /\ wal' = wal)
  BY DEF Sql!Crash
<1>2. Sql!TypeOK'
  BY <1>1 DEF Sql!TypeOK, Sql!Rotten, Sql!File, Sql!Steps, Sql!Known, Sql!SqlPhases
<1>3. SqlLockHeld' /\ SqlLineWaits' /\ SqlLineOnce' /\ ViewOfContent' /\ PhaseOfDb'
  BY <1>1 DEF SqlLockHeld, SqlLineWaits, SqlLineOnce, ViewOfContent, PhaseOfDb
<1>4. UNCHANGED <<SqlAnswered, SqlRefused>>
  BY <1>1 DEF SqlAnswered, SqlRefused
<1>5. UNCHANGED <<db, wal>> \/ (db'.state = "rotten" /\ Sql!Content' = {})
  BY <1>1 DEF Sql!Rotten, Sql!Content
<1>6. ContentIsDone'
  <2> SUFFICES ASSUME NEW t \in Sql!Content PROVE known'[t] \in {"done", "lost"}
    BY <1>5 DEF ContentIsDone, Sql!Content
  <2>1. t \in Txs
    BY DEF Sql!Content, Sql!TypeOK, Sql!File
  <2>2. known[t] \in {"done", "lost", "waiting"}
    BY DEF ContentIsDone, SqlLockHeld
  <2> QED
    BY <1>1, <2>1, <2>2
<1> QED
  BY <1>2, <1>3, <1>4, <1>5, <1>6

\* A start, or the change to the other driver, keeps what is in the database;
\* only one that is not readable is set aside.
LEMMA SqlStartMaps ==
  ASSUME NeverBusy, SInv,
         \/ Sql!Start
         \/ /\ sqlPhase = "unavailable" /\ sqlPhase' = "down"
            /\ UNCHANGED <<db, wal, pending, holder, at, line, known>>
  PROVE  /\ SInv' /\ UNCHANGED <<SqlAnswered, SqlRefused>> /\ Sql!Content' = Sql!Content
         /\ db'.state = "rotten" => db.state = "rotten"
<1> USE DEF SInv
<1>1. sqlPhase # "up" /\ UNCHANGED <<pending, holder, at, line, known>>
  BY DEF Sql!Start, Sql!NoModule, Sql!Open, Sql!OpenFails, Sql!RenameDb, Sql!RenameWal,
         Sql!OpenAgain, Sql!GivesUp, Sql!Opening, Sql!connVars
<1>2. at = "free" /\ at' = "free"
  BY <1>1 DEF SqlLockHeld
<1>3. db \in Sql!File /\ wal \in SUBSET Txs /\ Sql!Content \in SUBSET Txs
  BY DEF Sql!TypeOK, Sql!File, Sql!Content
<1>4. /\ db' \in Sql!File /\ wal' \in SUBSET Txs /\ sqlPhase' \in Sql!SqlPhases
      /\ PhaseOfDb' /\ Sql!Content' = Sql!Content
      /\ db'.state = "rotten" => db.state = "rotten"
  <2>1. CASE \/ Sql!NoModule \/ Sql!GivesUp
             \/ /\ sqlPhase = "unavailable" /\ sqlPhase' = "down"
                /\ UNCHANGED <<db, wal, pending, holder, at, line, known>>
    <3>1. UNCHANGED <<db, wal>> /\ sqlPhase' \in {"unavailable", "down"}
      BY <2>1 DEF Sql!NoModule, Sql!GivesUp
    <3> QED
      BY <1>3, <3>1 DEF Sql!SqlPhases, PhaseOfDb, Sql!Content
  <2>2. CASE Sql!Open \/ Sql!OpenAgain
    <3>1. db' = Sql!Whole(Sql!Content) /\ wal' = {} /\ sqlPhase' = "up"
      BY <2>2 DEF Sql!Open, Sql!OpenAgain, Sql!Opens
    <3> QED
      BY <1>3, <3>1 DEF Sql!File, Sql!Whole, Sql!Content, Sql!SqlPhases, PhaseOfDb
  <2>3. CASE Sql!OpenFails
    <3>1. UNCHANGED <<db, wal>> /\ sqlPhase' = "renameDb" /\ db.state = "rotten"
      BY <2>3 DEF Sql!OpenFails, NeverBusy
    <3> QED
      BY <1>3, <3>1 DEF Sql!SqlPhases, PhaseOfDb, Sql!Content
  <2>4. CASE Sql!RenameDb
    <3>1. /\ db' = Sql!Missing /\ wal' = wal /\ sqlPhase' = "renameWal"
          /\ db.state = "rotten"
      BY <2>4 DEF Sql!RenameDb, PhaseOfDb
    <3> QED
      BY <1>3, <3>1 DEF Sql!Missing, Sql!File, Sql!SqlPhases, PhaseOfDb, Sql!Content
  <2>5. CASE Sql!RenameWal
    <3>1. db' = db /\ wal' = {} /\ sqlPhase' = "again" /\ db.state = "missing"
      BY <2>5 DEF Sql!RenameWal, PhaseOfDb
    <3> QED
      BY <1>3, <3>1 DEF Sql!SqlPhases, PhaseOfDb, Sql!Content
  <2> QED
    BY <2>1, <2>2, <2>3, <2>4, <2>5 DEF Sql!Start
<1>5. Sql!TypeOK'
  BY <1>1, <1>4 DEF Sql!TypeOK
<1>6. SqlLockHeld' /\ SqlLineWaits' /\ SqlLineOnce' /\ ViewOfContent' /\ ContentIsDone'
  BY <1>1, <1>2, <1>4 DEF SqlLockHeld, SqlLineWaits, SqlLineOnce, ViewOfContent, ContentIsDone
<1> QED
  BY <1>1, <1>4, <1>5, <1>6 DEF SqlAnswered, SqlRefused

-----------------------------------------------------------------------------
\* A step commits one transaction, answers one that is committed, damages or
\* repairs the database, or does none of it.
LEMMA SqlStepMaps ==
  ASSUME NeverBusy, SInv, [StoresNext]_storesVars
  PROVE  SInv' /\ [Sql!Durable!Next]_Sql!Durable!durableVars
<1>1. ASSUME NEW t \in Txs, Sql!Call(t)
      PROVE  SInv' /\ [Sql!Durable!Next]_Sql!Durable!durableVars
  <2>1. SInv' /\ UNCHANGED <<db, wal, SqlAnswered, SqlRefused>>
    BY <1>1, SqlCallInv
  <2> QED
    BY <2>1 DEF Sql!Durable!durableVars, Sql!Content, SqlAnswered, SqlRefused
<1>2. CASE Sql!Transaction
  <2>0. SInv' /\ db.state = "whole" /\ UNCHANGED db
    BY <1>2, SqlTransactionMaps
  <2>1. CASE UNCHANGED <<wal, SqlAnswered, SqlRefused>>
    BY <2>0, <2>1 DEF Sql!Durable!durableVars, Sql!Content, SqlAnswered, SqlRefused
  <2>2. CASE /\ Sql!Content' = Sql!Content \cup {holder} /\ holder \in Txs \ SqlRefused
             /\ UNCHANGED <<SqlAnswered, SqlRefused>>
    <3>1. PICK t \in Txs : t = holder
      BY <2>2
    <3>2. Sql!Durable!Commit(t)
      BY <2>0, <2>2, <3>1 DEF Sql!Durable!Commit, SqlAnswered, SqlRefused
    <3> QED
      BY <2>0, <3>2 DEF Sql!Durable!Next
  <2>3. CASE /\ UNCHANGED wal /\ holder \in Sql!Content /\ holder \in Txs
             /\ SqlAnswered' = SqlAnswered \cup {holder} /\ UNCHANGED SqlRefused
    <3>1. Sql!Content' = Sql!Content
      BY <2>0, <2>3 DEF Sql!Content
    <3>2. PICK t \in Txs : t = holder
      BY <2>3
    <3>3. Sql!Durable!Answer(t)
      BY <2>0, <2>3, <3>1, <3>2 DEF Sql!Durable!Answer, SqlAnswered, SqlRefused
    <3> QED
      BY <2>0, <3>3 DEF Sql!Durable!Next
  <2>4. CASE /\ UNCHANGED wal /\ holder \notin Sql!Content /\ holder \in Txs
             /\ SqlRefused' = SqlRefused \cup {holder} /\ UNCHANGED SqlAnswered
    <3>1. Sql!Content' = Sql!Content
      BY <2>0, <2>4 DEF Sql!Content
    <3>2. PICK t \in Txs : t = holder
      BY <2>4
    <3>3. Sql!Durable!Refuse(t)
      BY <2>0, <2>4, <3>1, <3>2 DEF Sql!Durable!Refuse, SqlAnswered, SqlRefused
    <3> QED
      BY <2>0, <3>3 DEF Sql!Durable!Next
  <2> QED
    BY <1>2, <2>1, <2>2, <2>3, <2>4, SqlTransactionMaps
<1>3. CASE Sql!Checkpoint
  BY <1>3, SqlCheckpointMaps DEF Sql!Durable!durableVars, SqlAnswered, SqlRefused
<1>4. CASE Sql!Crash
  <2>1. CASE UNCHANGED <<db, wal>>
    BY <1>4, <2>1, SqlCrashMaps DEF Sql!Durable!durableVars, Sql!Content, SqlAnswered, SqlRefused
  <2>2. CASE db'.state = "rotten" /\ Sql!Content' = {}
    <3>1. Sql!Durable!Damage
      BY <1>4, <2>2, SqlCrashMaps DEF Sql!Durable!Damage, SqlAnswered, SqlRefused
    <3> QED
      BY <1>4, <3>1, SqlCrashMaps DEF Sql!Durable!Next
  <2> QED
    BY <1>4, <2>1, <2>2, SqlCrashMaps
<1>5. ASSUME \/ Sql!Start
             \/ /\ sqlPhase = "unavailable" /\ sqlPhase' = "down"
                /\ UNCHANGED <<db, wal, pending, holder, at, line, known>>
      PROVE  SInv' /\ [Sql!Durable!Next]_Sql!Durable!durableVars
  <2>1. /\ SInv' /\ UNCHANGED <<SqlAnswered, SqlRefused>> /\ Sql!Content' = Sql!Content
        /\ db'.state = "rotten" => db.state = "rotten"
    BY <1>5, SqlStartMaps
  <2>2. CASE db'.state = "rotten" <=> db.state = "rotten"
    BY <2>1, <2>2 DEF Sql!Durable!durableVars, SqlAnswered, SqlRefused
  <2>3. CASE db.state = "rotten" /\ db'.state # "rotten"
    <3>1. Sql!Durable!Repair
      BY <2>1, <2>3 DEF Sql!Durable!Repair, SqlAnswered, SqlRefused
    <3> QED
      BY <2>1, <3>1 DEF Sql!Durable!Next
  <2> QED
    BY <2>1, <2>2, <2>3
<1>6. CASE UNCHANGED sqlVars
  <2>1. SInv'
    BY <1>6 DEF sqlVars, SInv, Sql!TypeOK, SqlLockHeld, SqlLineWaits, SqlLineOnce,
                ViewOfContent, ContentIsDone, PhaseOfDb, Sql!Content
  <2> QED
    BY <1>6, <2>1 DEF sqlVars, Sql!Durable!durableVars, Sql!Content
<1> QED
  BY <1>1, <1>2, <1>3, <1>4, <1>5, <1>6
     DEF StoresNext, Choose, FallBack, JsonStep, SqliteStep, Dies, WriteBack, CallSqlite,
         storesVars

\* Transactions on the database take effect as a whole, each on top of those
\* before it, and not at all if they were rolled back, whichever statement fails and wherever the process dies, whatever
\* other starts do on the JSON file (createSqlitePersistenceDriver,
\* openSqliteWithContinuity, createPersistenceDriver); only a damaged database
\* is set aside.
THEOREM SqlDurability == ASSUME NeverBusy PROVE StoresSpec => SqliteImplementsDurableStore
<1>1. StoresInit => Sql!Durable!Init
  BY DEF StoresInit, Sql!Init, Sql!Missing, Sql!Content, Sql!Durable!Init
<1>2. SInv /\ [StoresNext]_storesVars => SInv' /\ [Sql!Durable!Next]_Sql!Durable!durableVars
  BY SqlStepMaps
<1> QED
  BY <1>1, <1>2, SqlInitInv, PTL
     DEF StoresSpec, SqliteImplementsDurableStore, Sql!ImplementsDurableStore,
         Sql!Durable!Spec

-----------------------------------------------------------------------------
(* The JSON driver under the bot that chooses.                             *)

\* A process that does not use the JSON driver has not opened its file.
OpenIsChosen == driver # "json" => phase = "down"

\* A step of that bot is one of the JSON driver or leaves it alone; a crash of
\* a process that is on SQLite counts as a crash all the same, and a power
\* failure reaches the file then too.
JsonIdles == UNCHANGED jsonVars /\ crashes' \in {crashes, crashes + 1}
FileLosesPower ==
    /\ phase = "down" /\ PowerFails
    /\ UNCHANGED <<mem, lockVars, phase>> /\ crashes' = crashes + 1

JsonStepMaps == [Next]_vars \/ JsonIdles \/ FileLosesPower

LEMMA DiesIsJson ==
  ASSUME OpenIsChosen, Dies
  PROVE  OpenIsChosen' /\ JsonStepMaps
<1>1. CASE driver = "json" /\ (Crash \/ StartFails)
  <2>1. phase' = "down"
    BY <1>1 DEF Crash, StartFails
  <2> QED
    BY <1>1, <2>1 DEF OpenIsChosen, JsonStepMaps, Next, Start
<1>2. CASE /\ driver = "sqlite" /\ Sql!Crash
           /\ UNCHANGED diskVars \/ PowerFails
           /\ UNCHANGED <<mem, lockVars, phase>>
  <2>1. phase = "down" /\ phase' = "down" /\ crashes' = crashes + 1
    BY <1>2 DEF OpenIsChosen, Sql!Crash
  <2>2. CASE UNCHANGED diskVars
    BY <1>2, <2>1, <2>2 DEF OpenIsChosen, JsonStepMaps, JsonIdles, jsonVars, diskVars, lockVars
  <2>3. CASE PowerFails
    BY <1>2, <2>1, <2>3 DEF OpenIsChosen, JsonStepMaps, FileLosesPower
  <2> QED
    BY <1>2, <2>2, <2>3
<1> QED
  BY <1>1, <1>2 DEF Dies

LEMMA JsonPart ==
  ASSUME OpenIsChosen, [StoresNext]_storesVars
  PROVE  OpenIsChosen' /\ JsonStepMaps
<1>1. CASE JsonStep
  <2>1. driver' = "json" /\ [Next]_vars
    BY <1>1 DEF JsonStep, CallJson, Next, Start
  <2> QED
    BY <2>1 DEF OpenIsChosen, JsonStepMaps
<1>2. CASE Dies
  BY <1>2, DiesIsJson
<1>3. CASE Choose \/ FallBack \/ UNCHANGED storesVars
  <2>1. UNCHANGED vars
    BY <1>3 DEF Choose, FallBack, storesVars
  <2>2. UNCHANGED phase /\ (phase = "down" \/ driver' = driver)
    BY <1>3, <2>1 DEF OpenIsChosen, Choose, FallBack, storesVars, vars
  <2> QED
    BY <2>1, <2>2 DEF OpenIsChosen, JsonStepMaps
<1>4. CASE SqliteStep
  <2>1. UNCHANGED jsonVars /\ UNCHANGED <<phase, driver>>
    BY <1>4 DEF SqliteStep, jsonVars
  <2>2. SUFFICES UNCHANGED crashes
    BY <2>1 DEF JsonStepMaps, JsonIdles, OpenIsChosen
  <2>3. CASE Sql!Start
    BY <2>3 DEF Sql!Start, Sql!NoModule, Sql!Open, Sql!OpenFails, Sql!RenameDb,
                Sql!RenameWal, Sql!OpenAgain, Sql!GivesUp, Sql!Opening
  <2>4. CASE Sql!Transaction
    BY <2>4 DEF Sql!Transaction, Sql!Take, Sql!Ends, Sql!BeginFails, Sql!Begin, Sql!Work,
                Sql!Rollback, Sql!Commit, Sql!Return
  <2>5. CASE Sql!Checkpoint \/ \E t \in Txs : CallSqlite(t)
    BY <2>5 DEF Sql!Checkpoint, CallSqlite, Sql!Call
  <2> QED
    BY <1>4, <2>3, <2>4, <2>5 DEF SqliteStep
<1>5. CASE WriteBack
  BY <1>5 DEF WriteBack, Flush, OpenIsChosen, JsonStepMaps, Next
<1> QED
  BY <1>1, <1>2, <1>3, <1>4, <1>5 DEF StoresNext

\* The file of a driver that is not at work may lose its latest transactions.
LEMMA FileLosesPowerMaps ==
  ASSUME FileLosesPower
  PROVE  /\ IInv => IInv'
         /\ DInv => DInv' /\ Maps
<1>1. /\ UNCHANGED <<mem, snap, owner, step, waiting, outcome, phase>>
      /\ phase = "down" /\ crashes' = crashes + 1
  BY DEF FileLosesPower, lockVars
<1>2. ASSUME IInv PROVE IInv'
  <2>1. file' \in File /\ tmp' \in File /\ older' \in SUBSET File
    BY <1>2, StopTypes DEF FileLosesPower
  <2>2. step = "free"
    BY <1>1, <1>2 DEF IInv, LockHeld
  <2> QED
    BY <1>1, <1>2, <2>1, <2>2
       DEF IInv, TypeOK, LockHeld, LineWaits, LineOnce, CopyOfMemory, TmpIsWhole, FileOfMemory
<1>3. ASSUME DInv PROVE DInv' /\ Maps
  <2>1. /\ DiskStep /\ OlderFiles' /\ Held' \subseteq Held
        /\ file'.state # "whole" => file'.data = {}
    BY <1>3, StopMaps DEF FileLosesPower
  <2>2. HeldIsDone' /\ SetAsideIsTorn'
    BY <1>1, <1>3, <2>1, HeldStays DEF DInv, SetAsideIsTorn
  <2>3. UNCHANGED <<Answered, Refused>>
    BY <1>1 DEF Answered, Refused
  <2> QED
    BY <1>2, <1>3, <2>1, <2>2, <2>3, DiskStepMaps DEF DInv
<1> QED
  BY <1>2, <1>3

LEMMA IdleKeeps ==
  ASSUME JsonIdles
  PROVE  /\ IInv => IInv'
         /\ DInv => DInv' /\ Maps
<1>1. UNCHANGED <<file, tmp, older, mem, snap, owner, step, waiting, outcome, phase>>
  BY DEF JsonIdles, jsonVars
<1>2. IInv => IInv'
  BY <1>1 DEF JsonIdles, IInv, TypeOK, LockHeld, LineWaits, LineOnce, CopyOfMemory,
              TmpIsWhole, FileOfMemory
<1>3. Maps
  BY <1>1, DiskStepMaps DEF DiskStep, Answered, Refused
<1> QED
  BY <1>1, <1>2, <1>3 DEF DInv, SetAsideIsTorn, OlderFiles, HeldIsDone, Held

\* Memory and file agree between transactions under the bot that chooses too:
\* a start that goes to SQLite leaves the file of the JSON driver as it is.
THEOREM MemoryAgreesAmongStores == StoresSpec => []MemoryIsFile
<1>1. OpenIsChosen /\ IInv /\ [StoresNext]_storesVars => OpenIsChosen' /\ IInv'
  BY JsonPart, IdleKeeps, FileLosesPowerMaps, NextInv DEF JsonStepMaps
<1>2. StoresInit => OpenIsChosen /\ IInv
  BY InitInv DEF StoresInit, Init, OpenIsChosen
<1>3. IInv => MemoryIsFile
  BY DEF IInv, FileOfMemory, MemoryIsFile
<1> QED
  BY <1>1, <1>2, <1>3, PTL DEF StoresSpec

\* And its transactions stay atomic, one on top of the other and without effect
\* where they failed, however often the bot has gone to SQLite in between; a
\* power failure undoes the latest of them, and only a torn file takes all
\* (createPersistenceDriver, openJsonWithContinuity).
THEOREM DurabilityAmongStores ==
  ASSUME ReadsBack PROVE StoresSpec => ImplementsDurableStore
<1>1. StoresInit => Durable!Init
  BY DEF StoresInit, Init, Missing, Durable!Init
<1>2. /\ OpenIsChosen /\ DInv /\ [StoresNext]_storesVars
      => OpenIsChosen' /\ DInv' /\ [Durable!Next]_Durable!durableVars
  BY JsonPart, IdleKeeps, FileLosesPowerMaps, StepMaps DEF JsonStepMaps, Maps
<1>3. StoresInit => OpenIsChosen /\ DInv
  BY InitDInv DEF StoresInit, Init, OpenIsChosen
<1> QED
  BY <1>1, <1>2, <1>3, PTL DEF StoresSpec, ImplementsDurableStore, Durable!Spec
=============================================================================
