--------------------------- MODULE ChatLockProofs ---------------------------
(***************************************************************************)
(* The lock of chat-lock-manager.ts, for any chats and any calls: two      *)
(* handlers of one chat never run at once, no waiting call is forgotten,   *)
(* and the map of states holds no entry that nobody holds.                 *)
(***************************************************************************)
EXTENDS ChatLock, SequenceTheorems, TLAPS

\* Whoever runs holds the flag of its chat, and the flag is set for nobody else.
HeldByRunning == \A c \in Chats : active[c] <=> \E j \in Jobs : ChatOf[j] = c /\ pc[j] = "running"

\* The two words of an entry agree; without a holder nobody waits.
EntryOfHolder ==
    \A c \in Chats : (present[c] <=> active[c]) /\ (~active[c] => queue[c] = <<>>)

\* A queue holds waiting calls of its own chat, each at one place.
QueueHoldsWaiting ==
    \A c \in Chats : \A i \in 1..Len(queue[c]) :
        ChatOf[queue[c][i]] = c /\ pc[queue[c][i]] = "queued"

QueueHoldsOnce ==
    \A c \in Chats : \A i, k \in 1..Len(queue[c]) : queue[c][i] = queue[c][k] => i = k

\* Every waiting call is in the queue of its chat.
WaitingInQueue ==
    \A j \in Jobs : pc[j] = "queued" =>
        \E i \in 1..Len(queue[ChatOf[j]]) : queue[ChatOf[j]][i] = j

IInv ==
    /\ TypeOK
    /\ MutualExclusion
    /\ HeldByRunning
    /\ EntryOfHolder
    /\ QueueHoldsWaiting
    /\ QueueHoldsOnce
    /\ WaitingInQueue

-----------------------------------------------------------------------------
\* The empty map satisfies the invariant.
LEMMA InitInv == Init => IInv
<1> SUFFICES ASSUME Init PROVE IInv
  OBVIOUS
<1>1. TypeOK
  BY DEF Init, TypeOK
<1>2. HeldByRunning /\ EntryOfHolder /\ MutualExclusion /\ WaitingInQueue
  BY ChatOfAssumption DEF Init, HeldByRunning, EntryOfHolder, MutualExclusion, WaitingInQueue
<1>3. QueueHoldsWaiting /\ QueueHoldsOnce
  BY DEF Init, QueueHoldsWaiting, QueueHoldsOnce
<1> QED
  BY <1>1, <1>2, <1>3 DEF IInv

\* A call that finds the flag down takes it and runs.
LEMMA RunNowInv ==
  ASSUME IInv, NEW j \in Jobs, RunNow(j)
  PROVE  IInv'
<1> DEFINE c == ChatOf[j]
<1> USE ChatOfAssumption DEF IInv
<1>0. c \in Chats /\ queue' = queue /\ pc[j] = "idle" /\ ~active[c]
  BY DEF RunNow
<1>1. TypeOK'
  BY DEF TypeOK, RunNow
<1>2. \A i \in Jobs : ChatOf[i] = c => pc[i] # "running"
  BY <1>0 DEF HeldByRunning
<1>3. /\ pc'[j] = "running" /\ active'[c] /\ present'[c]
      /\ \A i \in Jobs : i # j => pc'[i] = pc[i]
      /\ \A d \in Chats : d # c => active'[d] = active[d] /\ present'[d] = present[d]
  BY <1>0 DEF TypeOK, RunNow
<1>4. MutualExclusion'
  BY <1>2, <1>3 DEF MutualExclusion
<1>5. HeldByRunning'
  BY <1>0, <1>3 DEF HeldByRunning
<1>6. EntryOfHolder'
  BY <1>0, <1>3 DEF EntryOfHolder
<1>7. QueueHoldsWaiting'
  BY <1>0, <1>3 DEF QueueHoldsWaiting, TypeOK
<1>8. QueueHoldsOnce'
  BY <1>0 DEF QueueHoldsOnce
<1>9. WaitingInQueue'
  BY <1>0, <1>3 DEF WaitingInQueue
<1> QED
  BY <1>1, <1>4, <1>5, <1>6, <1>7, <1>8, <1>9

\* A call that finds the flag up goes to the back of the queue.
LEMMA EnqueueInv ==
  ASSUME IInv, NEW j \in Jobs, Enqueue(j)
  PROVE  IInv'
<1> DEFINE c == ChatOf[j]
           q == queue[c]
<1> USE ChatOfAssumption DEF IInv
<1>0. c \in Chats /\ active' = active /\ present' = present /\ pc[j] = "idle" /\ active[c]
  BY DEF Enqueue
<1>1. TypeOK'
  <2>1. q \in Seq(Jobs) /\ Append(q, j) \in Seq(Jobs)
    BY <1>0 DEF TypeOK
  <2>2. queue' = [queue EXCEPT ![c] = Append(q, j)] /\ pc' = [pc EXCEPT ![j] = "queued"]
    BY DEF Enqueue
  <2>3. queue' \in [Chats -> Seq(Jobs)]
    BY <1>0, <2>1, <2>2 DEF TypeOK
  <2> QED
    BY <1>0, <2>2, <2>3 DEF TypeOK
<1>2. /\ pc'[j] = "queued"
      /\ \A i \in Jobs : i # j => pc'[i] = pc[i]
      /\ queue'[c] = Append(q, j)
      /\ \A d \in Chats : d # c => queue'[d] = queue[d]
  BY <1>0 DEF TypeOK, Enqueue
<1>3. /\ q \in Seq(Jobs) /\ Len(q) \in Nat /\ Len(queue'[c]) = Len(q) + 1
      /\ queue'[c][Len(q) + 1] = j
      /\ \A i \in 1..Len(q) : queue'[c][i] = q[i] /\ q[i] \in Jobs
  BY <1>0, <1>2 DEF TypeOK
<1>4. \A i \in 1..Len(q) : q[i] # j
  BY <1>0 DEF QueueHoldsWaiting
<1>5. MutualExclusion'
  BY <1>0, <1>2 DEF MutualExclusion
<1>6. HeldByRunning'
  BY <1>0, <1>2 DEF HeldByRunning
<1>7. EntryOfHolder'
  BY <1>0, <1>2 DEF EntryOfHolder
<1>8. QueueHoldsWaiting'
  <2> SUFFICES ASSUME NEW d \in Chats, NEW i \in 1..Len(queue'[d])
               PROVE  ChatOf[queue'[d][i]] = d /\ pc'[queue'[d][i]] = "queued"
    BY DEF QueueHoldsWaiting
  <2>1. CASE d # c
    <3>1. queue[d] \in Seq(Jobs) /\ queue'[d] = queue[d]
      BY <1>2, <2>1 DEF TypeOK
    <3>2. queue[d][i] \in Jobs /\ ChatOf[queue[d][i]] = d /\ pc[queue[d][i]] = "queued"
      BY <3>1 DEF QueueHoldsWaiting
    <3> QED
      BY <1>2, <2>1, <3>1, <3>2
  <2>2. CASE d = c /\ i = Len(q) + 1
    BY <1>2, <1>3, <2>2
  <2>3. CASE d = c /\ i # Len(q) + 1
    <3>1. i \in 1..Len(q)
      BY <1>3, <2>3
    <3> QED
      BY <1>0, <1>2, <1>3, <1>4, <2>3, <3>1 DEF QueueHoldsWaiting
  <2> QED
    BY <2>1, <2>2, <2>3
<1>9. QueueHoldsOnce'
  <2> SUFFICES ASSUME NEW d \in Chats, NEW i \in 1..Len(queue'[d]),
                      NEW k \in 1..Len(queue'[d]), queue'[d][i] = queue'[d][k]
               PROVE  i = k
    BY DEF QueueHoldsOnce
  <2>1. CASE d # c
    BY <1>2, <2>1 DEF QueueHoldsOnce
  <2>2. CASE d = c /\ (i = Len(q) + 1 \/ k = Len(q) + 1)
    BY <1>3, <1>4, <2>2
  <2>3. CASE d = c /\ i # Len(q) + 1 /\ k # Len(q) + 1
    <3>1. i \in 1..Len(q) /\ k \in 1..Len(q)
      BY <1>3, <2>3
    <3> QED
      BY <1>0, <1>3, <2>3, <3>1 DEF QueueHoldsOnce
  <2> QED
    BY <2>1, <2>2, <2>3
<1>10. WaitingInQueue'
  <2> SUFFICES ASSUME NEW i \in Jobs, pc'[i] = "queued"
               PROVE  \E k \in 1..Len(queue'[ChatOf[i]]) : queue'[ChatOf[i]][k] = i
    BY DEF WaitingInQueue
  <2>1. CASE i = j
    <3>1. Len(q) + 1 \in 1..Len(queue'[c])
      BY <1>3
    <3> QED
      BY <1>3, <2>1, <3>1
  <2>2. CASE i # j
    <3>1. PICK k \in 1..Len(queue[ChatOf[i]]) : queue[ChatOf[i]][k] = i
      BY <1>2, <2>2 DEF WaitingInQueue
    <3>2. CASE ChatOf[i] = c
      BY <1>3, <3>1, <3>2
    <3>3. CASE ChatOf[i] # c
      BY <1>2, <3>1, <3>3
    <3> QED
      BY <3>2, <3>3
  <2> QED
    BY <2>1, <2>2
<1> QED
  BY <1>1, <1>5, <1>6, <1>7, <1>8, <1>9, <1>10

\* A release wakes up the first of the queue; the flag stays up.
LEMMA ReleaseToNextInv ==
  ASSUME IInv, NEW j \in Jobs, pc[j] = "running", ReleaseToNext(j, ChatOf[j])
  PROVE  IInv'
<1> DEFINE c == ChatOf[j]
           q == queue[c]
           n == Head(q)
<1> USE ChatOfAssumption DEF IInv
<1>0. c \in Chats /\ present' = present /\ q # <<>> /\ active[c]
  BY DEF ReleaseToNext, EntryOfHolder
<1>1. /\ q \in Seq(Jobs) /\ Len(q) \in Nat \ {0} /\ n = q[1] /\ n \in Jobs
      /\ Tail(q) \in Seq(Jobs) /\ Len(Tail(q)) = Len(q) - 1
      /\ \A i \in 1..Len(Tail(q)) : Tail(q)[i] = q[i + 1]
  BY <1>0 DEF TypeOK
<1>2. ChatOf[n] = c /\ pc[n] = "queued" /\ n # j
  BY <1>0, <1>1 DEF QueueHoldsWaiting
<1>3. /\ pc'[j] = "idle" /\ pc'[n] = "running"
      /\ \A i \in Jobs : i # j /\ i # n => pc'[i] = pc[i]
      /\ queue'[c] = Tail(q)
      /\ \A d \in Chats : d # c => queue'[d] = queue[d]
      /\ active' = active
  BY <1>0, <1>1, <1>2 DEF TypeOK, ReleaseToNext
<1>4. TypeOK'
  <2>1. queue' = [queue EXCEPT ![c] = Tail(q)]
    BY DEF ReleaseToNext
  <2>2. queue' \in [Chats -> Seq(Jobs)]
    BY <1>0, <1>1, <2>1 DEF TypeOK
  <2>3. pc' \in [Jobs -> {"idle", "queued", "running"}]
    BY <1>1 DEF ReleaseToNext, TypeOK
  <2> QED
    BY <1>0, <1>3, <2>2, <2>3 DEF TypeOK
<1>5. \A i \in Jobs : ChatOf[i] = c /\ pc[i] = "running" => i = j
  BY DEF MutualExclusion
<1>6. MutualExclusion'
  BY <1>2, <1>3, <1>5 DEF MutualExclusion
<1>7. HeldByRunning'
  BY <1>0, <1>1, <1>2, <1>3 DEF HeldByRunning
<1>8. EntryOfHolder'
  BY <1>0, <1>3 DEF EntryOfHolder
<1>9. QueueHoldsWaiting'
  <2> SUFFICES ASSUME NEW d \in Chats, NEW i \in 1..Len(queue'[d])
               PROVE  ChatOf[queue'[d][i]] = d /\ pc'[queue'[d][i]] = "queued"
    BY DEF QueueHoldsWaiting
  <2>1. CASE d # c
    <3>1. queue[d] \in Seq(Jobs) /\ queue'[d] = queue[d]
      BY <1>3, <2>1 DEF TypeOK
    <3>2. queue[d][i] \in Jobs /\ ChatOf[queue[d][i]] = d /\ pc[queue[d][i]] = "queued"
      BY <3>1 DEF QueueHoldsWaiting
    <3> QED
      BY <1>2, <1>3, <2>1, <3>1, <3>2
  <2>2. CASE d = c
    <3>0. queue'[d] = Tail(q) /\ i \in 1..Len(Tail(q))
      BY <1>3, <2>2
    <3>1. i + 1 \in 1..Len(q) /\ queue'[d][i] = q[i + 1] /\ 1 \in 1..Len(q) /\ i + 1 # 1
      <4> HIDE DEF q
      <4> QED
        BY <1>1, <3>0
    <3>2. q[i + 1] \in Jobs /\ ChatOf[q[i + 1]] = c /\ pc[q[i + 1]] = "queued"
      BY <1>0, <1>1, <3>1 DEF QueueHoldsWaiting
    <3>3. q[i + 1] # n
      BY <1>0, <1>1, <3>1 DEF QueueHoldsOnce
    <3> QED
      BY <1>3, <2>2, <3>1, <3>2, <3>3
  <2> QED
    BY <2>1, <2>2
<1>10. QueueHoldsOnce'
  <2> SUFFICES ASSUME NEW d \in Chats, NEW i \in 1..Len(queue'[d]),
                      NEW k \in 1..Len(queue'[d]), queue'[d][i] = queue'[d][k]
               PROVE  i = k
    BY DEF QueueHoldsOnce
  <2>1. CASE d # c
    BY <1>3, <2>1 DEF QueueHoldsOnce
  <2>2. CASE d = c
    <3>0. queue'[d] = Tail(q) /\ i \in 1..Len(Tail(q)) /\ k \in 1..Len(Tail(q))
      BY <1>3, <2>2
    <3>1. /\ i + 1 \in 1..Len(q) /\ k + 1 \in 1..Len(q)
          /\ q[i + 1] = q[k + 1] /\ i \in Nat /\ k \in Nat
      <4> HIDE DEF q
      <4> QED
        BY <1>1, <3>0
    <3>2. i + 1 = k + 1
      BY <1>0, <3>1 DEF QueueHoldsOnce
    <3> QED
      BY <3>1, <3>2
  <2> QED
    BY <2>1, <2>2
<1>11. WaitingInQueue'
  <2> SUFFICES ASSUME NEW i \in Jobs, pc'[i] = "queued"
               PROVE  \E k \in 1..Len(queue'[ChatOf[i]]) : queue'[ChatOf[i]][k] = i
    BY DEF WaitingInQueue
  <2>1. i # n /\ pc[i] = "queued" /\ ChatOf[i] \in Chats
    BY <1>3
  <2>2. PICK k \in 1..Len(queue[ChatOf[i]]) : queue[ChatOf[i]][k] = i
    BY <2>1 DEF WaitingInQueue
  <2>3. CASE ChatOf[i] = c
    <3>1. k # 1 /\ k - 1 \in 1..Len(Tail(q)) /\ (k - 1) + 1 = k
      BY <1>1, <2>1, <2>2, <2>3
    <3>2. Tail(q)[k - 1] = i
      BY <1>1, <2>2, <2>3, <3>1
    <3> QED
      BY <1>3, <2>3, <3>1, <3>2
  <2>4. CASE ChatOf[i] # c
    BY <1>3, <2>1, <2>2, <2>4
  <2> QED
    BY <2>3, <2>4
<1> QED
  BY <1>4, <1>6, <1>7, <1>8, <1>9, <1>10, <1>11

\* A release with nobody waiting drops the entry.
LEMMA ReleaseLastInv ==
  ASSUME IInv, NEW j \in Jobs, pc[j] = "running", ReleaseLast(j, ChatOf[j])
  PROVE  IInv'
<1> DEFINE c == ChatOf[j]
<1> USE ChatOfAssumption DEF IInv
<1>0. c \in Chats /\ queue' = queue /\ queue[c] = <<>>
  BY DEF ReleaseLast
<1>1. TypeOK'
  BY DEF TypeOK, ReleaseLast
<1>2. /\ pc'[j] = "idle" /\ ~active'[c] /\ ~present'[c]
      /\ \A i \in Jobs : i # j => pc'[i] = pc[i]
      /\ \A d \in Chats : d # c => active'[d] = active[d] /\ present'[d] = present[d]
  BY <1>0 DEF TypeOK, ReleaseLast
<1>3. \A i \in Jobs : ChatOf[i] = c /\ pc[i] = "running" => i = j
  BY DEF MutualExclusion
<1>4. MutualExclusion'
  BY <1>2 DEF MutualExclusion
<1>5. HeldByRunning'
  BY <1>0, <1>2, <1>3 DEF HeldByRunning
<1>6. EntryOfHolder'
  BY <1>0, <1>2 DEF EntryOfHolder
<1>7. QueueHoldsWaiting'
  <2> SUFFICES ASSUME NEW d \in Chats, NEW i \in 1..Len(queue[d])
               PROVE  ChatOf[queue[d][i]] = d /\ pc'[queue[d][i]] = "queued"
    BY <1>0 DEF QueueHoldsWaiting
  <2>1. queue[d][i] \in Jobs /\ ChatOf[queue[d][i]] = d /\ pc[queue[d][i]] = "queued"
    BY DEF QueueHoldsWaiting, TypeOK
  <2> QED
    BY <1>2, <2>1
<1>8. QueueHoldsOnce'
  BY <1>0 DEF QueueHoldsOnce
<1>9. WaitingInQueue'
  BY <1>0, <1>2 DEF WaitingInQueue
<1> QED
  BY <1>1, <1>4, <1>5, <1>6, <1>7, <1>8, <1>9

\* Every step of the lock, and every step of something else, keeps it.
LEMMA StepInv == IInv /\ [Next]_vars => IInv'
<1> SUFFICES ASSUME IInv, [Next]_vars PROVE IInv'
  OBVIOUS
<1>1. ASSUME NEW j \in Jobs, RunNow(j) PROVE IInv'
  BY <1>1, RunNowInv
<1>2. ASSUME NEW j \in Jobs, Enqueue(j) PROVE IInv'
  BY <1>2, EnqueueInv
<1>3. ASSUME NEW j \in Jobs, Settle(j) PROVE IInv'
  BY <1>3, ReleaseToNextInv, ReleaseLastInv DEF Settle, Release
<1>4. CASE UNCHANGED vars
  BY <1>4 DEF vars, IInv, TypeOK, MutualExclusion, HeldByRunning, EntryOfHolder,
              QueueHoldsWaiting, QueueHoldsOnce, WaitingInQueue
<1> QED
  BY <1>1, <1>2, <1>3, <1>4 DEF Next, RunExclusive

-----------------------------------------------------------------------------
\* The invariant holds in every state the lock reaches.
LEMMA Invariance == Spec => []IInv
BY InitInv, StepInv, PTL DEF Spec

\* The entries, queues and calls keep their types.
THEOREM Typing == Spec => []TypeOK
<1>1. IInv => TypeOK
  BY DEF IInv
<1> QED
  BY <1>1, Invariance, PTL

\* Handlers of one chat never run at once (runExclusive).
THEOREM Exclusion == Spec => []MutualExclusion
<1>1. IInv => MutualExclusion
  BY DEF IInv
<1> QED
  BY <1>1, Invariance, PTL

\* A waiting call is in the queue that the running one will look at (release).
THEOREM Wakeup == Spec => []NoLostWakeup
<1>1. IInv => NoLostWakeup
  <2> SUFFICES ASSUME IInv, NEW j \in Jobs, pc[j] = "queued"
               PROVE  /\ Running(ChatOf[j]) # {}
                      /\ \E i \in DOMAIN queue[ChatOf[j]] : queue[ChatOf[j]][i] = j
    BY DEF NoLostWakeup
  <2>1. ChatOf[j] \in Chats /\ queue[ChatOf[j]] \in Seq(Jobs)
    BY ChatOfAssumption DEF IInv, TypeOK
  <2>2. PICK i \in 1..Len(queue[ChatOf[j]]) : queue[ChatOf[j]][i] = j
    BY DEF IInv, WaitingInQueue
  <2>3. queue[ChatOf[j]] # <<>>
    BY <2>1, <2>2
  <2>4. active[ChatOf[j]]
    BY <2>1, <2>3 DEF IInv, EntryOfHolder
  <2>5. Running(ChatOf[j]) # {}
    BY <2>1, <2>4 DEF IInv, HeldByRunning, Running
  <2> QED
    BY <2>1, <2>2, <2>5
<1> QED
  BY <1>1, Invariance, PTL

\* The map has an entry exactly for the chats whose handler runs.
THEOREM Entries == Spec => []EntryIffHeld
<1>1. IInv => EntryIffHeld
  BY DEF IInv, HeldByRunning, EntryOfHolder, EntryIffHeld, Running
<1> QED
  BY <1>1, Invariance, PTL

-----------------------------------------------------------------------------
(* The lock implements FifoMutex.  The line of a chat is the call that     *)
(* runs and then the queue.                                                *)

\* What one element in front of a sequence does.
LEMMA InFront ==
  ASSUME NEW S, NEW q \in Seq(S), NEW j \in S, NEW k \in S
  PROVE  /\ <<j>> \o q \in Seq(S) /\ <<j>> \o q # <<>>
         /\ Head(<<j>> \o q) = j /\ Tail(<<j>> \o q) = q
         /\ <<j>> \o Append(q, k) = Append(<<j>> \o q, k)
         /\ q # <<>> => <<Head(q)>> \o Tail(q) = q
         /\ DOMAIN (<<j>> \o q) = 1..(Len(q) + 1)
         /\ \A i \in 1..Len(q) : (<<j>> \o q)[i + 1] = q[i]
<1>1. <<j>> \in Seq(S) /\ Len(<<j>>) = 1 /\ <<j>>[1] = j
  OBVIOUS
<1> QED
  BY <1>1

\* The line of a chat with a running call, and of one without.
LEMMA LineOfHeld ==
  ASSUME IInv, NEW c \in Chats, NEW j \in Jobs, ChatOf[j] = c, pc[j] = "running"
  PROVE  Running(c) = {j} /\ LineOf(c) = <<j>> \o queue[c]
<1>1. Running(c) = {j}
  BY DEF IInv, MutualExclusion, Running
<1> QED
  BY <1>1 DEF LineOf

LEMMA LineOfFree ==
  ASSUME IInv, NEW c \in Chats, ~active[c]
  PROVE  Running(c) = {} /\ LineOf(c) = <<>> /\ queue[c] = <<>>
BY DEF IInv, HeldByRunning, EntryOfHolder, Running, LineOf

\* What a step leaves alone of a chat, it leaves alone of the chat's line.
LEMMA OtherLine ==
  ASSUME NEW c \in Chats, queue'[c] = queue[c],
         \A j \in Jobs : ChatOf[j] = c => (pc'[j] = "running" <=> pc[j] = "running")
  PROVE  Running(c)' = Running(c) /\ LineOf(c)' = LineOf(c)
<1>1. Running(c)' = Running(c)
  BY DEF Running
<1> QED
  BY <1>1 DEF LineOf

\* The initial states agree.
LEMMA MapInit == Init => Mutex!Init
<1> SUFFICES ASSUME Init PROVE Mutex!Init
  OBVIOUS
<1>1. \A c \in Chats : Running(c) = {} /\ queue[c] = <<>>
  BY DEF Init, Running
<1> QED
  BY <1>1 DEF Mutex!Init, LineOf

\* A call that runs at once joins an empty line and is let in.
LEMMA MapRunNow ==
  ASSUME IInv, IInv', NEW j \in Jobs, RunNow(j)
  PROVE  Mutex!Join(j)
<1> DEFINE c == ChatOf[j]
<1>1. c \in Chats /\ queue' = queue /\ ~active[c]
  BY ChatOfAssumption DEF RunNow
<1>2. LineOf(c) = <<>> /\ queue[c] = <<>>
  BY <1>1, LineOfFree
<1>3. pc'[j] = "running" /\ \A i \in Jobs : i # j => pc'[i] = pc[i]
  BY DEF RunNow, IInv, TypeOK
<1>4. Running(c)' = {j} /\ LineOf(c)' = <<j>> \o <<>>
  <2>1. Running(c)' = {j}
    BY <1>1, <1>3 DEF IInv, MutualExclusion, Running
  <2> QED
    BY <1>1, <1>2, <2>1 DEF LineOf
<1>5. LineOf(c)' = Append(LineOf(c), j)
  BY <1>2, <1>4
<1>6. \A d \in Chats : d # c => LineOf(d)' = LineOf(d) /\ Running(d)' = Running(d)
  BY <1>1, <1>3, OtherLine
<1>7. [d \in Chats |-> LineOf(d)]' = [[d \in Chats |-> LineOf(d)] EXCEPT ![c] = Append(LineOf(c), j)]
  BY <1>1, <1>5, <1>6
<1>8. [d \in Chats |-> Running(d)]' = [[d \in Chats |-> Running(d)] EXCEPT ![c] = {j}]
  BY <1>1, <1>4, <1>6
<1>9. [d \in Chats |-> LineOf(d)][c] = <<>> /\ DOMAIN <<>> = {}
  BY <1>1, <1>2
<1> QED
  BY <1>2, <1>7, <1>8, <1>9, Zenon DEF Mutex!Join

\* A call that waits joins a line that somebody heads.
LEMMA MapEnqueue ==
  ASSUME IInv, IInv', NEW j \in Jobs, Enqueue(j)
  PROVE  Mutex!Join(j)
<1> DEFINE c == ChatOf[j]
           line == [d \in Chats |-> LineOf(d)]
           inside == [d \in Chats |-> Running(d)]
<1>1. c \in Chats /\ active[c] /\ pc[j] = "idle"
  BY ChatOfAssumption DEF Enqueue
<1>2. PICK r \in Jobs : ChatOf[r] = c /\ pc[r] = "running"
  BY <1>1 DEF IInv, HeldByRunning
<1>3. pc'[j] = "queued" /\ \A i \in Jobs : i # j => pc'[i] = pc[i]
  BY DEF Enqueue, IInv, TypeOK
<1>4. queue[c] \in Seq(Jobs) /\ queue'[c] = Append(queue[c], j)
  BY <1>1 DEF Enqueue, IInv, TypeOK
<1>5. LineOf(c) = <<r>> \o queue[c] /\ LineOf(c)' = <<r>> \o queue'[c]
      /\ Running(c) = {r} /\ Running(c)' = {r}
  <2>1. LineOf(c) = <<r>> \o queue[c] /\ Running(c) = {r}
    BY <1>1, <1>2, LineOfHeld
  <2>2. Running(c)' = {r}
    BY <1>1, <1>2, <1>3, <2>1 DEF Running
  <2> QED
    BY <2>1, <2>2 DEF LineOf
<1>6. LineOf(c)' = Append(LineOf(c), j)
  BY <1>4, <1>5, InFront
<1>7. \A i \in DOMAIN LineOf(c) : LineOf(c)[i] # j
  <2>1. \A i \in 1..Len(queue[c]) : queue[c][i] # j
    BY <1>1 DEF IInv, QueueHoldsWaiting
  <2>2. /\ DOMAIN LineOf(c) = 1..(Len(queue[c]) + 1) /\ Len(queue[c]) \in Nat
        /\ LineOf(c)[1] = r
        /\ \A i \in 1..Len(queue[c]) : LineOf(c)[i + 1] = queue[c][i]
    BY <1>4, <1>5, InFront
  <2>3. ASSUME NEW i \in DOMAIN LineOf(c) PROVE LineOf(c)[i] # j
    <3>1. CASE i = 1
      BY <1>1, <1>2, <2>2, <3>1
    <3>2. CASE i # 1
      <4>1. i - 1 \in 1..Len(queue[c]) /\ (i - 1) + 1 = i
        BY <2>2, <2>3, <3>2
      <4> QED
        BY <2>1, <2>2, <4>1
    <3> QED
      BY <3>1, <3>2
  <2> QED
    BY <2>3
<1>8. \A d \in Chats : d # c => LineOf(d)' = LineOf(d) /\ Running(d)' = Running(d)
  <2> SUFFICES ASSUME NEW d \in Chats, d # c
               PROVE  LineOf(d)' = LineOf(d) /\ Running(d)' = Running(d)
    OBVIOUS
  <2>1. queue'[d] = queue[d]
    BY DEF Enqueue, IInv, TypeOK
  <2> QED
    BY <1>3, <2>1, OtherLine
<1>9. line' = [line EXCEPT ![c] = Append(LineOf(c), j)] /\ inside' = inside
  BY <1>1, <1>5, <1>6, <1>8
<1>10. line[c] = LineOf(c)
  BY <1>1
<1> QED
  <2> HIDE DEF c
  <2> QED
    BY <1>7, <1>9, <1>10, Zenon DEF Mutex!Join, c

\* A release that wakes up the next call is the head leaving and that call
\* going in.
LEMMA MapReleaseToNext ==
  ASSUME IInv, IInv', NEW j \in Jobs, pc[j] = "running", ReleaseToNext(j, ChatOf[j])
  PROVE  Mutex!Finish(j)
<1> DEFINE c == ChatOf[j]
           q == queue[c]
           n == Head(q)
           line == [d \in Chats |-> LineOf(d)]
           inside == [d \in Chats |-> Running(d)]
<1>1. c \in Chats /\ q # <<>> /\ q \in Seq(Jobs) /\ n \in Jobs /\ queue'[c] = Tail(q)
  BY ChatOfAssumption DEF ReleaseToNext, IInv, TypeOK
<1>2. n = q[1] /\ 1 \in 1..Len(q)
  BY <1>1
<1>3. ChatOf[n] = c /\ pc[n] = "queued" /\ n # j
  BY <1>1, <1>2 DEF IInv, QueueHoldsWaiting
<1>4. pc'[n] = "running" /\ \A i \in Jobs : i # j /\ i # n => pc'[i] = pc[i]
  BY <1>1, <1>3 DEF ReleaseToNext, IInv, TypeOK
<1>5. LineOf(c) = <<j>> \o q /\ Running(c) = {j}
  BY <1>1, LineOfHeld
<1>6. LineOf(c)' = q /\ Running(c)' = {n}
  <2>1. Running(c)' = {n}
    BY <1>1, <1>3, <1>4 DEF IInv, MutualExclusion, Running
  <2>2. LineOf(c)' = <<n>> \o Tail(q)
    BY <1>1, <2>1 DEF LineOf
  <2> QED
    BY <1>1, <2>1, <2>2, InFront
<1>7. LineOf(c) # <<>> /\ Head(LineOf(c)) = j /\ Tail(LineOf(c)) = q
  <2> HIDE DEF c, q, n, line, inside
  <2>1. <<j>> \o q # <<>> /\ Head(<<j>> \o q) = j /\ Tail(<<j>> \o q) = q
    BY <1>1, InFront
  <2> QED
    BY <1>5, <2>1
<1>8. \A d \in Chats : d # c => LineOf(d)' = LineOf(d) /\ Running(d)' = Running(d)
  <2> SUFFICES ASSUME NEW d \in Chats, d # c
               PROVE  LineOf(d)' = LineOf(d) /\ Running(d)' = Running(d)
    OBVIOUS
  <2>1. queue'[d] = queue[d]
    BY DEF ReleaseToNext, IInv, TypeOK
  <2> QED
    BY <1>3, <1>4, <2>1, OtherLine
<1>9. line' = [line EXCEPT ![c] = q] /\ inside' = [inside EXCEPT ![c] = {n}]
  BY <1>1, <1>6, <1>8
<1>10. line[c] = LineOf(c) /\ inside[c] = {j}
  BY <1>1, <1>5
<1> QED
  <2> HIDE DEF c, q, n
  <2> QED
    BY <1>1, <1>7, <1>9, <1>10, Zenon DEF Mutex!Finish, c, n

\* A release with nobody waiting is the head leaving an empty line behind.
LEMMA MapReleaseLast ==
  ASSUME IInv, IInv', NEW j \in Jobs, pc[j] = "running", ReleaseLast(j, ChatOf[j])
  PROVE  Mutex!Finish(j)
<1> DEFINE c == ChatOf[j]
           line == [d \in Chats |-> LineOf(d)]
           inside == [d \in Chats |-> Running(d)]
<1>0. LineOf(c) = <<j>> \o queue[c] /\ Running(c) = {j}
  BY LineOfHeld, ChatOfAssumption
<1>1. c \in Chats /\ queue' = queue /\ queue[c] = <<>> /\ ~active'[c]
  BY ChatOfAssumption DEF ReleaseLast, IInv, TypeOK
<1>2. \A i \in Jobs : i # j => pc'[i] = pc[i]
  BY DEF ReleaseLast, IInv, TypeOK
<1>3. LineOf(c) = <<j>> /\ Running(c) = {j}
  <2>1. <<j>> \o <<>> = <<j>>
    OBVIOUS
  <2> QED
    BY <1>0, <1>1, <2>1
<1>4. LineOf(c)' = <<>> /\ Running(c)' = {}
  BY <1>1 DEF IInv, HeldByRunning, Running, LineOf
<1>5. LineOf(c) # <<>> /\ Head(LineOf(c)) = j /\ Tail(LineOf(c)) = <<>>
  BY <1>3
<1>6. \A d \in Chats : d # c => LineOf(d)' = LineOf(d) /\ Running(d)' = Running(d)
  BY <1>1, <1>2, OtherLine
<1>7. line' = [line EXCEPT ![c] = <<>>] /\ inside' = [inside EXCEPT ![c] = {}]
  BY <1>1, <1>4, <1>6
<1>8. line[c] = LineOf(c) /\ inside[c] = {j}
  BY <1>1, <1>3
<1> QED
  <2> HIDE DEF c
  <2> QED
    BY <1>5, <1>7, <1>8, Zenon DEF Mutex!Finish, c

\* Every step is a step of the mutex or leaves it alone.
LEMMA MapStep == IInv /\ IInv' /\ [Next]_vars => [Mutex!Next]_Mutex!mutexVars
<1> SUFFICES ASSUME IInv, IInv', [Next]_vars PROVE [Mutex!Next]_Mutex!mutexVars
  OBVIOUS
<1>1. ASSUME NEW j \in Jobs, RunNow(j) PROVE Mutex!Next
  BY <1>1, MapRunNow DEF Mutex!Next
<1>2. ASSUME NEW j \in Jobs, Enqueue(j) PROVE Mutex!Next
  BY <1>2, MapEnqueue DEF Mutex!Next
<1>3. ASSUME NEW j \in Jobs, Settle(j) PROVE Mutex!Next
  BY <1>3, MapReleaseToNext, MapReleaseLast DEF Settle, Release, Mutex!Next
<1>4. CASE UNCHANGED vars
  BY <1>4 DEF vars, Mutex!mutexVars, LineOf, Running
<1> QED
  BY <1>1, <1>2, <1>3, <1>4 DEF Next, RunExclusive

\* Calls of a chat run one at a time in the order they were made
\* (runExclusive and release together).
THEOREM Refinement == Spec => ImplementsFifoMutex
BY MapInit, MapStep, Invariance, PTL DEF Spec, ImplementsFifoMutex, Mutex!Spec
=============================================================================
