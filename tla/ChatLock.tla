------------------------------ MODULE ChatLock ------------------------------
(***************************************************************************)
(* application/chat-lock-manager.ts: the lock that bot.ts takes around     *)
(* every Telegram update of a chat.  A job is one call of runExclusive; it *)
(* may be called again after its promise settled.                          *)
(*                                                                         *)
(* The code runs on one JavaScript thread: what a call does before its     *)
(* first await is one step, and so is the "finally" block that releases.   *)
(***************************************************************************)
EXTENDS Sequences, FiniteSets, ChatJobs

VARIABLES present,  \* present[c]: the map "states" has an entry for c
          active,   \* active[c]: the entry's "active" flag (FALSE without entry)
          queue,    \* queue[c]: the entry's "queue" (empty without entry)
          pc        \* where each call is: not called, in a queue, in work()

vars == <<present, active, queue, pc>>

TypeOK ==
    /\ present \in [Chats -> BOOLEAN]
    /\ active \in [Chats -> BOOLEAN]
    /\ queue \in [Chats -> Seq(Jobs)]
    /\ pc \in [Jobs -> {"idle", "queued", "running"}]

Init ==
    /\ present = [c \in Chats |-> FALSE]
    /\ active = [c \in Chats |-> FALSE]
    /\ queue = [c \in Chats |-> <<>>]
    /\ pc = [j \in Jobs |-> "idle"]

-----------------------------------------------------------------------------
(* The call: getOrCreateState, then either work() starts in this very step *)
(* or an entry goes to the back of the queue.                              *)

\* A mutant: the flag is not looked at.
RunNowUnchecked(j) ==
    /\ pc[j] = "idle"
    /\ present' = [present EXCEPT ![ChatOf[j]] = TRUE]
    /\ active' = [active EXCEPT ![ChatOf[j]] = TRUE]
    /\ pc' = [pc EXCEPT ![j] = "running"]
    /\ UNCHANGED queue

\* A state with no holder: the caller takes it and runs.
RunNow(j) ==
    LET c == ChatOf[j] IN
    /\ pc[j] = "idle"
    /\ ~active[c]
    /\ present' = [present EXCEPT ![c] = TRUE]
    /\ active' = [active EXCEPT ![c] = TRUE]
    /\ pc' = [pc EXCEPT ![j] = "running"]
    /\ UNCHANGED queue

\* Mutants: the queue remembers the chat instead of the call; the newest
\* caller goes to the front.
EnqueueChat(j) ==
    /\ pc[j] = "idle" /\ active[ChatOf[j]]
    /\ queue' = [queue EXCEPT ![ChatOf[j]] = Append(@, ChatOf[j])]
    /\ pc' = [pc EXCEPT ![j] = "queued"]
    /\ UNCHANGED <<present, active>>

EnqueueInFront(j) ==
    /\ pc[j] = "idle" /\ active[ChatOf[j]]
    /\ queue' = [queue EXCEPT ![ChatOf[j]] = <<j>> \o @]
    /\ pc' = [pc EXCEPT ![j] = "queued"]
    /\ UNCHANGED <<present, active>>

\* A held state: the caller waits its turn.
Enqueue(j) ==
    LET c == ChatOf[j] IN
    /\ pc[j] = "idle"
    /\ active[c]
    /\ queue' = [queue EXCEPT ![c] = Append(@, j)]
    /\ pc' = [pc EXCEPT ![j] = "queued"]
    /\ UNCHANGED <<present, active>>

RunExclusive(j) == RunNow(j) \/ Enqueue(j)

-----------------------------------------------------------------------------
(* release(states, c) by the call j that leaves.                           *)

\* A mutant: the lock is freed and the one who waits is not told.
ReleaseWithoutWakeup(j, c) ==
    /\ queue[c] # <<>>
    /\ active' = [active EXCEPT ![c] = FALSE]
    /\ pc' = [pc EXCEPT ![j] = "idle"]
    /\ UNCHANGED <<present, queue>>

\* Somebody waits: the first of the queue starts, the lock is never free.
ReleaseToNext(j, c) ==
    /\ queue[c] # <<>>
    /\ active' = [active EXCEPT ![c] = TRUE]
    /\ queue' = [queue EXCEPT ![c] = Tail(@)]
    /\ pc' = [pc EXCEPT ![j] = "idle", ![Head(queue[c])] = "running"]
    /\ UNCHANGED present

\* A mutant: the entry stays in the map.
ReleaseKeepsEntry(j, c) ==
    /\ queue[c] = <<>>
    /\ active' = [active EXCEPT ![c] = FALSE]
    /\ pc' = [pc EXCEPT ![j] = "idle"]
    /\ UNCHANGED <<present, queue>>

\* Nobody waits: the entry is dropped.  The early return of a release that
\* finds no entry is this case too: it leaves the chat without one.
ReleaseLast(j, c) ==
    /\ queue[c] = <<>>
    /\ active' = [active EXCEPT ![c] = FALSE]
    /\ present' = [present EXCEPT ![c] = FALSE]
    /\ pc' = [pc EXCEPT ![j] = "idle"]
    /\ UNCHANGED queue

Release(j, c) == ReleaseToNext(j, c) \/ ReleaseLast(j, c)

\* work() returns or throws: both reach the finally block.
Settle(j) ==
    /\ pc[j] = "running"
    /\ Release(j, ChatOf[j])

Next == \E j \in Jobs : RunExclusive(j) \/ Settle(j)

Spec == Init /\ [][Next]_vars

\* Every handler returns: the calls it waits for have timeouts.  Nobody has
\* to call the lock.
FairSpec == Spec /\ \A j \in Jobs : WF_vars(Settle(j))

-----------------------------------------------------------------------------
Running(c) == {j \in Jobs : ChatOf[j] = c /\ pc[j] = "running"}

\* Two handlers of one chat never run at once: neither two calls that found
\* the lock free, nor a call that a release woke up and a newcomer.
MutualExclusion ==
    \A i, j \in Jobs :
        /\ ChatOf[i] = ChatOf[j]
        /\ pc[i] = "running" /\ pc[j] = "running"
        => i = j

\* A waiting call has somebody in front of it that will release it, and is in
\* the queue that release looks at: no wakeup is lost.
NoLostWakeup ==
    \A j \in Jobs : pc[j] = "queued" =>
        /\ Running(ChatOf[j]) # {}
        /\ \E i \in DOMAIN queue[ChatOf[j]] : queue[ChatOf[j]][i] = j

\* The map holds an entry exactly while a handler of the chat runs, so it does
\* not grow with the chats ever seen and no release meets a missing entry.
EntryIffHeld == \A c \in Chats : present[c] <=> Running(c) # {}

\* A call that waits is served, whoever keeps calling.
Served == \A j \in Jobs : pc[j] = "queued" ~> pc[j] = "running"

\* The line of a chat: the call that runs, then the queue.
LineOf(c) ==
    IF Running(c) = {} THEN queue[c]
    ELSE <<CHOOSE j \in Running(c) : TRUE>> \o queue[c]

Mutex == INSTANCE FifoMutex WITH
            line <- [c \in Chats |-> LineOf(c)],
            inside <- [c \in Chats |-> Running(c)]

\* Calls of a chat run one at a time in the order they were made, and calls of
\* different chats do not disturb each other.
ImplementsFifoMutex == Mutex!Spec
=============================================================================
