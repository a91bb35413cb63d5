---------------------------- MODULE PromiseQueue ----------------------------
(***************************************************************************)
(* enqueueByChat of application/session-watcher-service.ts: the queue that *)
(* puts the watcher's work on a chat (webhook events, watchdog candidates) *)
(* in order.  It keeps no list: the map "queue" holds, per chat, the tail  *)
(* promise of the last call, and each call waits for the promise it found. *)
(*                                                                         *)
(* A tail promise is named by the call that made it; it resolves when that *)
(* call and everything in front of it has released.                        *)
(***************************************************************************)
EXTENDS Sequences, ChatJobs

\* None stands for a promise that has resolved, and for no map entry.
VARIABLES tail,     \* tail[c]: the promise in the map for chat c
          previous, \* previous[j]: the unresolved promise call j awaits
          pc,       \* not called, at "await previous", in work()
          order     \* order[c]: who called for chat c and has not left, oldest
                    \* first; it is for the properties, the code keeps no list

vars == <<tail, previous, pc, order>>

Init ==
    /\ tail = [c \in Chats |-> None]
    /\ previous = [j \in Jobs |-> None]
    /\ pc = [j \in Jobs |-> "idle"]
    /\ order = [c \in Chats |-> <<>>]

Joins(j) == order' = [order EXCEPT ![ChatOf[j]] = Append(@, j)]
Leaves(j) == order' = [order EXCEPT ![ChatOf[j]] = Tail(@)]

\* A mutant: the call goes between the last one that waits and what that awaits.
EnqueueInFront(j) ==
    LET c == ChatOf[j]
        last == tail[c]
        jumps == last # None /\ pc[last] = "waiting"
    IN
    /\ pc[j] = "idle"
    /\ previous' = IF jumps THEN [previous EXCEPT ![j] = previous[last], ![last] = j]
                   ELSE [previous EXCEPT ![j] = last]
    /\ tail' = IF jumps THEN tail ELSE [tail EXCEPT ![c] = j]
    /\ pc' = [pc EXCEPT ![j] = "waiting"]
    /\ Joins(j)

\* Up to the await: read the tail, put the own one in its place.  Even with no
\* tail the work starts only when the continuation of the await runs.
Enqueue(j) ==
    LET c == ChatOf[j] IN
    /\ pc[j] = "idle"
    /\ previous' = [previous EXCEPT ![j] = tail[c]]
    /\ tail' = [tail EXCEPT ![c] = j]
    /\ pc' = [pc EXCEPT ![j] = "waiting"]
    /\ Joins(j)

\* The awaited promise has resolved and its continuation runs.
StartWork(j) ==
    /\ pc[j] = "waiting"
    /\ previous[j] = None
    /\ pc' = [pc EXCEPT ![j] = "working"]
    /\ UNCHANGED <<tail, previous, order>>

\* A mutant: the map entry is deleted although others queue behind.
LeaveDropsTail(j) ==
    /\ pc[j] = "working"
    /\ previous' = [i \in Jobs |-> IF previous[i] = j THEN None ELSE previous[i]]
    /\ tail' = [tail EXCEPT ![ChatOf[j]] = None]
    /\ pc' = [pc EXCEPT ![j] = "idle"]
    /\ Leaves(j)

\* The finally block, after work() returned or threw: release() resolves the
\* own tail, and the map entry goes when nobody queued behind.
Leave(j) ==
    LET c == ChatOf[j] IN
    /\ pc[j] = "working"
    /\ previous' = [i \in Jobs |-> IF previous[i] = j THEN None ELSE previous[i]]
    /\ tail' = [tail EXCEPT ![c] = IF @ = j THEN None ELSE @]
    /\ pc' = [pc EXCEPT ![j] = "idle"]
    /\ Leaves(j)

Next == \E j \in Jobs : Enqueue(j) \/ StartWork(j) \/ Leave(j)

Spec == Init /\ [][Next]_vars

\* The event loop runs every ready continuation, and the watcher's work ends.
FairSpec == Spec /\ \A j \in Jobs : WF_vars(StartWork(j)) /\ WF_vars(Leave(j))

-----------------------------------------------------------------------------
Working(c) == {j \in Jobs : ChatOf[j] = c /\ pc[j] = "working"}

\* Every call that waits gets its turn.
Served == \A j \in Jobs : pc[j] = "waiting" ~> pc[j] = "working"

Mutex == INSTANCE FifoMutex WITH
            line <- order,
            inside <- [c \in Chats |-> Working(c)]

\* The chain of promises keeps the calls of a chat in a line, first come first
\* served, one at work.
ImplementsFifoMutex == Mutex!Spec
=============================================================================
