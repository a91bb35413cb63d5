----------------------------- MODULE FifoMutex -----------------------------
(***************************************************************************)
(* What the two per-chat queues of the bot promise their callers: the jobs *)
(* of one chat go through a line in the order they joined it, only the job *)
(* at the head of its line is inside, and chats do not wait for each other.*)
(* ChatLock (Telegram updates) and PromiseQueue (watcher work) implement   *)
(* this specification.                                                     *)
(***************************************************************************)
EXTENDS Sequences

CONSTANTS Chats, Jobs, ChatOf

VARIABLES line,     \* line[c]: the jobs of chat c that joined and have not left
          inside    \* inside[c]: the jobs of chat c that run

mutexVars == <<line, inside>>

Init ==
    /\ line = [c \in Chats |-> <<>>]
    /\ inside = [c \in Chats |-> {}]

\* A job joins the line of its chat; an implementation may let it in at once
\* when nobody is in front of it.
Join(j) ==
    LET c == ChatOf[j] IN
    /\ \A i \in DOMAIN line[c] : line[c][i] # j
    /\ line' = [line EXCEPT ![c] = Append(@, j)]
    /\ \/ inside' = inside
       \/ /\ line[c] = <<>>
          /\ inside' = [inside EXCEPT ![c] = {j}]

\* The job at the head of the line goes in.
Begin(j) ==
    LET c == ChatOf[j] IN
    /\ line[c] # <<>> /\ Head(line[c]) = j
    /\ inside[c] = {}
    /\ inside' = [inside EXCEPT ![c] = {j}]
    /\ UNCHANGED line

\* The job that runs leaves; an implementation may hand over in the same step.
Finish(j) ==
    LET c == ChatOf[j]
        rest == Tail(line[c])
    IN
    /\ line[c] # <<>> /\ Head(line[c]) = j
    /\ inside[c] = {j}
    /\ line' = [line EXCEPT ![c] = rest]
    /\ \/ inside' = [inside EXCEPT ![c] = {}]
       \/ /\ rest # <<>>
          /\ inside' = [inside EXCEPT ![c] = {Head(rest)}]

Next == \E j \in Jobs : Join(j) \/ Begin(j) \/ Finish(j)

Spec == Init /\ [][Next]_mutexVars
=============================================================================
