------------------------------- MODULE Queues -------------------------------
(***************************************************************************)
(* The two queues of a process side by side: bot.ts makes one ChatLock for *)
(* Telegram updates, createSessionWatcherService one PromiseQueue for the  *)
(* watcher's work.  Both are per chat and neither knows the other: while a *)
(* handler of a chat runs, work of the watcher on that chat may run too.   *)
(***************************************************************************)
EXTENDS ChatLock

CONSTANTS Events,     \* calls of enqueueByChat
          EventChat   \* their chatId

ASSUME EventsAssumption == EventChat \in [Events -> Chats] /\ None \notin Events

VARIABLES tail, previous, eventPc, order

Chain == INSTANCE PromiseQueue WITH
            Jobs <- Events, ChatOf <- EventChat, pc <- eventPc

chainVars == <<tail, previous, eventPc, order>>
queuesVars == <<vars, chainVars>>

QueuesInit == Init /\ Chain!Init

QueuesNext ==
    \/ Next /\ UNCHANGED chainVars
    \/ Chain!Next /\ UNCHANGED vars

QueuesSpec == QueuesInit /\ [][QueuesNext]_queuesVars

\* Handlers and the watcher's work end, and ready continuations run.
FairQueuesSpec ==
    /\ QueuesSpec
    /\ \A j \in Jobs : WF_vars(Settle(j))
    /\ \A e \in Events : WF_chainVars(Chain!StartWork(e)) /\ WF_chainVars(Chain!Leave(e))

-----------------------------------------------------------------------------
\* The chain of promises keeps the watcher's work on a chat in a line, first
\* come first served, one at work, and does not let chats disturb each other.
ChainImplementsFifoMutex == Chain!ImplementsFifoMutex

\* Every call that waits in either queue gets its turn, whoever keeps calling.
EverybodyServed == Served /\ Chain!Served
=============================================================================
