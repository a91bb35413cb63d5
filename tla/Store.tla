------------------------------- MODULE Store --------------------------------
(***************************************************************************)
(* The rows the bot persists (domain/entities.ts) and the repository calls *)
(* of one transaction (infrastructure/persistence/json-store.ts).          *)
(*                                                                         *)
(* A driver runs transactions one at a time on a copy of the data, so a    *)
(* transaction is an operator from a store to a store.  A missing row and  *)
(* the row that every reader puts in its place are the same value here.    *)
(* Times, names, texts and error messages are left out: nothing that       *)
(* follows depends on them except "the latest of several prompts", which   *)
(* is any of them.                                                         *)
(***************************************************************************)
EXTENDS Integers, FiniteSets

CONSTANTS Chats, Projects, Sessions, Tasks, Prompts,
          None,         \* an absent id
          TextPrompts,  \* the prompts to be answered with a text, not a button
          MaxRetry      \* WATCHDOG_MAX_RETRY_COUNT

ASSUME StoreAssumption ==
    /\ None \notin Projects \cup Sessions \cup Tasks \cup Prompts \cup Chats
    /\ TextPrompts \subseteq Prompts
    /\ MaxRetry \in Nat \ {0}

Modes == {"idle", "session-linked", "task-running", "needs-attention", "error"}
TaskStatus == {"none", "in-progress", "completed", "failed"}
PromptStatus == {"none", "active", "submitted", "resolved", "invalidated",
                 "expired", "cancelled"}
TerminalSource == {"none", "webhook", "watchdog"}

\* What the OpenCode server answers about a session, normalised.
RemoteStatus == {"running", "needs-attention", "completed", "idle", "unknown"}
Reply == [status : RemoteStatus, task : Tasks \cup {None}]

Binding == [project : Projects \cup {None}, session : Sessions \cup {None}]
State == [mode : Modes, task : Tasks \cup {None}]
\* token: the row still has the watcher token of the session's creation.
\* terminal: terminalCause is set, and by whom.
Session == [token : BOOLEAN, watched : BOOLEAN,
            terminal : TerminalSource, retry : 0..MaxRetry]
Task == [status : TaskStatus, session : Sessions \cup {None}]
\* message: telegramMessageId, or 0.  pressed: telegramCallbackQueryId is set.
Prompt == [status : PromptStatus, session : Sessions \cup {None},
           chat : Chats \cup {None}, message : Nat, pressed : BOOLEAN]

StoreType == [projects : SUBSET Projects,
              binding : [Chats -> Binding], state : [Chats -> State],
              session : [Sessions -> Session], task : [Tasks -> Task],
              prompt : [Prompts -> Prompt]]

IdleState == [mode |-> "idle", task |-> None]
NoSession == [token |-> FALSE, watched |-> FALSE, terminal |-> "none", retry |-> 0]
NoPrompt == [status |-> "none", session |-> None, chat |-> None,
             message |-> 0, pressed |-> FALSE]

EmptyStore ==
    [projects |-> {},
     binding |-> [c \in Chats |-> [project |-> None, session |-> None]],
     state |-> [c \in Chats |-> IdleState],
     session |-> [s \in Sessions |-> NoSession],
     task |-> [t \in Tasks |-> [status |-> "none", session |-> None]],
     prompt |-> [p \in Prompts |-> NoPrompt]]

-----------------------------------------------------------------------------
InProgress(d, t) == t \in Tasks /\ d.task[t].status = "in-progress"

\* The task that loadChatRuntimeContext loads: the one of the state when it has
\* a row, else a running one of the bound session, any if there are several.
ContextTasks(d, c) ==
    LET t == d.state[c].task
        s == d.binding[c].session
        running == {u \in Tasks : s # None /\ InProgress(d, u) /\ d.task[u].session = s}
    IN IF t \in Tasks /\ d.task[t].status # "none" THEN {t}
       ELSE IF running = {} THEN {None} ELSE running

\* assertNoActiveTaskConflict, on the state and the task of the context.
Busy(d, c) ==
    \/ d.state[c].mode = "task-running"
    \/ \E t \in ContextTasks(d, c) : InProgress(d, t)

\* applyProjectSelection: a binding loses its session with its project.
ApplyProjectSelection(p) == [project |-> p, session |-> None]

\* completeTaskIfExists: only a task in progress changes.
CompleteTask(d, t, status) ==
    IF InProgress(d, t) THEN [d EXCEPT !.task[t].status = status] ELSE d

PutTask(d, t, status, s) ==
    IF t \in Tasks THEN [d EXCEPT !.task[t] = [status |-> status, session |-> s]] ELSE d

\* compareAndSetStatus of the prompts.  clearSubmissionMeta is given on the
\* way back from submitted to active only.
CompareAndSet(d, p, from, to) ==
    IF p \in Prompts /\ d.prompt[p].status = from
    THEN [d EXCEPT !.prompt[p].status = to,
                   !.prompt[p].pressed = @ /\ to # "active"]
    ELSE d

PromptsOf(d, s, status) ==
    {p \in Prompts : d.prompt[p].session = s /\ d.prompt[p].status = status}

\* The latest prompt of a session with a status (findActiveBySessionId,
\* findLatestPromptByStatuses), or none.
Latest(d, s, status) ==
    IF PromptsOf(d, s, status) = {} THEN {None} ELSE PromptsOf(d, s, status)

\* resolveStableSessionMode: a running or waiting chat keeps its mode.
StableSessionMode(mode) == IF mode \in {"idle", "error"} THEN "session-linked" ELSE mode
=============================================================================
