------------------------------ MODULE SqliteRows ----------------------------
(***************************************************************************)
(* The repositories of infrastructure/persistence/sqlite-store.ts: the     *)
(* statements of one transaction on the tables of the database, and how a  *)
(* row is turned into an entity and back.  Store is written after the JSON *)
(* driver, which keeps the entities as they are; Rows(q) is the store that *)
(* the readers of database q see, and it is to change by each statement as *)
(* the store changes by the call of the JSON driver.                       *)
(***************************************************************************)
EXTENDS Store, Sequences

\* A column that may be NULL, or a field that may be undefined: nothing, or one
\* value.
NULL == <<>>
Cell(S) == {NULL} \cup {<<x>> : x \in S}
CellOf(id) == IF id = None THEN NULL ELSE <<id>>
IdOf(cell) == IF cell = NULL THEN None ELSE cell[1]
COALESCE(a, b) == IF a = NULL THEN b ELSE a

BindingRow == [active_project_id : Cell(Projects), active_session_id : Cell(Sessions)]
StateRow == [mode : Modes, active_task_id : Cell(Tasks)]
SessionRow == [watcher_token : Cell({"own"}), watcher_enabled : Cell({0, 1}),
               terminal_source : Cell(TerminalSource \ {"none"}),
               watchdog_retry_count : Cell(0..MaxRetry)]
ActiveTaskRow == [session_id : Sessions, status : TaskStatus \ {"none"}]
PendingPromptRow == [session_id : Sessions, chat_id : Chats,
                     status : PromptStatus \ {"none"},
                     telegram_message_id : Cell(Nat \ {0}),
                     telegram_callback_query_id : Cell({"query"})]

\* A table has at most one row for a key.
Table(keys, row) == UNION {[K -> row] : K \in SUBSET keys}
Database == [projects : SUBSET Projects,
             bindings : Table(Chats, BindingRow), states : Table(Chats, StateRow),
             sessions : Table(Sessions, SessionRow),
             active_tasks : Table(Tasks, ActiveTaskRow),
             pending_prompts : Table(Prompts, PendingPromptRow)]

\* The session as the application has it, with its optional fields.
SessionEntity == [watcherToken : Cell({"own"}), watcherEnabled : Cell(BOOLEAN),
                  terminalSource : Cell(TerminalSource \ {"none"}),
                  watchdogRetryCount : Cell(0..MaxRetry)]

-----------------------------------------------------------------------------
(* Rows and entities.                                                      *)

mapBindingRow(r) == [project |-> IdOf(r.active_project_id),
                     session |-> IdOf(r.active_session_id)]
mapStateRow(r) == [mode |-> r.mode, task |-> IdOf(r.active_task_id)]
mapActiveTaskRow(r) == [status |-> r.status, session |-> r.session_id]
mapPendingPromptRow(r) ==
    [status |-> r.status, session |-> r.session_id, chat |-> r.chat_id,
     message |-> IF r.telegram_message_id = NULL THEN 0 ELSE r.telegram_message_id[1],
     pressed |-> r.telegram_callback_query_id # NULL]
mapSessionRow(r) ==
    [watcherToken |-> r.watcher_token,
     watcherEnabled |-> IF r.watcher_enabled = NULL THEN NULL
                        ELSE <<r.watcher_enabled[1] = 1>>,
     terminalSource |-> r.terminal_source,
     watchdogRetryCount |-> r.watchdog_retry_count]

\* What the readers of a session make of its optional fields.
SessionOf(entity) ==
    [token |-> entity.watcherToken # NULL,
     watched |-> entity.watcherEnabled = <<TRUE>>,
     terminal |-> IF entity.terminalSource = NULL THEN "none" ELSE entity.terminalSource[1],
     retry |-> COALESCE(entity.watchdogRetryCount, <<0>>)[1]]

-----------------------------------------------------------------------------
(* The statements that write.                                              *)

\* INSERT ... ON CONFLICT(key) DO UPDATE SET of every column.
Upsert(table, key, row) ==
    [k \in DOMAIN table \cup {key} |-> IF k = key THEN row ELSE table[k]]

upsertProject(q, p) == [q EXCEPT !.projects = @ \cup {p}]

upsertBinding(q, c, binding) ==
    [q EXCEPT !.bindings = Upsert(@, c, [active_project_id |-> CellOf(binding.project),
                                         active_session_id |-> CellOf(binding.session)])]

upsertState(q, c, state) ==
    [q EXCEPT !.states = Upsert(@, c, [mode |-> state.mode,
                                       active_task_id |-> CellOf(state.task)])]

\* Booleans are kept as numbers; a missing count is kept as zero.
upsertSession(q, s, entity) ==
    LET enabled == entity.watcherEnabled IN
    [q EXCEPT !.sessions = Upsert(@, s,
        [watcher_token |-> entity.watcherToken,
         watcher_enabled |-> IF enabled = NULL THEN NULL
                             ELSE <<IF enabled[1] THEN 1 ELSE 0>>,
         terminal_source |-> entity.terminalSource,
         watchdog_retry_count |-> COALESCE(entity.watchdogRetryCount, <<0>>)])]

upsertTask(q, t, status, s) ==
    [q EXCEPT !.active_tasks = Upsert(@, t, [session_id |-> s, status |-> status])]

\* message and query are the optional fields as the entity has them.
upsertPrompt(q, p, s, c, status, message, query) ==
    [q EXCEPT !.pending_prompts = Upsert(@, p,
        [session_id |-> s, chat_id |-> c, status |-> status,
         telegram_message_id |-> message, telegram_callback_query_id |-> query])]

\* UPDATE ... WHERE prompt_id = p AND status = from: no row is no change.
compareAndSetStatus(q, p, from, to, query, clear) ==
    LET row == q.pending_prompts[p]
        cell == IF clear THEN NULL ELSE COALESCE(query, row.telegram_callback_query_id)
    IN
    IF p \in DOMAIN q.pending_prompts /\ row.status = from
    THEN [q EXCEPT !.pending_prompts[p] =
            [row EXCEPT !.status = to, !.telegram_callback_query_id = cell]]
    ELSE q

-----------------------------------------------------------------------------
(* The statements that read.  A reader puts a value in the place of a row  *)
(* that is missing.                                                        *)

findBinding(q, c) ==
    IF c \in DOMAIN q.bindings THEN mapBindingRow(q.bindings[c])
    ELSE [project |-> None, session |-> None]

findState(q, c) ==
    IF c \in DOMAIN q.states THEN mapStateRow(q.states[c]) ELSE IdleState

findSession(q, s) ==
    IF s \in DOMAIN q.sessions THEN SessionOf(mapSessionRow(q.sessions[s])) ELSE NoSession

findTask(q, t) ==
    IF t \in DOMAIN q.active_tasks THEN mapActiveTaskRow(q.active_tasks[t])
    ELSE [status |-> "none", session |-> None]

findPrompt(q, p) ==
    IF p \in DOMAIN q.pending_prompts THEN mapPendingPromptRow(q.pending_prompts[p])
    ELSE NoPrompt

\* ORDER BY updated_at DESC LIMIT 1 returns one of these.
inProgressBySessionId(q, s) ==
    {t \in DOMAIN q.active_tasks :
        q.active_tasks[t].session_id = s /\ q.active_tasks[t].status = "in-progress"}

activeBySessionId(q, s) ==
    {p \in DOMAIN q.pending_prompts :
        q.pending_prompts[p].session_id = s /\ q.pending_prompts[p].status = "active"}

\* The store that the readers of the database see.
Rows(q) ==
    [projects |-> q.projects,
     binding |-> [c \in Chats |-> findBinding(q, c)],
     state |-> [c \in Chats |-> findState(q, c)],
     session |-> [s \in Sessions |-> findSession(q, s)],
     task |-> [t \in Tasks |-> findTask(q, t)],
     prompt |-> [p \in Prompts |-> findPrompt(q, p)]]
=============================================================================
