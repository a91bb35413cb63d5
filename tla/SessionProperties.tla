-------------------------- MODULE SessionProperties -------------------------
(***************************************************************************)
(* What SessionControl is to guarantee, and what the repository says of it *)
(* that does not hold.                                                     *)
(***************************************************************************)
EXTENDS SessionControl

Session_(c) == db.binding[c].session
Token_(s) == db.session[s].token
Ended(s) == db.session[s].terminal # "none"
Watched(s) == db.session[s].watched
ModeOf(c) == db.state[c].mode
TaskOf(c) == db.state[c].task

-----------------------------------------------------------------------------
(* Chats and tasks                                                         *)

\* A chat with no session is idle: a late webhook or a slow handler never
\* leaves a mode or a task of the session that the chat had before.
UnboundIsIdle == \A c \in Chats : Session_(c) = None => db.state[c] = IdleState

\* The task of a chat is a task of the session the chat is bound to
\* (validateBindingInvariants: "active task must belong to current session").
TaskOfBoundSession ==
    \A c \in Chats : TaskOf(c) \in Tasks =>
        db.task[TaskOf(c)].session \in {None, Session_(c)}

\* A chat that is not running holds no task id: a busy check on the mode and
\* one on the task agree.
TaskOnlyWhileRunning ==
    \A c \in Chats : TaskOf(c) # None => ModeOf(c) = "task-running"

\* A session has at most one task in progress (RFC-002: one ActiveTask per
\* Session).
OneActiveTask ==
    \A t, u \in Tasks :
        /\ InProgress(db, t) /\ InProgress(db, u)
        /\ db.task[t].session = db.task[u].session
        => t = u

\* No order is given to a session that runs one: what the router read before
\* the call still holds when the call arrives.
OneRunAtATime ==
    [][\A s \in Sessions : runs' # runs /\ remote'[s].task # remote[s].task
            => remote[s].status # "running"]_vars

\* Nothing is on its way to or from the bot.
Quiet ==
    /\ \A h \in Handlers : op[h] = Free
    /\ \A c \in Chats : work[c] = Idle
    /\ \A v \in Sweeps : sweep[v] = {}
    /\ \A c \in Chats : inbox[c] = <<>>
    /\ wire = {}

\* The task a chat is left with is the last one its session was given: neither
\* a slow status answer nor a late event brings an older task back.
TaskIsTheLatest ==
    Quiet => \A c \in Chats : TaskOf(c) \in Tasks => remote[Session_(c)].task = TaskOf(c)

-----------------------------------------------------------------------------
(* The end of a run                                                        *)

\* The first cause of an end stays: a webhook and the watchdog that race, or
\* two webhooks, record one end.  Only a new order or an attach re-arms.
FirstCauseStays ==
    [][\A s \in Sessions : Ended(s) =>
            \/ db'.session[s].terminal = db.session[s].terminal
            \/ /\ db'.session[s].terminal = "none"
               /\ \E h \in Handlers : op[h].at = "commit" /\ op[h].session = s]_vars

\* A watcher token is good for one end: once used it never authorises again.
TokenNeverRevived ==
    [][\A s \in Sessions : Watched(s) /\ ~Token_(s) => ~db'.session[s].token]_vars

\* A failing server is asked MaxRetry times at most by sweeps that do not
\* overlap: a session that the watchdog still follows has attempts left, unless
\* it is being given up.
AttemptsBounded ==
    \A c \in Chats : IsCandidate(db, c) =>
        \/ db.session[Session_(c)].retry < MaxRetry
        \/ work[c].session = Session_(c) /\ work[c].at = "conclude"

\* The run of session s is over, and OpenCode knows it.
Over(s) == remote[s].status \in {"completed", "gone"}

-----------------------------------------------------------------------------
(* Prompts                                                                 *)

\* A submitted prompt is in the hands of a handler that will settle it.
SubmittedHasOwner ==
    \A p \in Prompts : db.prompt[p].status = "submitted" =>
        \E h \in Handlers : op[h].prompt = p /\ op[h].at \in {"bridge", "revert", "resolve"}

\* An answer is given to nobody else's prompt: while one handler has it, no
\* other gives an answer, and none comes after one that is known to be taken.
OneAnswerAtATime ==
    [][\A p \in Prompts : answers'[p] # answers[p] =>
          /\ db.prompt[p].status # "resolved"
          /\ \A g, h \in Handlers :
                /\ op[g].prompt = p /\ op[g].at \in {"bridge", "revert", "resolve"}
                /\ op[h].prompt = p /\ op[h].at \in {"bridge", "revert", "resolve"}
                => g = h]_vars

\* The bot says resolved only of an answer that the server took.
ResolvedWasTaken ==
    \A p \in Prompts : db.prompt[p].status = "resolved" => answers[p] > 0

\* When each webhook comes once, the row of a question refers to the very message
\* that has its buttons on the screen, so that they can be taken away; only the
\* notice that showed it may be on its way to write it down.  Not so for buttons
\* whose message id was lost: the answer of Telegram or the transaction that was
\* to keep the id failed.
ButtonsAreTracked ==
    \A m \in DOMAIN keyboard : keyboard[m].buttons = "live" =>
        \/ db.prompt[keyboard[m].prompt].message = m
        \/ \E c \in Chats : work[c].at = "track" /\ work[c].message = m

Life == INSTANCE PromptLife WITH status <- [p \in Prompts |-> db.prompt[p].status]

\* When each webhook comes once, every prompt lives the life of PromptLife: a
\* closed prompt stays closed whoever is late.
ImplementsPromptLife == Life!Spec

\* The question a run waits on can be answered: once the webhook call that
\* asked it was handled, its prompt is open.
QuestionIsOpen ==
    Quiet => \A s \in Sessions, c \in Chats :
        (/\ remote[s].status = "needs-attention" /\ remote[s].prompt \in Prompts
         /\ Session_(c) = s /\ Token_(s) /\ remote[s].token = "own")
        => db.prompt[remote[s].prompt].status = "active"

-----------------------------------------------------------------------------
(* A claim of the repository that the code does not keep.                  *)

\* When OpenCode dies silently the watchdog "releases the lock" of the chat
\* (RFC-007): a chat does not stay busy with a session that is gone.
LockIsReleased ==
    \A c \in Chats, s \in Sessions :
        (ModeOf(c) = "task-running" /\ Session_(c) = s /\ remote[s].status = "gone")
        ~> (ModeOf(c) # "task-running" \/ Session_(c) # s)

=============================================================================
