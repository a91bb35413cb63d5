--------------------------- MODULE SessionControl ---------------------------
(***************************************************************************)
(* The bot at work: Telegram handlers (bot.ts, router.ts, use-cases.ts),   *)
(* webhook events and watchdog sweeps (session-watcher-service.ts) and     *)
(* notices (message-sender.ts) around one store and one OpenCode server.   *)
(*                                                                         *)
(* Everything between two awaits is one step: a transaction of the store,  *)
(* a call of the server, a message to Telegram.  Telegram handlers of one  *)
(* chat hold the lock of ChatLock; the watcher's work on a chat holds the  *)
(* queue of PromiseQueue; the two do not exclude each other.               *)
(***************************************************************************)
EXTENDS Sequences, UseCases, Watcher, OpenCode, HttpClient

CONSTANTS Handlers,     \* Telegram updates that may be in progress
          Sweeps,       \* watchdog sweeps that may be in progress
          Commands,     \* the kinds of updates users send
          MessageReplies, \* how the server answers a message or a command
          LockEnabled,  \* CHAT_LOCK_ENABLED
          Faults        \* what may go wrong: "server" (calls but submitPromptInput),
                        \* "answer" (submitPromptInput), "webhook", "telegram",
                        \* "store" (the transactions of notices)

AllCommands == {"status", "project", "session", "new", "text", "run", "cancel", "button"}

ASSUME SessionControlAssumption ==
    /\ Commands \subseteq AllCommands
    /\ MessageReplies \subseteq {"running", "needs-attention", "unknown", "idle"}
    /\ LockEnabled \in BOOLEAN
    /\ Faults \subseteq {"server", "answer", "webhook", "telegram", "store"}
    /\ Sweeps \cap {"webhook", "nobody"} = {}

VARIABLES db,       \* the store
          op,       \* op[h]: the Telegram update that h handles
          inbox,    \* inbox[c]: webhook events waiting in the queue of chat c
          sweep,    \* sweep[v]: candidates that sweep v has still to look at
          work,     \* work[c]: what the watcher is doing on chat c
          keyboard, \* the Telegram messages that ask a question, by message id
          told,     \* told[s]: the end of its last run was told
          answers   \* answers[p]: answers to p that the server accepted

botVars == <<db, op, inbox, sweep, work>>
userVars == <<keyboard, told, answers>>
vars == <<botVars, userVars, serverVars>>

Free == [kind |-> "none", chat |-> None, at |-> "free", project |-> None,
         session |-> None, token |-> "none", mode |-> "idle", task |-> None,
         reply |-> [status |-> "unknown", task |-> None], prompt |-> None, posts |-> 0]
Idle == [by |-> "nobody", at |-> "free", session |-> None, retry |-> 0,
         answer |-> "unknown", notice |-> NoNotice, message |-> 0]

HandlerSteps == {"free", "ask", "learn", "decide", "lookup", "load", "call",
                 "commit", "submit", "bridge", "revert", "resolve"}
WorkSteps == {"free", "ask", "failed", "react", "touch", "conclude",
              "show", "track", "clean", "untrack", "say"}

Handler == [kind : AllCommands \cup {"none"}, chat : Chats \cup {None},
            at : HandlerSteps, project : Projects \cup {None},
            session : Sessions \cup {None}, token : {"none", "own", "stray"},
            mode : Modes, task : Tasks \cup {None}, reply : Reply,
            prompt : Prompts \cup {None},
            posts : 0..MaxAttempts - 1]   \* attempts of the call so far that failed
Work == [by : Sweeps \cup {"webhook", "nobody"}, at : WorkSteps,
         session : Sessions \cup {None}, retry : 0..MaxRetry,
         answer : RemoteStatus \cup {"retryable", "fatal"}, notice : Notice,
         message : Nat]   \* the message just sent
\* Buttons are "lost" when the bot has not learned the id of their message.
Message == [prompt : Prompts, chat : Chats, buttons : {"none", "live", "lost"}]
Candidate == [chat : Chats, session : Sessions, retry : 0..MaxRetry]

TypeOK ==
    /\ ServerTypeOK
    /\ db \in StoreType
    /\ op \in [Handlers -> Handler]
    /\ inbox \in [Chats -> Seq(Event)]
    /\ sweep \in [Sweeps -> SUBSET Candidate]
    /\ work \in [Chats -> Work]
    /\ keyboard \in Seq(Message)
    /\ told \in [Sessions -> BOOLEAN]
    /\ answers \in [Prompts -> 0..2]

Init ==
    /\ ServerInit
    /\ db = EmptyStore
    /\ op = [h \in Handlers |-> Free]
    /\ inbox = [c \in Chats |-> <<>>]
    /\ sweep = [v \in Sweeps |-> {}]
    /\ work = [c \in Chats |-> Idle]
    /\ keyboard = <<>>
    /\ told = [s \in Sessions |-> FALSE]
    /\ answers = [p \in Prompts |-> 0]

\* Counts up to "more than once".
Once(n) == IF n < 2 THEN n + 1 ELSE 2

-----------------------------------------------------------------------------
(* A Telegram update: bot.ts takes the chat's lock, then the handler runs. *)

Goes(h, at) == op' = [op EXCEPT ![h].at = at]
Done(h) == op' = [op EXCEPT ![h] = Free]
HandlerOnly == UNCHANGED <<inbox, sweep, work, userVars, serverVars>>

\* A mutant: handlers of one chat run side by side.
MayBeginAnytime(h, c) == op[h] = Free

MayBegin(h, c) == op[h] = Free /\ (LockEnabled => \A g \in Handlers : op[g].chat # c)

\* A command or a text: getStatus loads the binding and, when it is complete,
\* asks the server.
Begin(h, c, kind) ==
    LET b == db.binding[c] IN
    /\ kind # "button"
    /\ MayBegin(h, c)
    /\ op' = [op EXCEPT ![h] = [Free EXCEPT
                !.kind = kind, !.chat = c,
                !.project = b.project, !.session = b.session,
                !.at = IF b.project # None /\ b.session # None THEN "ask" ELSE "decide"]]
    /\ UNCHANGED db /\ HandlerOnly

\* A button of a message on the screen; text prompts have none.
Shows(k, c, p) == k.prompt = p /\ k.chat = c /\ k.buttons # "none"

Press(h, c, p) ==
    /\ "button" \in Commands
    /\ MayBegin(h, c)
    /\ \E m \in DOMAIN keyboard : Shows(keyboard[m], c, p)
    /\ op' = [op EXCEPT ![h] = [Free EXCEPT !.kind = "button", !.chat = c,
                                            !.prompt = p, !.at = "lookup"]]
    /\ UNCHANGED db /\ HandlerOnly

\* getStatus: the server answers, or does not (then the local state stands).
AskStatus(h) ==
    LET s == op[h].session IN
    /\ op[h].at = "ask"
    /\ \/ /\ Alive(s)
          /\ op' = [op EXCEPT ![h].reply = AnswerOf(s), ![h].at = "learn"]
       \/ /\ ~Alive(s) \/ "server" \in Faults
          /\ Goes(h, "decide")
    /\ UNCHANGED db /\ HandlerOnly

Learn(h) ==
    /\ op[h].at = "learn"
    /\ db' = StatusCommit(db, op[h].chat, op[h].session, op[h].reply)
    /\ op' = [op EXCEPT ![h].at = "decide", ![h].reply = Free.reply]
    /\ HandlerOnly

\* The router's choice on the status read last (shouldRejectBusyCommand,
\* handleCommand, handleText).  "free": the update ends here.
Route(kind, project, session, mode) ==
    LET running == mode = "task-running" IN
    IF kind = "status" \/ (kind = "cancel") # running THEN "free"
    ELSE IF kind # "text" THEN "load"
    ELSE IF project = None \/ session = None \/ mode = "error" THEN "free"
    ELSE IF mode = "needs-attention" THEN "lookup" ELSE "load"

Decide(h) ==
    LET c == op[h].chat
        b == db.binding[c]
        next == Route(op[h].kind, b.project, b.session, db.state[c].mode)
    IN
    /\ op[h].at = "decide"
    /\ IF next = "free" THEN Done(h)
       ELSE op' = [op EXCEPT ![h] = [@ EXCEPT !.at = next, !.project = b.project,
                                               !.session = b.session]]
    /\ UNCHANGED db /\ HandlerOnly

\* A text while the chat waits: an open prompt of the session decides.
LookupByText(h) ==
    /\ op[h].at = "lookup" /\ op[h].kind = "text"
    /\ \E p \in Latest(db, op[h].session, "active") :
          IF p = None THEN Goes(h, "load")
          ELSE IF p \in TextPrompts
          THEN op' = [op EXCEPT ![h].prompt = p, ![h].at = "submit"]
          ELSE Done(h)
    /\ UNCHANGED db /\ HandlerOnly

\* A button: the prompt is open and was not answered by a button before.
LookupByButton(h) ==
    LET row == db.prompt[op[h].prompt] IN
    /\ op[h].at = "lookup" /\ op[h].kind = "button"
    /\ IF row.status = "active" /\ ~row.pressed THEN Goes(h, "submit") ELSE Done(h)
    /\ UNCHANGED db /\ HandlerOnly

-----------------------------------------------------------------------------
(* The use cases: the first transaction and its checks, the call, the last *)
(* transaction.                                                            *)

Admitted(kind, c) ==
    CASE kind = "project" -> MaySelect(db, c)
      [] kind = "session" -> MayAttach(db, c)
      [] kind = "new" -> MayCreate(db, c)
      [] kind = "text" -> MaySend(db, c)
      [] kind = "run" -> MayRun(db, c)
      [] kind = "cancel" -> MayCancel(db, c)

\* buildWatcherRegistration: the row's token, or a new one that is not kept.
RegistrationOf(s) == IF s # None /\ db.session[s].token THEN "own" ELSE "stray"

\* A known project needs no call; the others go to the server.
LoadSelect(h) ==
    /\ op[h].at = "load" /\ op[h].kind = "project" /\ Admitted("project", op[h].chat)
    /\ \E p \in Projects :
          op' = [op EXCEPT ![h] =
                    [@ EXCEPT !.project = p, !.session = None,
                              !.at = IF p \in db.projects THEN "commit" ELSE "call"]]
    /\ UNCHANGED db /\ HandlerOnly

LoadOther(h) ==
    LET c == op[h].chat
        b == db.binding[c]
        kind == op[h].kind
    IN
    /\ op[h].at = "load" /\ kind # "project" /\ Admitted(kind, c)
    /\ \E s \in IF kind = "session" THEN Sessions
               ELSE IF kind = "new" THEN {None} ELSE {b.session},
          t \in IF kind = "cancel" THEN ContextTasks(db, c) ELSE {None} :
          op' = [op EXCEPT ![h] =
                    [@ EXCEPT !.at = "call", !.project = b.project, !.session = s,
                              !.task = t,
                              !.mode = IF kind = "run" THEN db.state[c].mode ELSE op[h].mode,
                              !.token = IF kind \in {"text", "run"}
                                        THEN RegistrationOf(s) ELSE op[h].token]]
    /\ UNCHANGED db /\ HandlerOnly

\* Too busy, or nothing selected.
LoadRefused(h) ==
    /\ op[h].at = "load" /\ ~Admitted(op[h].kind, op[h].chat)
    /\ Done(h)
    /\ UNCHANGED db /\ HandlerOnly

\* How a call about session s may fail.
NetworkFailures == IF "server" \in Faults THEN {Timeout, Broken, ConnectionRefused} ELSE {}
Failures(s) == NetworkFailures \cup (IF Alive(s) THEN {} ELSE {NotFound})

\* An attempt of the call of h has failed: it is made once more, whatever the
\* first attempt did on the server, or its failure is told to the use case.
Fails(h, f, at) ==
    IF ShouldRetry(f) /\ op[h].posts + 1 < MaxAttempts
    THEN op' = [op EXCEPT ![h].posts = @ + 1]
    ELSE IF at = "free" THEN Done(h) ELSE Goes(h, at)

\* What the server does with the call of h about session s, and its answer.
ServerDoes(h, s, reply) ==
    \/ /\ op[h].kind = "project" /\ s = None
       /\ reply = Free.reply /\ UNCHANGED serverVars
    \/ /\ op[h].kind = "new" /\ s \in Sessions /\ ProjectOf[s] = op[h].project
       /\ reply = [status |-> "idle", task |-> None] /\ ServerCreate(s)
    \/ /\ op[h].kind = "session" /\ s = op[h].session /\ Alive(s)
       /\ ProjectOf[s] = op[h].project
       /\ reply = AnswerOf(s) /\ UNCHANGED serverVars
    \/ /\ op[h].kind = "cancel" /\ s = op[h].session /\ Alive(s)
       /\ reply = Free.reply /\ ServerCancel(s)
    \/ /\ op[h].kind \in {"text", "run"} /\ s = op[h].session /\ Alive(s)
       /\ reply.status \in MessageReplies
       /\ CASE reply.status = "idle" -> reply.task = None /\ ServerReply(s, op[h].token)
            [] reply.status = "needs-attention" ->
                  reply.task = None /\ ServerAsks(s, op[h].token)
            [] OTHER ->
                  Tasks \ runs # {} /\ reply.task = FreshTask /\ ServerRun(s, op[h].token)

\* The call arrives; its answer arrives too, or not in time.
Call(h) ==
    /\ op[h].at = "call"
    /\ \E s \in Sessions \cup {None}, reply \in Reply :
          /\ ServerDoes(h, s, reply)
          /\ told' = IF op[h].kind \in {"text", "run"} THEN [told EXCEPT ![s] = FALSE] ELSE told
          /\ \/ op' = [op EXCEPT ![h] =
                          [@ EXCEPT !.session = s, !.reply = reply, !.at = "commit"]]
             \/ "server" \in Faults /\ \E f \in {Timeout, Broken} : Fails(h, f, "free")
    /\ UNCHANGED <<db, inbox, sweep, work, keyboard, answers>>

\* The session is gone or of another project.  The model's own bound: the
\* server refuses when the session ids or task ids have run out.
Refuses(h) ==
    LET s == op[h].session IN
    CASE op[h].kind = "project" -> FALSE
      [] op[h].kind = "new" ->
            \A u \in Sessions : remote[u].status = "unborn" => ProjectOf[u] # op[h].project
      [] OTHER ->
            \/ ~Alive(s) \/ ProjectOf[s] # op[h].project
            \/ op[h].kind \in {"text", "run"} /\ Tasks \subseteq runs
               /\ "idle" \notin MessageReplies

CallFails(h) ==
    /\ op[h].at = "call"
    /\ \E f \in NetworkFailures \cup (IF Refuses(h) THEN {NotFound, Mismatch} ELSE {}) :
          Fails(h, f, "free")
    /\ UNCHANGED db /\ HandlerOnly

Commit(h) ==
    LET o == op[h] IN
    /\ o.at = "commit"
    /\ db' = CASE o.kind = "project" -> SelectCommit(db, o.chat, o.project)
               [] o.kind = "session" -> AttachCommit(db, o.chat, o.project, o.session, o.reply)
               [] o.kind = "new" -> CreateCommit(db, o.chat, o.project, o.session, o.reply)
               [] o.kind = "text" -> SendCommit(db, o.chat, o.session, o.reply)
               [] o.kind = "run" -> RunCommit(db, o.chat, o.session, o.reply, o.mode)
               [] o.kind = "cancel" -> CancelCommit(db, o.chat, o.task)
    /\ Done(h) /\ HandlerOnly

-----------------------------------------------------------------------------
(* submitPendingPrompt                                                     *)

Submit(h) ==
    LET o == op[h] IN
    /\ o.at = "submit"
    /\ IF MaySubmit(db, o.chat, o.prompt)
       THEN /\ db' = SubmitPreflight(db, o.prompt, o.kind = "button")
            /\ op' = [op EXCEPT ![h].at = "bridge",
                                ![h].session = db.prompt[o.prompt].session]
       ELSE Done(h) /\ UNCHANGED db
    /\ HandlerOnly

\* adapter.submitPromptInput.  A live session may accept an answer that the run
\* no longer waits for, or refuse it; the bot may not learn that it was accepted.
Bridge(h) ==
    LET s == op[h].session
        p == op[h].prompt
        waits == remote[s].status = "needs-attention" /\ remote[s].prompt = p
    IN
    /\ op[h].at = "bridge"
    /\ \/ /\ Alive(s)
          /\ answers' = [answers EXCEPT ![p] = Once(@)]
          /\ IF waits THEN ServerResume(s) ELSE UNCHANGED serverVars
          /\ \/ Goes(h, "resolve")
             \/ "answer" \in Faults /\ Fails(h, Timeout, "revert")
       \/ /\ \E f \in (IF waits THEN {} ELSE {NotFound})
                         \cup (IF "answer" \in Faults THEN {Timeout, ConnectionRefused} ELSE {}) :
                Fails(h, f, "revert")
          /\ UNCHANGED <<answers, serverVars>>
    /\ UNCHANGED <<db, inbox, sweep, work, keyboard, told>>

\* A mutant: the handler ends and the prompt stays submitted.
RevertForgotten(h) ==
    /\ op[h].at = "revert"
    /\ Done(h) /\ UNCHANGED db /\ HandlerOnly

Revert(h) ==
    /\ op[h].at = "revert"
    /\ db' = SubmitRevert(db, op[h].prompt)
    /\ Done(h) /\ HandlerOnly

Resolve(h) ==
    /\ op[h].at = "resolve"
    /\ db' = SubmitResolve(db, op[h].prompt)
    /\ Done(h) /\ HandlerOnly

HandlerStep(h) ==
    \/ AskStatus(h) \/ Learn(h) \/ Decide(h) \/ LookupByText(h) \/ LookupByButton(h)
    \/ LoadSelect(h) \/ LoadOther(h) \/ LoadRefused(h)
    \/ Call(h) \/ CallFails(h) \/ Commit(h)
    \/ Submit(h) \/ Bridge(h) \/ Revert(h) \/ Resolve(h)

-----------------------------------------------------------------------------
(* Webhook events: calls arrive in any order; the receiver looks up the    *)
(* chat, the event waits in the chat's queue, and its mutation runs when   *)
(* nothing else of the watcher works on the chat.                          *)

\* A duplicating network delivers the call and keeps it.
Taken(e) ==
    \/ wire' = wire \ {e}
    \/ "webhook" \in Faults /\ wire' = wire

\* The model's own bound: a copy arrives only when no copy waits.
Arrive(e) ==
    /\ e \in wire
    /\ \E c \in Chats :
          /\ db.binding[c].session = e.session
          /\ \A i \in DOMAIN inbox[c] : inbox[c][i] # e
          /\ inbox' = [inbox EXCEPT ![c] = Append(@, e)]
    /\ Taken(e)
    /\ UNCHANGED <<db, op, sweep, work, userVars, remote, runs, asked>>

\* 404: no chat is bound to the session.
ArriveUnknown(e) ==
    /\ e \in wire
    /\ \A c \in Chats : db.binding[c].session # e.session
    /\ wire' = wire \ {e}
    /\ UNCHANGED <<botVars, userVars, remote, runs, asked>>

\* The server tries once; the call may fail.
Lose(e) ==
    /\ "webhook" \in Faults
    /\ e \in wire
    /\ wire' = wire \ {e}
    /\ UNCHANGED <<botVars, userVars, remote, runs, asked>>

\* Where sendAsyncSessionNotice starts, and where it goes on when the prompt
\* is on the screen.
FirstOf(n) ==
    IF n.kind = "none" THEN "free"
    ELSE IF n.show # None THEN "show"
    ELSE IF n.cleanup.message # 0 THEN "clean" ELSE "say"

AfterTrack(n) == IF n.cleanup.message # 0 THEN "clean" ELSE "free"
AfterUntrack(n) == IF n.show # None THEN "free" ELSE "say"

\* The watcher's work on chat c goes on at a step, or is over.
Continue(c, at) ==
    work' = [work EXCEPT ![c] = IF at = "free" THEN Idle ELSE [@ EXCEPT !.at = at]]

\* runMutation for event e on behalf of by: an accepted event changes the
\* store and leaves its notice to be sent.
Mutate(c, e, by) ==
    LET source == IF by = "webhook" THEN "webhook" ELSE "watchdog" IN
    IF Accepts(db, c, e, source)
    THEN \E a \in Latest(db, e.session, "active"), b \in Latest(db, e.session, "submitted") :
            LET r == ApplyEvent(db, c, e, source, a, b) IN
            /\ db' = r.store
            /\ work' = [work EXCEPT ![c] =
                  IF r.notice.kind = "none" THEN Idle
                  ELSE [Idle EXCEPT !.by = by, !.session = e.session,
                                    !.at = FirstOf(r.notice), !.notice = r.notice]]
    ELSE db' = db /\ Continue(c, "free")

ApplyWebhook(c) ==
    /\ work[c] = Idle
    /\ inbox[c] # <<>>
    /\ inbox' = [inbox EXCEPT ![c] = Tail(@)]
    /\ Mutate(c, Head(inbox[c]), "webhook")
    /\ UNCHANGED <<op, sweep, userVars, serverVars>>

-----------------------------------------------------------------------------
(* The watchdog: a sweep lists candidates and works through them, each in  *)
(* the queue of its chat.  A timer starts sweeps; one may overlap another. *)

Sweeping(v) == sweep[v] # {} \/ \E c \in Chats : work[c].by = v

Candidates == {[chat |-> c, session |-> db.binding[c].session,
                retry |-> db.session[db.binding[c].session].retry] :
                    c \in {x \in Chats : IsCandidate(db, x)}}

\* Only sessions not heard of for a while are listed: any of them.
StartSweep(v, listed) ==
    /\ ~Sweeping(v)
    /\ listed # {} /\ listed \subseteq Candidates
    /\ sweep' = [sweep EXCEPT ![v] = listed]
    /\ UNCHANGED <<db, op, inbox, work, userVars, serverVars>>

BeginSweep(listed) == \E v \in Sweeps : StartSweep(v, listed)

\* The candidate's turn; a prompt too old is closed first (looked up in one
\* transaction and looked at again in the one that closes it).
StartCandidate(v, k) ==
    /\ k \in sweep[v]
    /\ \A c \in Chats : work[c].by # v
    /\ work[k.chat] = Idle
    /\ sweep' = [sweep EXCEPT ![v] = @ \ {k}]
    /\ work' = [work EXCEPT ![k.chat] = [Idle EXCEPT !.by = v, !.at = "ask",
                                            !.session = k.session, !.retry = k.retry]]
    /\ \E p \in {None} \cup PromptsOf(db, k.session, "active") : db' = ExpirePrompt(db, p)
    /\ UNCHANGED <<op, inbox, userVars, serverVars>>

WatchOnly == UNCHANGED <<op, inbox, sweep, userVars, serverVars>>

\* What the watchdog takes for a passing failure.
Retryable(code) == code \in {"UPSTREAM_TIMEOUT", "UPSTREAM_5XX"}

\* adapter.getSessionState: an answer, or a failure.  A connection that is
\* refused has neither a status nor the code of a timeout and is final.
AskRemote(c) ==
    LET s == work[c].session
        hears(at, answer) == work' = [work EXCEPT ![c].at = at, ![c].answer = answer]
    IN
    /\ work[c].at = "ask"
    /\ \/ Alive(s) /\ hears("react", remote[s].status)
       \/ \E f \in Failures(s) :
             hears("failed", IF Retryable(ErrorOf(f, "getSessionState"))
                             THEN "retryable" ELSE "fatal")
    /\ UNCHANGED db /\ WatchOnly

\* A mutant: one attempt too many.
ReactToFailureLate(c) ==
    LET w == work[c] IN
    /\ w.at = "failed"
    /\ db' = CountFailure(db, w.session)
    /\ Continue(c, IF w.answer = "retryable" /\ w.retry < MaxRetry
                   THEN "free" ELSE "conclude")
    /\ WatchOnly

\* One more failed attempt: again in a later sweep, or the session is given up.
ReactToFailure(c) ==
    LET w == work[c] IN
    /\ w.at = "failed"
    /\ db' = CountFailure(db, w.session)
    /\ Continue(c, IF w.answer = "retryable" /\ w.retry + 1 < MaxRetry
                   THEN "free" ELSE "conclude")
    /\ WatchOnly

\* A session that goes on or is over needs no answer any more.
React(c) ==
    LET w == work[c] IN
    /\ w.at = "react"
    /\ IF w.answer \in {"running", "completed", "idle"}
       THEN \E a \in Latest(db, w.session, "active") : db' = CancelPrompt(db, a)
       ELSE UNCHANGED db
    /\ Continue(c, IF w.answer = "running" THEN "touch" ELSE "conclude")
    /\ WatchOnly

\* A session that runs is left alone; any other is concluded.
TouchSession(c) ==
    /\ work[c].at = "touch"
    /\ db' = Touch(db, work[c].session)
    /\ Continue(c, "free")
    /\ WatchOnly

\* applyEvent with an event of the watchdog's own making: NEEDS_INPUT without
\* prompt data, or applySyntheticTerminal, which is a FAILED.
Conclude(c) ==
    LET w == work[c]
        kind == IF w.answer = "needs-attention" THEN "needs-input" ELSE "failed"
    IN
    /\ w.at = "conclude"
    /\ Mutate(c, [kind |-> kind, session |-> w.session, token |-> "none",
                  prompt |-> None, run |-> None], w.by)
    /\ WatchOnly

-----------------------------------------------------------------------------
(* sendAsyncSessionNotice, while the chat's watcher queue is held.         *)

NoticeOnly == UNCHANGED <<op, inbox, answers, serverVars>>

\* sendPromptMessage: the question of the notice, with or without buttons.
Question(c, buttons) ==
    LET p == work[c].notice.show IN
    [prompt |-> p, chat |-> c, buttons |-> IF p \in TextPrompts THEN "none" ELSE buttons]

ShowPrompt(c) ==
    /\ work[c].at = "show"
    /\ keyboard' = Append(keyboard, Question(c, "live"))
    /\ work' = [work EXCEPT ![c] = [@ EXCEPT !.at = "track", !.message = Len(keyboard) + 1]]
    /\ UNCHANGED <<db, sweep, told>> /\ NoticeOnly

TrackPromptMessage(c) ==
    /\ work[c].at = "track"
    /\ db' = TrackMessage(db, work[c].notice.show, work[c].message)
    /\ Continue(c, AfterTrack(work[c].notice))
    /\ UNCHANGED <<sweep, keyboard, told>> /\ NoticeOnly

\* Telegram may refuse the edit; the code goes on.
CleanKeyboard(c) ==
    LET m == work[c].notice.cleanup.message IN
    /\ work[c].at = "clean"
    /\ \/ keyboard' = [keyboard EXCEPT ![m].buttons = "none"]
       \/ "telegram" \in Faults /\ keyboard' = keyboard
    /\ Continue(c, "untrack")
    /\ UNCHANGED <<db, sweep, told>> /\ NoticeOnly

TrackPromptCleanup(c) ==
    /\ work[c].at = "untrack"
    /\ db' = TrackCleanup(db, work[c].notice.cleanup.prompt)
    /\ Continue(c, AfterUntrack(work[c].notice))
    /\ UNCHANGED <<sweep, keyboard, told>> /\ NoticeOnly

Say(c) ==
    LET s == work[c].session IN
    /\ work[c].at = "say"
    /\ told' = IF work[c].notice.kind = "terminal"
               THEN [told EXCEPT ![s] = TRUE] ELSE told
    /\ Continue(c, "free")
    /\ UNCHANGED <<db, sweep, keyboard>> /\ NoticeOnly

\* The error goes up to the receiver, or ends the sweep.
NoticeEnds(c) ==
    /\ sweep' = [v \in Sweeps |-> IF work[c].by = v THEN {} ELSE sweep[v]]
    /\ Continue(c, "free")
    /\ UNCHANGED <<db, told>> /\ NoticeOnly

\* Telegram refuses the message, or shows it and its answer is lost.
NoticeFails(c) ==
    /\ "telegram" \in Faults
    /\ \/ work[c].at \in {"show", "say"} /\ keyboard' = keyboard
       \/ work[c].at = "show" /\ keyboard' = Append(keyboard, Question(c, "lost"))
    /\ NoticeEnds(c)

\* The id of the message is forgotten with the transaction that was to keep it.
TrackFails(c) ==
    /\ "store" \in Faults
    /\ \/ /\ work[c].at = "track"
          /\ keyboard' = [keyboard EXCEPT ![work[c].message].buttons =
                             IF @ = "live" THEN "lost" ELSE @]
       \/ work[c].at = "untrack" /\ keyboard' = keyboard
    /\ NoticeEnds(c)

BeginCandidate(c) ==
    \E v \in Sweeps : \E k \in {x \in sweep[v] : x.chat = c} : StartCandidate(v, k)

WatchStep(c) ==
    \/ AskRemote(c) \/ ReactToFailure(c) \/ React(c) \/ TouchSession(c) \/ Conclude(c)
    \/ ShowPrompt(c) \/ TrackPromptMessage(c) \/ CleanKeyboard(c)
    \/ TrackPromptCleanup(c) \/ Say(c) \/ NoticeFails(c) \/ TrackFails(c)

-----------------------------------------------------------------------------
\* What a bot that is up may do at any time.
BotStep ==
    \/ \E h \in Handlers, c \in Chats :
          \/ \E kind \in Commands : Begin(h, c, kind)
          \/ \E p \in Prompts : Press(h, c, p)
    \/ \E h \in Handlers : HandlerStep(h)
    \/ \E e \in wire : Arrive(e) \/ ArriveUnknown(e) \/ Lose(e)
    \/ \E c \in Chats : BeginCandidate(c) \/ ApplyWebhook(c) \/ WatchStep(c)

TimerStep == \E listed \in SUBSET Candidates : BeginSweep(listed)

WorldStep == ServerStep /\ UNCHANGED <<botVars, userVars>>

Next == BotStep \/ TimerStep \/ WorldStep

Spec == Init /\ [][Next]_vars

\* Calls and transactions end: all have timeouts.  The chat's queue is first
\* come, first served (PromiseQueue), so what waits in it gets its turn again
\* and again.  The timer never stops, and a session nobody hears of is old
\* enough to be listed by sweep after sweep.  Nothing is asked of users, of
\* the server's runs or of the delivery of webhooks.
Fairness ==
    /\ \A h \in Handlers : WF_vars(HandlerStep(h))
    /\ \A c \in Chats :
          /\ WF_vars(WatchStep(c))
          /\ SF_vars(BeginCandidate(c))
          /\ SF_vars(\E listed \in SUBSET Candidates :
                        /\ \E k \in listed : k.chat = c
                        /\ BeginSweep(listed))

FairSpec == Spec /\ Fairness

\* The same with webhook calls that arrive and are handled.
DeliverySpec ==
    /\ FairSpec
    /\ WF_vars(\E e \in wire : Arrive(e) \/ ArriveUnknown(e))
    /\ \A c \in Chats : SF_vars(ApplyWebhook(c))
=============================================================================
