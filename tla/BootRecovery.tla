---------------------------- MODULE BootRecovery ----------------------------
(***************************************************************************)
(* application/boot-recovery-service.ts and restoreAfterRestart of the     *)
(* watcher: what the transactions of a start do to the store.  k is what   *)
(* loadActiveBindings remembers of a chat: its binding and its state as    *)
(* they were when the start began.                                         *)
(***************************************************************************)
EXTENDS Store

\* loadActiveBindings: the chats with a project and a session.  The row of a
\* bound session was written with the binding and has its project, so that
\* isBindingConsistent holds of all of them.
ActiveBindings(d) ==
    {[chat |-> c, session |-> d.binding[c].session, state |-> d.state[c]] :
        c \in {x \in Chats : d.binding[x].project # None /\ d.binding[x].session # None}}

\* completePreviousTask: whatever the task was, it is completed now.
CompletePrevious(d, t) ==
    IF t \in Tasks /\ d.task[t].status # "none"
    THEN [d EXCEPT !.task[t].status = "completed"] ELSE d

\* A mutant: a run that goes on must have taken its answer.
MarkRunningResolves(d, k, task) ==
    [d EXCEPT !.state[k.chat] = [mode |-> "task-running", task |-> task],
              !.prompt = [p \in Prompts |->
                 [@[p] EXCEPT !.status = IF @ = "submitted" THEN "resolved" ELSE @]]]

\* markBindingRunning: a run without a task id links the chat only.
MarkRunning(d, k, task) ==
    PutTask([d EXCEPT !.state[k.chat] =
                [mode |-> IF task = None THEN "session-linked" ELSE "task-running",
                 task |-> task]],
            task, "in-progress", k.session)

MarkNeedsAttention(d, k) ==
    [CompletePrevious(d, k.state.task) EXCEPT !.state[k.chat] =
        [mode |-> "needs-attention", task |-> None]]

\* closeBinding: the chat keeps its project, and the mode of a linked chat.
CloseBinding(d, k) ==
    [CompletePrevious(d, k.state.task) EXCEPT
        !.binding[k.chat].session = None,
        !.state[k.chat] =
            [mode |-> IF d.binding[k.chat].project = None THEN "idle" ELSE "session-linked",
             task |-> None]]

\* markBindingDegraded: the state of before, with a mode that is linked.
MarkDegraded(d, k) ==
    [d EXCEPT !.state[k.chat] = [k.state EXCEPT !.mode = StableSessionMode(k.state.mode)]]

\* applyRemoteStatus and the failures of reconcileAll.
Closes(answer) == answer \in {"missing", "idle", "completed"}
Reconciled(d, k, answer, task) ==
    CASE Closes(answer) -> CloseBinding(d, k)
      [] answer = "running" -> MarkRunning(d, k, task)
      [] answer = "needs-attention" -> MarkNeedsAttention(d, k)
      [] OTHER -> MarkDegraded(d, k)

\* markHealthyWithoutRemote: every chat is linked and keeps its task.
MarkHealthy(d, ks) ==
    [d EXCEPT !.state = [c \in Chats |->
        IF \E k \in ks : k.chat = c THEN [@[c] EXCEPT !.mode = "session-linked"] ELSE @[c]]]

\* restoreAfterRestart: sessions that are followed and not over lose the token
\* of before.  A session shared by two chats is told to one of them.
LosesContinuity(d, s) ==
    /\ \E c \in Chats : d.binding[c].project # None /\ d.binding[c].session = s
    /\ d.session[s].watched /\ d.session[s].terminal = "none" /\ d.session[s].token

\* Mutants: every followed session is re-armed; it gets a new token; an answer
\* that was under way is given up.
RestoreRearms(d) ==
    [d EXCEPT !.session = [s \in Sessions |-> [@[s] EXCEPT !.terminal = "none"]]]
RestoreRenewsTokens(d) ==
    [d EXCEPT !.session = [s \in Sessions |-> [@[s] EXCEPT !.token = d.session[s].watched]]]
RestoreCancelsAnswers(d) ==
    [d EXCEPT !.prompt = [p \in Prompts |->
        [@[p] EXCEPT !.status = IF @ = "submitted" THEN "cancelled" ELSE @]]]

Restore(d) ==
    [d EXCEPT !.session = [s \in Sessions |->
        IF LosesContinuity(d, s) THEN [@[s] EXCEPT !.token = FALSE] ELSE @[s]]]
=============================================================================
