------------------------------ MODULE UseCases ------------------------------
(***************************************************************************)
(* application/use-cases.ts: what the transactions of the use cases do to  *)
(* the store.  A use case reads in one transaction, calls the OpenCode     *)
(* server, and writes in a later one; SessionControl puts the steps in     *)
(* order.  r is the server's answer, always received before the write.     *)
(***************************************************************************)
EXTENDS Store

\* A mutant: the status of the server is stored as it comes.
ModeAsReceived(status) == status

\* mapRemoteStatusToOperationalMode
ModeOfStatus(status) ==
    CASE status = "running" -> "task-running"
      [] status = "needs-attention" -> "needs-attention"
      [] OTHER -> "session-linked"

\* mapRemoteStatusToOperationalState: the task is kept only while it runs.
StateOfReply(r) ==
    [mode |-> ModeOfStatus(r.status),
     task |-> IF r.status = "running" THEN r.task ELSE None]

\* resolveOperationalModeFromRunCommand: unlike a text, a command whose answer
\* has an unknown status keeps the mode that was loaded before the call.
ModeOfRun(status, seenMode) ==
    IF status = "unknown" THEN StableSessionMode(seenMode) ELSE ModeOfStatus(status)

-----------------------------------------------------------------------------
(* What the first transaction of each use case lets pass.                  *)

HasProject(d, c) == d.binding[c].project # None
HasSession(d, c) == HasProject(d, c) /\ d.binding[c].session # None

MaySelect(d, c) == ~Busy(d, c)
MayAttach(d, c) == HasProject(d, c) /\ ~Busy(d, c)
MayCreate(d, c) == HasProject(d, c) /\ ~Busy(d, c)
MaySend(d, c) == HasSession(d, c) /\ ~Busy(d, c)
MayRun(d, c) == HasSession(d, c) /\ ~Busy(d, c)
MayCancel(d, c) == HasSession(d, c) /\ Busy(d, c)

-----------------------------------------------------------------------------
\* getStatus, second transaction.  s is the session that was asked about, bound
\* to the chat when the first transaction ran.
StatusCommit(d, c, s, r) ==
    LET next == StateOfReply(r)
        previous == d.state[c].task
        d1 == [d EXCEPT !.state[c] = next]
        d2 == IF next.mode # "task-running"
              THEN CompleteTask(d1, previous, "completed") ELSE d1
    IN PutTask(d2, r.task, IF r.status = "running" THEN "in-progress" ELSE "completed", s)

\* selectProject: the binding loses its session and the chat starts afresh.
SelectCommit(d, c, p) ==
    [d EXCEPT !.projects = @ \cup {p},
              !.binding[c] = ApplyProjectSelection(p),
              !.state[c] = IdleState]

\* attachSession: the row of the session is replaced by one without watcher.
AttachCommit(d, c, p, s, r) ==
    [d EXCEPT !.session[s] = NoSession,
              !.binding[c] = [project |-> p, session |-> s],
              !.state[c] = StateOfReply(r)]

\* hydrateWatchedSession: the new session has the token of its registration.
WatchedSession == [NoSession EXCEPT !.token = TRUE, !.watched = TRUE]

\* createSession: the row is hydrated with the registration of the call.
CreateCommit(d, c, p, s, r) ==
    [d EXCEPT !.session[s] = WatchedSession,
              !.binding[c] = [project |-> p, session |-> s],
              !.state[c] = StateOfReply(r)]

\* sendText and runSessionCommand: the answer becomes the chat's state, the
\* task gets a row, and the session can end again.
ExecuteCommit(d, c, s, r, mode) ==
    LET d1 == [d EXCEPT !.state[c] = [mode |-> mode, task |-> r.task],
                        !.session[s].terminal = "none"]
    IN PutTask(d1, r.task, "in-progress", s)

SendCommit(d, c, s, r) == ExecuteCommit(d, c, s, r, ModeOfStatus(r.status))
RunCommit(d, c, s, r, seenMode) == ExecuteCommit(d, c, s, r, ModeOfRun(r.status, seenMode))

\* A mutant: the chat's state is left as it is.
CancelCommitTaskOnly(d, c, seenTask) == CompleteTask(d, seenTask, "completed")

\* cancelSession, after the server accepted: the task of the state now, or
\* else the one that was loaded before the call, is over.
CancelCommit(d, c, seenTask) ==
    LET previous == IF d.state[c].task # None THEN d.state[c].task ELSE seenTask
    IN CompleteTask([d EXCEPT !.state[c] = [mode |-> "session-linked", task |-> None]],
                    previous, "completed")

-----------------------------------------------------------------------------
\* A mutant: the status is not looked at again.
MaySubmitAny(d, c, p) == d.prompt[p].chat = c

\* submitPendingPrompt up to the call of the server: the prompt is the chat's
\* and still open, and the answer is recorded with it.
MaySubmit(d, c, p) == d.prompt[p].chat = c /\ d.prompt[p].status = "active"
SubmitPreflight(d, p, byButton) ==
    LET d1 == CompareAndSet(d, p, "active", "submitted")
    IN [d1 EXCEPT !.prompt[p].pressed = @ \/ byButton]

\* Mutants: the prompt stays submitted; the status is written over whatever it
\* is by now; a refused answer counts as taken.
SubmitRevertForgotten(d, p) == d
SubmitRevertBlindly(d, p) == [d EXCEPT !.prompt[p].status = "active"]

\* The server refused the answer, or took it.
SubmitRevert(d, p) == CompareAndSet(d, p, "submitted", "active")
SubmitResolve(d, p) == CompareAndSet(d, p, "submitted", "resolved")
=============================================================================
