------------------------------- MODULE Watcher ------------------------------
(***************************************************************************)
(* application/session-watcher-service.ts: what the transactions of the    *)
(* watcher do to the store.  An event e has the fields kind, session,      *)
(* token (the bearer token it came with), prompt (None: no prompt data, or *)
(* data that does not parse) and run (which run of the session the sender  *)
(* meant; the code never sees it).                                         *)
(***************************************************************************)
EXTENDS Store

CONSTANT HumanPrompts   \* HUMAN_PROMPTS_ENABLED

Terminals == {"completed", "failed"}

\* A prompt the notice takes the buttons from: its id, and the Telegram message
\* that the row knows.
Cleanup(d, p) ==
    IF p = None THEN [prompt |-> None, message |-> 0]
    ELSE [prompt |-> p, message |-> d.prompt[p].message]

NoCleanup == [prompt |-> None, message |-> 0]
Notice == [kind : {"none", "terminal", "needs-input"},
           show : Prompts \cup {None},
           cleanup : [prompt : Prompts \cup {None}, message : Nat]]
NoNotice == [kind |-> "none", show |-> None, cleanup |-> NoCleanup]

-----------------------------------------------------------------------------
(* The early returns of runMutation.                                       *)

Authorized(d, e) == d.session[e.session].token /\ e.token = "own"

Duplicate(d, e) == e.kind \in Terminals /\ d.session[e.session].terminal # "none"
Bound(d, c, e) == d.binding[c].session = e.session

\* A mutant: the binding is not looked up again in the mutation.
AcceptsUnbound(d, c, e, source) ==
    (source = "watchdog" \/ Authorized(d, e)) /\ ~Duplicate(d, e)

Accepts(d, c, e, source) ==
    /\ source = "watchdog" \/ Authorized(d, e)
    /\ ~Duplicate(d, e)
    /\ Bound(d, c, e)

-----------------------------------------------------------------------------
\* invalidatePendingPromptForSession: a is the latest active prompt of the
\* session and b its latest submitted one, None when there is none.
Invalidate(d, a, b) ==
    CompareAndSet(CompareAndSet(d, a, "active", "invalidated"),
                  b, "submitted", "invalidated")

Invalidated(a, b) == IF a # None THEN a ELSE b

\* handleNeedsInputPrompt: the new prompt takes the place of the active one.
RaisePrompt(d, c, e, a) ==
    LET d1 == IF a # e.prompt THEN CompareAndSet(d, a, "active", "invalidated") ELSE d
    IN [d1 EXCEPT !.prompt[e.prompt] =
            [@ EXCEPT !.status = "active", !.session = e.session, !.chat = c]]

\* The prompt part of NEEDS_INPUT: [store, show, cleanup].
PromptPart(d, c, e, a, b) ==
    IF ~HumanPrompts
    THEN [store |-> Invalidate(d, a, b), show |-> None,
          cleanup |-> Cleanup(d, Invalidated(a, b))]
    ELSE IF e.prompt = None
    THEN [store |-> d, show |-> None, cleanup |-> NoCleanup]
    ELSE [store |-> RaisePrompt(d, c, e, a), show |-> e.prompt,
          cleanup |-> IF a # e.prompt THEN Cleanup(d, a) ELSE NoCleanup]

\* A mutant: the chat keeps its task while it waits.
AfterNeedsInputKeepsTask(d, c, e, a, b) ==
    LET part == PromptPart(d, c, e, a, b) IN
    [store |-> [part.store EXCEPT !.state[c].mode = "needs-attention",
                                  !.session[e.session].retry = 0],
     notice |-> [kind |-> "needs-input", show |-> part.show, cleanup |-> part.cleanup]]

AfterNeedsInput(d, c, e, a, b) ==
    LET part == PromptPart(d, c, e, a, b)
        d1 == CompleteTask(part.store, d.state[c].task, "completed")
    IN [store |-> [d1 EXCEPT !.state[c] = [mode |-> "needs-attention", task |-> None],
                             !.session[e.session].retry = 0],
        notice |-> [kind |-> "needs-input", show |-> part.show, cleanup |-> part.cleanup]]

\* STARTED closes the prompts and says nothing; clearNeedsAttentionIfPromptClosed
\* writes the mode that it finds.
AfterStarted(d, c, e, a, b) ==
    [store |-> [Invalidate(d, a, b) EXCEPT !.session[e.session].retry = 0],
     notice |-> NoNotice]

\* Everything else ends the run, whatever its kind.
AfterTerminal(d, c, e, source, a, b) ==
    LET d1 == CompleteTask(Invalidate(d, a, b), d.state[c].task,
                           IF e.kind = "completed" THEN "completed" ELSE "failed")
    IN [store |-> [d1 EXCEPT !.state[c] = [mode |-> StableSessionMode(@.mode), task |-> None],
                             !.session[e.session].token = @ /\ source = "watchdog",
                             !.session[e.session].terminal = source,
                             !.session[e.session].retry = 0],
        notice |-> [kind |-> "terminal", show |-> None,
                    cleanup |-> Cleanup(d, Invalidated(a, b))]]

\* The mutation of applyEvent for an accepted event.
ApplyEvent(d, c, e, source, a, b) ==
    CASE e.kind = "needs-input" -> AfterNeedsInput(d, c, e, a, b)
      [] e.kind = "started" -> AfterStarted(d, c, e, a, b)
      [] OTHER -> AfterTerminal(d, c, e, source, a, b)

-----------------------------------------------------------------------------
(* The watchdog's own transactions.                                        *)

\* listWatchdogCandidates, without the age of the last observation: the chats
\* whose bound session is watched and not over.
IsCandidate(d, c) ==
    LET s == d.binding[c].session IN
    s # None /\ d.session[s].watched /\ d.session[s].terminal = "none"

\* The server could not be asked: one more failed attempt.
CountFailure(d, s) ==
    IF d.session[s].terminal = "none" /\ d.session[s].retry < MaxRetry
    THEN [d EXCEPT !.session[s].retry = @ + 1] ELSE d

\* touchSession
Touch(d, s) == [d EXCEPT !.session[s].retry = 0]

\* cancelPendingPromptOnWatchdogResume, expirePendingPromptIfNeeded
CancelPrompt(d, a) == CompareAndSet(d, a, "active", "cancelled")
ExpirePrompt(d, a) == CompareAndSet(d, a, "active", "expired")

-----------------------------------------------------------------------------
(* adapters/telegram/message-sender.ts                                     *)

\* A mutant: only a prompt that is still open learns its message.
TrackMessageOfOpen(d, p, m) ==
    IF d.prompt[p].status = "active" THEN [d EXCEPT !.prompt[p].message = m] ELSE d

\* trackPromptMessageReference; the row exists, the event wrote it.  What it knew
\* of an earlier message of the prompt is overwritten.
TrackMessage(d, p, m) == [d EXCEPT !.prompt[p].message = m]

\* trackPromptCleanup: the status is written over whatever it is by now.
TrackCleanup(d, p) == [d EXCEPT !.prompt[p].status = "invalidated"]
=============================================================================
