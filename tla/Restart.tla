------------------------------- MODULE Restart ------------------------------
(***************************************************************************)
(* The bot dies and is started again (index.ts, bootstrapApplication): the *)
(* store, the server and what is on the users' screens stay, all else is   *)
(* lost.  Chats are reconciled before updates and webhooks are taken; the  *)
(* notices, the new tokens and the first sweep come after that.            *)
(***************************************************************************)
EXTENDS SessionProperties, BootRecovery

CONSTANTS RemoteReconcile,   \* what BOOT_REMOTE_RECONCILE may be at a start
          MaxCrashes         \* bound: how often the bot dies

ASSUME RestartAssumption == RemoteReconcile \in (SUBSET BOOLEAN) \ {{}} /\ MaxCrashes \in Nat

VARIABLE boot

bootVars == <<vars, boot>>

Phases == {"load", "reconcile", "notices", "tell", "up"}
NoAsk == [chat |-> None, answer |-> "none", task |-> None]
Up == [phase |-> "up", todo |-> {}, ask |-> NoAsk, closed |-> {}, cut |-> {}, crashes |-> 0]

\* The first start finds an empty store and has nothing to do.
BootInit == Init /\ boot = Up

Serving == boot.phase \in {"notices", "tell", "up"}

-----------------------------------------------------------------------------
\* Transactions are all or nothing (JsonStore), calls under way are not heard
\* of again.
Crash ==
    /\ boot.crashes < MaxCrashes
    /\ op' = [h \in Handlers |-> Free]
    /\ inbox' = [c \in Chats |-> <<>>]
    /\ sweep' = [v \in Sweeps |-> {}]
    /\ work' = [c \in Chats |-> Idle]
    /\ boot' = [Up EXCEPT !.phase = "load", !.crashes = boot.crashes + 1]
    /\ UNCHANGED <<db, userVars, serverVars>>

BootOnly == UNCHANGED <<op, inbox, sweep, work, keyboard, answers, serverVars>>

\* The snapshots are taken in one transaction.
LoadBindings ==
    /\ boot.phase = "load"
    /\ \/ /\ TRUE \in RemoteReconcile
          /\ boot' = [boot EXCEPT !.phase = "reconcile", !.todo = ActiveBindings(db)]
          /\ UNCHANGED db
       \/ /\ FALSE \in RemoteReconcile
          /\ boot' = [boot EXCEPT !.phase = "notices"]
          /\ db' = MarkHealthy(db, ActiveBindings(db))
    /\ UNCHANGED told /\ BootOnly

\* getSessionState, one chat after the other.
AskAtBoot ==
    LET hears(k, answer, task) ==
            boot' = [boot EXCEPT !.ask = [chat |-> k.chat, answer |-> answer, task |-> task]]
    IN
    /\ boot.phase = "reconcile" /\ boot.ask = NoAsk
    /\ \E k \in boot.todo :
          \/ Alive(k.session) /\ hears(k, AnswerOf(k.session).status, AnswerOf(k.session).task)
          \/ \E f \in Failures(k.session) :
                hears(k, IF ErrorOf(f, "getSessionState") = "NOT_FOUND"
                         THEN "missing" ELSE "failed", None)
    /\ UNCHANGED <<db, told>> /\ BootOnly

\* A mutant: the session is closed and nobody told.
ReconcileSilently ==
    /\ boot.phase = "reconcile" /\ boot.ask # NoAsk
    /\ \E k \in boot.todo :
          /\ k.chat = boot.ask.chat
          /\ db' = Reconciled(db, k, boot.ask.answer, boot.ask.task)
          /\ boot' = [boot EXCEPT !.todo = @ \ {k}, !.ask = NoAsk]
    /\ UNCHANGED told /\ BootOnly

\* The answer is put into the store; a closed session gets a notice, kept in
\* memory until the bot has started.
Reconcile ==
    /\ boot.phase = "reconcile" /\ boot.ask # NoAsk
    /\ \E k \in boot.todo :
          /\ k.chat = boot.ask.chat
          /\ db' = Reconciled(db, k, boot.ask.answer, boot.ask.task)
          /\ boot' = [boot EXCEPT
                !.todo = @ \ {k}, !.ask = NoAsk,
                !.closed = IF Closes(boot.ask.answer)
                           THEN @ \cup {[chat |-> k.chat, session |-> k.session]} ELSE @]
    /\ UNCHANGED told /\ BootOnly

\* The receiver listens and the bot polls: updates and webhooks come in while
\* the rest of the start goes on.
StartBot ==
    /\ boot.phase = "reconcile" /\ boot.todo = {}
    /\ boot' = [boot EXCEPT !.phase = "notices"]
    /\ UNCHANGED <<db, told>> /\ BootOnly

\* sendBootRecoveryNotices: a notice that Telegram refuses is given up.
SendBootNotice ==
    /\ boot.phase = "notices"
    /\ \E n \in boot.closed :
          /\ boot' = [boot EXCEPT !.closed = @ \ {n}]
          /\ \/ told' = [told EXCEPT ![n.session] = TRUE]
             \/ "telegram" \in Faults /\ told' = told
    /\ UNCHANGED db /\ BootOnly

\* restoreAfterRestart: webhooks of before the restart authorise nothing.
RestoreTokens ==
    /\ boot.phase = "notices" /\ boot.closed = {}
    /\ boot' = [boot EXCEPT !.phase = "tell",
                            !.cut = {s \in Sessions : LosesContinuity(db, s)}]
    /\ db' = Restore(db)
    /\ UNCHANGED told /\ BootOnly

\* One notice for each of them; a failure ends the process, which is a Crash.
TellContinuityLost ==
    /\ boot.phase = "tell"
    /\ \E s \in boot.cut : boot' = [boot EXCEPT !.cut = @ \ {s}]
    /\ UNCHANGED <<db, told>> /\ BootOnly

\* The first sweep and then the timer.
StartTimer ==
    /\ boot.phase = "tell" /\ boot.cut = {}
    /\ boot' = [boot EXCEPT !.phase = "up"]
    /\ UNCHANGED <<db, told>> /\ BootOnly

\* Nobody listens: the webhook call fails.
Unheard(e) ==
    /\ ~Serving
    /\ wire' = wire \ {e}
    /\ UNCHANGED <<botVars, userVars, remote, runs, asked, boot>>

BootStep ==
    \/ LoadBindings \/ AskAtBoot \/ Reconcile \/ StartBot
    \/ SendBootNotice \/ RestoreTokens \/ TellContinuityLost \/ StartTimer

RestartNext ==
    \/ Serving /\ BotStep /\ UNCHANGED boot
    \/ boot.phase = "up" /\ TimerStep /\ UNCHANGED boot
    \/ WorldStep /\ UNCHANGED boot
    \/ Crash
    \/ BootStep
    \/ \E e \in wire : Unheard(e)

RestartSpec == BootInit /\ [][RestartNext]_bootVars

\* A started process gets through its start; the rest as in SessionControl.
FairRestartSpec == RestartSpec /\ WF_bootVars(BootStep) /\ Fairness

-----------------------------------------------------------------------------
(* What survives a restart.                                                *)

\* The run of session s is over, a chat follows it, and nobody was told.
Followed(s) == Watched(s) /\ \E c \in Chats : Session_(c) = s
Unreported(s) == ~told[s] /\ Over(s) /\ Followed(s)

\* Its chats were given another project or session by their users; one that
\* the start unbound has no session and is linked.
Left(s) == \A c \in Chats :
    Session_(c) # s /\ ~(Session_(c) = None /\ ModeOf(c) = "session-linked")

Reported(s) == told[s] \/ ~Over(s) \/ ~Watched(s) \/ Left(s)

\* The end of a run that is not written down yet is told by the webhook, the
\* start or the watchdog, also when the bot dies at any point on the way,
\* unless the session is given something new to do or is attached afresh.  The
\* start must be able to ask the server: what it cannot ask about it takes for
\* linked, and what is written down it does not tell again.
EndIsReported == \A s \in Sessions : Unreported(s) /\ ~Ended(s) ~> Reported(s)

=============================================================================
