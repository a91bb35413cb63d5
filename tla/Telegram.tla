------------------------------ MODULE Telegram ------------------------------
(***************************************************************************)
(* What becomes of a Telegram update: the listeners of bot.ts with the     *)
(* list of allowed users and the lock of the chat, the handlers of         *)
(* handlers.ts with the bridge for texts of chats without a session, the   *)
(* answers of adapters/telegram/router.ts, and the sender of long texts.   *)
(* What the use cases do to a chat is SessionControl's matter: here a      *)
(* command may give or take the chat's session, and a text is an order.    *)
(***************************************************************************)
EXTENDS ChatLock, Chunks, HttpClient

CONSTANTS
    Kind,          \* of each update: "text", "command" or "press" (of a button)
    Strangers,     \* updates of users who are not in ALLOWED_USER_IDS, or of no user
    Chatless,      \* presses that come without a message
    LockOn,        \* config.chatLockEnabled
    BridgeModes,   \* values of COMPAT_LEGACY_TEXT_BRIDGE
    Answers,       \* texts of OpenCode
    Notice,        \* a text of the bot itself
    BridgeFailures,
    StoreFails,    \* transactions may throw
    Window,        \* AUTH_REJECT_LOG_WINDOW_MS
    MaxTime        \* a bound on the clock

ASSUME UpdatesAssumption ==
    /\ LockOn \in BOOLEAN
    /\ Kind \in [Jobs -> {"text", "command", "press"}]
    /\ Strangers \subseteq Jobs
    /\ Chatless \subseteq {u \in Jobs : Kind[u] = "press"}
    /\ None \notin Jobs
    /\ Window \in Nat \ {0}

VARIABLES
    bridgeOn,           \* config.compatLegacyTextBridge of this process
    at,                 \* where the handler of each update is
    sending,            \* the text it sends, the chunk that comes next, those shown
    bound,              \* chats that have a session
    attempts,           \* calls of the bridge for an update
    ran,                \* what ran an update's text: "bridge", "session"
    answer,             \* answerCallbackQuery: not called, failed or done
    last,               \* the latest message of each chat
    now, since, rejected, summed, lines   \* createAuthRejectTelemetry, and its log

handling == <<at, sending, bound, attempts, ran, answer, last>>
telemetry == <<now, since, rejected, summed, lines>>
telegramVars == <<vars, bridgeOn, handling, telemetry>>

NoText == [text |-> Notice, from |-> "none", next |-> 0, plain |-> FALSE, shown |-> <<>>]
NoMessage == [by |-> None, from |-> "none", text |-> Notice, next |-> 0]
Senders == {"bridge", "router", "apology"}
Texts == Answers \cup {Notice}

\* A text is at least one message: without any chunk the sender takes an empty one.
ASSUME TextsAssumption == \A text \in Texts : Len(ChunksOf(text)) \in Nat \ {0}

Places == {"new", "waiting", "status", "bridge", "route", "order", "press",
           "send", "failed", "over", "sorry", "done"}
Sendings == [text : Texts, from : Senders \cup {"none"}, next : Nat, plain : BOOLEAN,
             shown : Seq([next : Nat, plain : BOOLEAN])]
Messages == [by : Jobs \cup {None}, from : Senders \cup {"none"}, text : Texts, next : Nat]

TelegramTypeOK ==
    /\ TypeOK
    /\ at \in [Jobs -> Places]
    /\ sending \in [Jobs -> Sendings]
    /\ bound \in [Chats -> BOOLEAN]
    /\ attempts \in [Jobs -> Nat]
    /\ ran \in [Jobs -> SUBSET {"bridge", "session"}]
    /\ answer \in [Jobs -> {"none", "failed", "done"}]
    /\ last \in [Chats -> Messages]

TelegramInit ==
    /\ Init
    /\ bridgeOn \in BridgeModes
    /\ at = [u \in Jobs |-> "new"]
    /\ sending = [u \in Jobs |-> NoText]
    /\ bound \in [Chats -> BOOLEAN]
    /\ attempts = [u \in Jobs |-> 0]
    /\ ran = [u \in Jobs |-> {}]
    /\ answer = [u \in Jobs |-> "none"]
    /\ last = [c \in Chats |-> NoMessage]
    /\ now = 0 /\ since = 0 /\ rejected = 0 /\ summed = 0 /\ lines = 0

-----------------------------------------------------------------------------
(* The listeners.                                                          *)

Tick == now < MaxTime /\ now' = now + 1 /\ UNCHANGED <<vars, bridgeOn, handling, since, rejected, summed, lines>>

\* A mutant: whoever writes is let in.
AuthorizedAnyone(u) == TRUE

\* authorizeIngressActor
Authorized(u) == u \notin Strangers

\* track: a line for the first of a window, a line with the sum at its end.
Track ==
    LET over == now - since >= Window /\ rejected > 0 IN
    /\ since' = IF over THEN now ELSE since
    /\ rejected' = IF over THEN 1 ELSE rejected + 1
    /\ summed' = IF over THEN summed + rejected ELSE summed
    /\ lines' = lines + (IF over THEN 1 ELSE 0) + (IF rejected' = 1 THEN 1 ELSE 0)
    /\ UNCHANGED now

Reject(u) ==
    /\ at[u] = "new" /\ ~Authorized(u)
    /\ at' = [at EXCEPT ![u] = "done"]
    /\ Track
    /\ UNCHANGED <<vars, bridgeOn, sending, bound, attempts, ran, answer, last>>

\* A press without a message names no chat.
Ignore(u) ==
    /\ at[u] = "new" /\ Authorized(u) /\ u \in Chatless
    /\ at' = [at EXCEPT ![u] = "done"]
    /\ UNCHANGED <<vars, bridgeOn, sending, bound, attempts, ran, answer, last, telemetry>>

Accept(u) ==
    /\ at[u] = "new" /\ Authorized(u) /\ u \notin Chatless
    /\ at' = [at EXCEPT ![u] = "waiting"]
    /\ IF LockOn
       THEN RunExclusive(u)
       ELSE pc' = [pc EXCEPT ![u] = "running"] /\ UNCHANGED <<present, active, queue>>
    /\ UNCHANGED <<bridgeOn, sending, bound, attempts, ran, answer, last, telemetry>>

-----------------------------------------------------------------------------
(* A handler that has its turn.                                            *)

keeps == <<vars, bridgeOn, telemetry>>
Goes(u, where) == at' = [at EXCEPT ![u] = where]
Sends(u, text, from) ==
    /\ Goes(u, "send")
    /\ sending' = [sending EXCEPT ![u] = 
                    [text |-> text, from |-> from, next |-> 1, plain |-> FALSE, shown |-> <<>>]]

Start(u) ==
    /\ at[u] = "waiting" /\ pc[u] = "running"
    /\ Goes(u, CASE Kind[u] = "press" -> "press"
                 [] Kind[u] = "text" /\ bridgeOn -> "status"
                 [] OTHER -> "route")
    /\ UNCHANGED <<keeps, sending, bound, attempts, ran, answer, last>>

\* getStatus before the bridge: only a chat without a session takes it.
BridgeStatus(u) ==
    /\ at[u] = "status"
    /\ Goes(u, IF bound[ChatOf[u]] THEN "route" ELSE "bridge")
    /\ UNCHANGED <<keeps, sending, bound, attempts, ran, answer, last>>

\* A transaction throws, and no catch stands between it and the listener.
BridgeStatusFails(u) ==
    /\ at[u] = "status" /\ StoreFails
    /\ Goes(u, "failed")
    /\ UNCHANGED <<keeps, sending, bound, attempts, ran, answer, last>>

\* callOpenCode
Bridge(u) ==
    /\ at[u] = "bridge"
    /\ attempts' = [attempts EXCEPT ![u] = @ + 1]
    /\ ran' = [ran EXCEPT ![u] = @ \cup {"bridge"}]
    /\ \E text \in Answers : Sends(u, text, "bridge")
    /\ UNCHANGED <<keeps, bound, answer, last>>

\* postWithShortRetry; the text may have been run all the same.
BridgeFails(u) ==
    /\ at[u] = "bridge"
    /\ attempts' = [attempts EXCEPT ![u] = @ + 1]
    /\ \E f \in BridgeFailures :
        /\ ran' \in {ran} \cup IF ShouldRetry(f) THEN {[ran EXCEPT ![u] = @ \cup {"bridge"}]} ELSE {}
        /\ Goes(u, IF ShouldRetry(f) /\ attempts'[u] < MaxAttempts THEN "bridge" ELSE "route")
    /\ UNCHANGED <<keeps, sending, bound, answer, last>>

\* handleText asks for the status again.
RouteText(u) ==
    /\ at[u] = "route" /\ Kind[u] = "text"
    /\ IF bound[ChatOf[u]]
       THEN Goes(u, "order") /\ UNCHANGED sending
       ELSE Sends(u, Notice, "router")
    /\ UNCHANGED <<keeps, bound, attempts, ran, answer, last>>

\* handleCommand: a command may give the chat a session or take it.  (/run,
\* which must be switched on, shows an answer as a text does.)
RouteCommand(u) ==
    /\ at[u] = "route" /\ Kind[u] = "command"
    /\ bound' \in {bound, [bound EXCEPT ![ChatOf[u]] = ~@]}
    /\ Sends(u, Notice, "router")
    /\ UNCHANGED <<keeps, attempts, ran, answer, last>>

\* sendText of the use cases: OpenCode answers, or has and the call fails, or refuses.
Order(u) ==
    /\ at[u] = "order"
    /\ \/ /\ ran' = [ran EXCEPT ![u] = @ \cup {"session"}]
          /\ \E text \in Texts : Sends(u, text, "router")
       \/ Sends(u, Notice, "router") /\ UNCHANGED ran
    /\ UNCHANGED <<keeps, bound, attempts, answer, last>>

\* The catch of handleText and of handleCommand.
RouteFails(u) ==
    /\ at[u] \in {"route", "order"} /\ StoreFails
    /\ Sends(u, Notice, "apology")
    /\ UNCHANGED <<keeps, bound, attempts, ran, answer, last>>

\* handleCallbackQuery: the press is answered, after the prompt was looked up
\* and the answer submitted; in some cases a message follows.
Press(u) ==
    /\ at[u] = "press"
    /\ answer' = [answer EXCEPT ![u] = "done"]
    /\ \/ Goes(u, "over") /\ UNCHANGED sending
       \/ Sends(u, Notice, "router")
    /\ UNCHANGED <<keeps, bound, attempts, ran, last>>

PressFails(u) ==
    /\ at[u] = "press"
    /\ \/ StoreFails /\ UNCHANGED answer
       \/ answer' = [answer EXCEPT ![u] = "failed"]
    /\ Goes(u, "failed")
    /\ UNCHANGED <<keeps, sending, bound, attempts, ran, last>>

-----------------------------------------------------------------------------
(* sendTelegramText.                                                       *)

\* The chunks of every text that is sent here.
Plan == [text \in Texts |-> ChunksOf(text)]
Count(u) == Len(Plan[sending[u].text])

\* Telegram takes the message: as plain text, or as HTML that is in order.
Taken(u) ==
    LET s == sending[u] IN s.plain \/ ~Unbalanced(s.text, Plan[s.text], s.next)

Shown(u) ==
    LET s == sending[u] IN
    last' = [last EXCEPT ![ChatOf[u]] = [by |-> u, from |-> s.from, text |-> s.text, next |-> s.next]]

\* The chunk is on the screen, and the loop goes on.
Sent(u) ==
    sending' = [sending EXCEPT
        ![u].shown = Append(@, [next |-> sending[u].next, plain |-> sending[u].plain]),
        ![u].next = @ + 1,
        ![u].plain = FALSE]

SendChunk(u) ==
    /\ at[u] = "send" /\ Taken(u)
    /\ Shown(u) /\ Sent(u)
    /\ IF sending[u].next < Count(u) THEN UNCHANGED at ELSE Goes(u, "over")
    /\ UNCHANGED <<keeps, bound, attempts, ran, answer>>

\* sendWithParseModeFallback: Telegram does not take the markup, and the chunk
\* is sent once more as plain text.
FallBackToPlain(u) ==
    /\ at[u] = "send" /\ ~Taken(u)
    /\ sending' = [sending EXCEPT ![u].plain = TRUE]
    /\ UNCHANGED <<keeps, at, bound, attempts, ran, answer, last>>

\* What a sender does that meets a failure: the bridge hands the text to the
\* router, the router apologizes, and from there the error leaves the handler;
\* so it does from the answer to a press.
AfterFailure(u) ==
    CASE sending[u].from = "bridge" -> Goes(u, "route") /\ sending' = [sending EXCEPT ![u] = NoText]
      [] sending[u].from = "router" /\ Kind[u] # "press" -> Sends(u, Notice, "apology")
      [] OTHER -> Goes(u, "failed") /\ UNCHANGED sending

\* A call of Telegram fails; the message may have been shown.
SendFails(u) ==
    /\ at[u] = "send"
    /\ \/ UNCHANGED last
       \/ Taken(u) /\ Shown(u)
    /\ AfterFailure(u)
    /\ UNCHANGED <<keeps, bound, attempts, ran, answer>>

-----------------------------------------------------------------------------
(* The end of a handler.                                                   *)

\* The finally block of runExclusive comes before the catch of the listener.
LetGo(u) ==
    IF LockOn THEN Settle(u)
    ELSE pc' = [pc EXCEPT ![u] = "idle"] /\ UNCHANGED <<present, active, queue>>

Leave(u) ==
    /\ at[u] = "over"
    /\ LetGo(u)
    /\ Goes(u, "done")
    /\ sending' = [sending EXCEPT ![u] = NoText]
    /\ UNCHANGED <<bridgeOn, telemetry, bound, attempts, ran, answer, last>>

\* A mutant: the error is logged, and that is all.
LeaveFailedUnanswered(u) ==
    /\ at[u] = "failed"
    /\ LetGo(u)
    /\ Goes(u, "done")
    /\ sending' = [sending EXCEPT ![u] = NoText]
    /\ UNCHANGED <<bridgeOn, telemetry, bound, attempts, ran, answer, last>>

\* Without the lock nothing catches the error.
LeaveFailed(u) ==
    /\ at[u] = "failed"
    /\ LetGo(u)
    /\ Goes(u, IF LockOn /\ Kind[u] = "press" THEN "sorry" ELSE "done")
    /\ sending' = [sending EXCEPT ![u] = NoText]
    /\ UNCHANGED <<bridgeOn, telemetry, bound, attempts, ran, answer, last>>

\* The fallback answer to a press, outside the lock; its failure is dropped.
Sorry(u) ==
    /\ at[u] = "sorry"
    /\ \E result \in {"done", "failed"} :
        answer' = [answer EXCEPT ![u] = IF @ = "done" THEN "done" ELSE result]
    /\ Goes(u, "done")
    /\ UNCHANGED <<keeps, sending, bound, attempts, ran, last>>

-----------------------------------------------------------------------------
HandlerStep(u) ==
    \/ Start(u) \/ BridgeStatus(u) \/ BridgeStatusFails(u) \/ Bridge(u) \/ BridgeFails(u)
    \/ RouteText(u) \/ RouteCommand(u) \/ Order(u) \/ RouteFails(u) \/ Press(u) \/ PressFails(u)
    \/ SendChunk(u) \/ FallBackToPlain(u) \/ SendFails(u)
    \/ Leave(u) \/ LeaveFailed(u) \/ Sorry(u)

TelegramNext ==
    \/ Tick
    \/ \E u \in Jobs : Reject(u) \/ Ignore(u) \/ Accept(u) \/ HandlerStep(u)

TelegramSpec == TelegramInit /\ [][TelegramNext]_telegramVars

Presses == {u \in Jobs \ (Strangers \cup Chatless) : Kind[u] = "press"}

\* Calls of Telegram and of OpenCode have timeouts; only the handlers of presses
\* need to go on.
FairTelegramSpec == TelegramSpec /\ \A u \in Presses : WF_telegramVars(HandlerStep(u))

-----------------------------------------------------------------------------
\* The chunks of a long answer stand together and in their order in a chat
\* that takes its updates one at a time: no other answer comes in between.
AnswersDoNotMix ==
    [][\A c \in Chats :
          last'[c] # last[c] /\ last'[c].next > 1 => last'[c] = [last[c] EXCEPT !.next = @ + 1]]_last

\* A text whose sending did not fail is on the screen with all its chunks, also
\* those that Telegram takes as plain text only; and chunks lose nothing of a
\* text but the ends of lines that fit no message.
DeliveredWhole ==
    /\ SmallTextsCarried
    /\ \A u \in Jobs : at[u] = "over" /\ sending[u].from # "none" =>
        [k \in DOMAIN sending[u].shown |-> sending[u].shown[k].next] = [k \in 1..Count(u) |-> k]

\* A text is run by the bridge or as an order to the chat's session, not both:
\* with the lock the chat cannot get a session while the bridge is asked.
TextRunsOnce == \A u \in Jobs : Cardinality(ran[u]) <= 1

\* Who presses a button is answered, also if the store or Telegram fails in
\* the middle of it, so that the button does not spin; the last resort is
\* tried at least.
EveryPressIsAnswered ==
    \A u \in Presses : at[u] = "press" ~> answer[u] # "none"

\* Updates of strangers are counted once each, in a sum or in the window that
\* is open; however many come, the log gets two lines per window at most; and
\* nothing is run, shown or answered for them.
StrangersAreOnlyCounted ==
    /\ rejected + summed = Cardinality({u \in Strangers : at[u] # "new"})
    /\ lines <= 1 + 2 * (now \div Window)
    /\ \A u \in Strangers : ran[u] = {} /\ answer[u] = "none" /\ last[ChatOf[u]].by # u
=============================================================================
