--------------------------- MODULE TelegramProofs ---------------------------
(***************************************************************************)
(* What the lock of a chat is for (bot.ts): with it, for any chats, texts  *)
(* and updates, a text is run once and the messages of two answers do not  *)
(* mix, whichever calls of OpenCode, Telegram and the store fail.  And     *)
(* with the lock or without it: what becomes of updates of strangers, and  *)
(* that texts are shown with all their chunks.                             *)
(***************************************************************************)
EXTENDS Telegram, ChatLockProofs, FiniteSetTheorems

\* Where a handler is between its turn and the end of it.
Handling == {"status", "bridge", "route", "order", "press", "send", "failed", "over"}

\* Whoever handles an update has the lock of its chat.
HandlerRuns == \A u \in Jobs : at[u] \in Handling => pc[u] = "running"

\* The bridge is asked for a chat without a session, which gets none until the
\* router has seen what the bridge left undone; an order is given for a text
\* that the bridge has not run.
RanOnce(u) ==
    /\ at[u] \in {"new", "waiting", "status", "order"} => ran[u] = {}
    /\ at[u] = "bridge" => ~bound[ChatOf[u]]
    /\ at[u] \in {"bridge", "route"} \/ (at[u] = "send" /\ sending[u].from = "bridge") =>
          /\ ran[u] \subseteq {"bridge"}
          /\ ran[u] # {} => ~bound[ChatOf[u]]
    /\ ran[u] \in {{}, {"bridge"}, {"session"}}

\* What stands last in the chat is the chunk before the one that comes next.
LastIsBefore(u) ==
    at[u] = "send" /\ sending[u].next > 1 =>
        last[ChatOf[u]] = [by |-> u, from |-> sending[u].from, text |-> sending[u].text,
                           next |-> sending[u].next - 1]

TInv ==
    /\ TelegramTypeOK
    /\ IInv
    /\ HandlerRuns
    /\ \A u \in Jobs : RanOnce(u) /\ LastIsBefore(u)

-----------------------------------------------------------------------------
LEMMA TelegramInitInv == TelegramInit => TInv
<1> SUFFICES ASSUME TelegramInit PROVE TInv
  OBVIOUS
<1>1. IInv
  BY InitInv DEF TelegramInit
<1>2. TelegramTypeOK
  <2>1. NoText \in Sendings
    BY DEF NoText, Texts, Sendings
  <2>2. NoMessage \in Messages
    BY DEF NoMessage, Texts, Messages
  <2>3. TypeOK
    BY <1>1 DEF IInv
  <2> QED
    BY <2>1, <2>2, <2>3 DEF TelegramInit, TelegramTypeOK, Places
<1>3. ASSUME NEW u \in Jobs PROVE at[u] = "new" /\ ran[u] = {}
  BY DEF TelegramInit
<1>4. HandlerRuns /\ \A u \in Jobs : RanOnce(u) /\ LastIsBefore(u)
  BY <1>3 DEF HandlerRuns, Handling, RanOnce, LastIsBefore
<1> QED
  BY <1>1, <1>2, <1>4 DEF TInv

\* With the lock an update changes nothing of the lock but by the calls that
\* the lock offers.
LEMMA LockSteps ==
  ASSUME LockOn, TInv, [TelegramNext]_telegramVars
  PROVE  [Next]_vars /\ IInv'
<1>1. ASSUME NEW u \in Jobs, Accept(u) PROVE RunExclusive(u)
  BY <1>1 DEF Accept
<1>2. ASSUME NEW u \in Jobs, LetGo(u) PROVE Settle(u)
  BY <1>2 DEF LetGo
<1>3. ASSUME NEW u \in Jobs, HandlerStep(u) PROVE Settle(u) \/ UNCHANGED vars
  BY <1>2, <1>3 DEF HandlerStep, Start, BridgeStatus, BridgeStatusFails, Bridge, BridgeFails,
       RouteText, RouteCommand, Order, RouteFails, Press, PressFails, SendChunk,
       FallBackToPlain, SendFails, Leave, LeaveFailed, Sorry, keeps
<1>4. ASSUME NEW u \in Jobs, Reject(u) \/ Ignore(u) PROVE UNCHANGED vars
  BY <1>4 DEF Reject, Ignore
<1>5. [Next]_vars
  BY <1>1, <1>3, <1>4 DEF TelegramNext, Next, Tick, telegramVars
<1> QED
  BY <1>5, StepInv DEF TInv

\* A text that is sent, and what is sent of it, is of the right form.
LEMMA SenderTypes ==
  ASSUME TelegramTypeOK, NEW u \in Jobs
  PROVE  /\ \A text \in Texts, from \in Senders : Sends(u, text, from) =>
               sending' \in [Jobs -> Sendings] /\ at' = [at EXCEPT ![u] = "send"]
         /\ Shown(u) => last' \in [Chats -> Messages]
         /\ Sent(u) => sending' \in [Jobs -> Sendings]
         /\ NoText \in Sendings /\ Notice \in Texts /\ Answers \subseteq Texts
<1> DEFINE s == sending[u]
           t == [s EXCEPT !.shown = Append(s.shown, [next |-> s.next, plain |-> s.plain]),
                          !.next = s.next + 1, !.plain = FALSE]
<1>0. /\ sending \in [Jobs -> Sendings] /\ last \in [Chats -> Messages]
      /\ s \in Sendings /\ ChatOf[u] \in Chats
  BY ChatOfAssumption DEF TelegramTypeOK
<1>1. ASSUME NEW text \in Texts, NEW from \in Senders, Sends(u, text, from)
      PROVE  sending' \in [Jobs -> Sendings] /\ at' = [at EXCEPT ![u] = "send"]
  <2>1. [text |-> text, from |-> from, next |-> 1, plain |-> FALSE, shown |-> <<>>] \in Sendings
    BY DEF Sendings
  <2> QED
    BY <1>0, <1>1, <2>1 DEF Sends, Goes
<1>2. ASSUME Shown(u) PROVE last' \in [Chats -> Messages]
  <2>1. [by |-> u, from |-> s.from, text |-> s.text, next |-> s.next] \in Messages
    BY <1>0 DEF Sendings, Messages
  <2> QED
    BY <1>0, <1>2, <2>1 DEF Shown
<1>3. ASSUME Sent(u) PROVE sending' \in [Jobs -> Sendings]
  <2>1. Append(s.shown, [next |-> s.next, plain |-> s.plain]) \in Seq([next : Nat, plain : BOOLEAN])
    BY <1>0 DEF Sendings
  <2>2. t \in Sendings
    <3>1. \A q \in Seq([next : Nat, plain : BOOLEAN]), n \in Nat :
             [s EXCEPT !.shown = q, !.next = n, !.plain = FALSE] \in Sendings
      BY <1>0 DEF Sendings
    <3>2. s.next + 1 \in Nat
      BY <1>0 DEF Sendings
    <3> QED
      BY <2>1, <3>1, <3>2
  <2>3. sending' = [sending EXCEPT ![u] = t]
    BY <1>0, <1>3 DEF Sent
  <2> QED
    BY <1>0, <2>2, <2>3
<1>4. NoText \in Sendings /\ Notice \in Texts /\ Answers \subseteq Texts
  BY DEF NoText, Texts, Sendings
<1> QED
  BY <1>1, <1>2, <1>3, <1>4

\* Every step keeps the types of what handlers work on.
LEMMA StepTypes ==
  ASSUME LockOn, TInv, [TelegramNext]_telegramVars
  PROVE  TelegramTypeOK'
<1> USE DEF TelegramTypeOK
<1>0. TypeOK' /\ TelegramTypeOK
  BY LockSteps DEF IInv, TInv
<1>a. /\ NoText \in Sendings /\ Notice \in Texts /\ Answers \subseteq Texts
      /\ Senders = {"bridge", "router", "apology"}
  BY <1>0, SenderTypes DEF NoText, Texts, Sendings, Senders
<1>1. ASSUME NEW u \in Jobs, HandlerStep(u) PROVE TelegramTypeOK'
  <2>1. CASE Start(u) \/ BridgeStatus(u) \/ BridgeStatusFails(u)
    BY <1>0, <2>1 DEF Start, BridgeStatus, BridgeStatusFails, Goes, Places
  <2>2. CASE Press(u)
    BY <1>0, <1>a, <2>2, SenderTypes DEF Press, Goes, Places
  <2>3. CASE PressFails(u)
    BY <1>0, <2>3 DEF PressFails, Goes, Places
  <2>4. CASE Bridge(u)
    BY <1>0, <1>a, <2>4, SenderTypes DEF Bridge, Places
  <2>5. CASE BridgeFails(u)
    BY <1>0, <2>5 DEF BridgeFails, Goes, Places
  <2>6. CASE RouteText(u) \/ RouteFails(u)
    BY <1>0, <1>a, <2>6, SenderTypes DEF RouteText, RouteFails, Goes, Places
  <2>7. CASE RouteCommand(u)
    BY <1>0, <1>a, <2>7, SenderTypes, ChatOfAssumption DEF RouteCommand, Places
  <2>8. CASE Order(u)
    BY <1>0, <1>a, <2>8, SenderTypes DEF Order, Places
  <2>9. CASE SendChunk(u)
    <3>1. last' \in [Chats -> Messages] /\ sending' \in [Jobs -> Sendings]
      BY <1>0, <2>9, SenderTypes DEF SendChunk
    <3> QED
      BY <1>0, <2>9, <3>1 DEF SendChunk, Goes, Places
  <2>10. CASE FallBackToPlain(u)
    <3>1. [sending[u] EXCEPT !.plain = TRUE] \in Sendings
      BY <1>0 DEF Sendings
    <3>2. sending' = [sending EXCEPT ![u] = [sending[u] EXCEPT !.plain = TRUE]]
      BY <2>10 DEF FallBackToPlain
    <3> QED
      BY <1>0, <2>10, <3>1, <3>2 DEF FallBackToPlain
  <2>11. CASE SendFails(u)
    <3>1. last' \in [Chats -> Messages]
      BY <1>0, <2>11, SenderTypes DEF SendFails
    <3>2. /\ sending' \in [Jobs -> Sendings]
          /\ \E a \in {"route", "send", "failed"} : at' = [at EXCEPT ![u] = a]
      BY <1>0, <1>a, <2>11, SenderTypes DEF SendFails, AfterFailure, Goes
    <3> QED
      BY <1>0, <2>11, <3>1, <3>2 DEF SendFails, Places
  <2>12. CASE Leave(u) \/ LeaveFailed(u)
    BY <1>0, <1>a, <2>12 DEF Leave, LeaveFailed, Goes, Places
  <2>13. CASE Sorry(u)
    BY <1>0, <2>13 DEF Sorry, Goes, Places
  <2> QED
    BY <1>1, <2>1, <2>2, <2>3, <2>4, <2>5, <2>6, <2>7, <2>8, <2>9, <2>10, <2>11, <2>12,
       <2>13 DEF HandlerStep
<1>2. ASSUME NEW u \in Jobs, Reject(u) \/ Ignore(u) \/ Accept(u) PROVE TelegramTypeOK'
  BY <1>0, <1>2 DEF Reject, Ignore, Accept, Places
<1>3. CASE Tick \/ UNCHANGED telegramVars
  BY <1>0, <1>3 DEF Tick, telegramVars, handling
<1> QED
  BY <1>1, <1>2, <1>3 DEF TelegramNext

\* A step of a handler changes only what is of its update and its chat; and it
\* has the lock while it changes what is of the chat.
LEMMA HandlerFrame ==
  ASSUME TInv, NEW u \in Jobs, HandlerStep(u)
  PROVE  /\ \A v \in Jobs \ {u} : at'[v] = at[v] /\ sending'[v] = sending[v] /\ ran'[v] = ran[v]
         /\ \A c \in Chats \ {ChatOf[u]} : last'[c] = last[c] /\ bound'[c] = bound[c]
         /\ pc[u] = "running" \/ UNCHANGED <<last, bound, vars>>
<1> USE DEF TInv, TelegramTypeOK
<1>1. ChatOf[u] \in Chats
  BY ChatOfAssumption
<1>2. CASE \/ Start(u) \/ BridgeStatus(u) \/ BridgeStatusFails(u) \/ Bridge(u) \/ BridgeFails(u)
           \/ RouteText(u) \/ RouteCommand(u) \/ Order(u) \/ RouteFails(u)
  BY <1>1, <1>2 DEF Start, BridgeStatus, BridgeStatusFails, Bridge, BridgeFails, RouteText,
       RouteCommand, Order, RouteFails, Goes, Sends, HandlerRuns, Handling
<1>3. CASE Press(u) \/ PressFails(u) \/ FallBackToPlain(u)
  BY <1>3 DEF Press, PressFails, FallBackToPlain, Goes, Sends, HandlerRuns, Handling
<1>4. CASE SendChunk(u)
  BY <1>1, <1>4 DEF SendChunk, Shown, Sent, Goes, HandlerRuns, Handling
<1>5. CASE SendFails(u)
  BY <1>1, <1>5 DEF SendFails, AfterFailure, Shown, Goes, Sends, HandlerRuns, Handling
<1>6. CASE Leave(u) \/ LeaveFailed(u)
  BY <1>6 DEF Leave, LeaveFailed, Goes, HandlerRuns, Handling
<1>7. CASE Sorry(u)
  BY <1>7 DEF Sorry, Goes, keeps
<1> QED
  BY <1>2, <1>3, <1>4, <1>5, <1>6, <1>7 DEF HandlerStep

\* A handler asks the bridge or gives the order, and its chunks follow each
\* other.
LEMMA HandlerOwn ==
  ASSUME TInv, NEW u \in Jobs, HandlerStep(u)
  PROVE  RanOnce(u)' /\ LastIsBefore(u)'
<1> USE ChatOfAssumption DEF TInv, TelegramTypeOK
<1>0. ChatOf[u] \in Chats /\ RanOnce(u) /\ LastIsBefore(u)
  OBVIOUS
<1>1. CASE Start(u) \/ BridgeStatus(u) \/ BridgeStatusFails(u)
  BY <1>0, <1>1 DEF Start, BridgeStatus, BridgeStatusFails, Goes, RanOnce, LastIsBefore, keeps
<1>2. CASE Bridge(u) \/ BridgeFails(u)
  <2>1. /\ ran[u] \subseteq {"bridge"} /\ ~bound[ChatOf[u]] /\ at[u] = "bridge"
        /\ ran'[u] \subseteq {"bridge"} /\ bound' = bound
    BY <1>0, <1>2 DEF Bridge, BridgeFails, RanOnce
  <2>2. \/ at'[u] = "send" /\ sending'[u].next = 1
        \/ at'[u] \in {"bridge", "route"}
    BY <1>2 DEF Bridge, BridgeFails, Sends, Goes
  <2> QED
    BY <2>1, <2>2 DEF RanOnce, LastIsBefore
<1>3. CASE RouteText(u) \/ RouteCommand(u) \/ RouteFails(u) \/ Order(u)
  <2>1. /\ ran' = ran \/ (at[u] = "order" /\ ran' = [ran EXCEPT ![u] = @ \cup {"session"}])
        /\ \/ at'[u] = "order" /\ at[u] = "route" /\ bound[ChatOf[u]] /\ ran' = ran
           \/ at'[u] = "send" /\ sending'[u].next = 1 /\ sending'[u].from # "bridge"
    BY <1>3 DEF RouteText, RouteCommand, RouteFails, Order, Sends, Goes
  <2>2. /\ at[u] \in {"route", "order"}
        /\ ran'[u] \in {{}, {"bridge"}, {"session"}}
        /\ at'[u] = "order" => ran'[u] = {}
    BY <1>0, <1>3, <2>1 DEF RouteText, RouteCommand, RouteFails, Order, RanOnce
  <2> QED
    BY <2>1, <2>2 DEF RanOnce, LastIsBefore
<1>4. CASE Press(u) \/ PressFails(u)
  <2>1. /\ UNCHANGED ran
        /\ \/ at'[u] \in {"over", "failed"}
           \/ at'[u] = "send" /\ sending'[u].next = 1 /\ sending'[u].from # "bridge"
    BY <1>4 DEF Press, PressFails, Goes, Sends
  <2> QED
    BY <1>0, <2>1 DEF RanOnce, LastIsBefore
<1>5. CASE SendChunk(u) \/ FallBackToPlain(u)
  <2>0. sending[u] \in Sendings /\ sending[u].next \in Nat /\ at[u] = "send"
    BY <1>5 DEF Sendings, SendChunk, FallBackToPlain
  <2>1. /\ UNCHANGED <<ran, bound>>
        /\ at'[u] \in {"send", "over"} /\ sending'[u].from = sending[u].from
    BY <1>5, <2>0 DEF SendChunk, FallBackToPlain, Sent, Goes, Sendings
  <2>2. RanOnce(u)'
    BY <1>0, <2>0, <2>1 DEF RanOnce
  <2>3. CASE SendChunk(u)
    <3>1. /\ sending'[u].next = sending[u].next + 1
          /\ sending'[u].text = sending[u].text /\ sending'[u].from = sending[u].from
      BY <2>0, <2>3 DEF SendChunk, Sent, Sendings
    <3>2. last'[ChatOf[u]] = [by |-> u, from |-> sending[u].from, text |-> sending[u].text,
                              next |-> sending[u].next]
      BY <1>0, <2>3 DEF SendChunk, Shown
    <3> QED
      BY <2>0, <2>2, <3>1, <3>2 DEF LastIsBefore
  <2>4. CASE FallBackToPlain(u)
    <3>1. /\ sending'[u].next = sending[u].next /\ sending'[u].text = sending[u].text
          /\ UNCHANGED last
      BY <2>0, <2>4 DEF FallBackToPlain, Sendings
    <3> QED
      BY <1>0, <2>0, <2>1, <2>2, <3>1 DEF LastIsBefore
  <2> QED
    BY <1>5, <2>3, <2>4
<1>6. CASE SendFails(u)
  <2>1. /\ UNCHANGED <<ran, bound>> /\ at[u] = "send"
        /\ \/ at'[u] = "route" /\ sending[u].from = "bridge"
           \/ at'[u] = "failed"
           \/ at'[u] = "send" /\ sending'[u].next = 1 /\ sending'[u].from # "bridge"
    BY <1>6 DEF SendFails, AfterFailure, Goes, Sends
  <2> QED
    BY <1>0, <2>1 DEF RanOnce, LastIsBefore
<1>7. CASE Leave(u) \/ LeaveFailed(u) \/ Sorry(u)
  <2>1. UNCHANGED ran /\ at'[u] \in {"sorry", "done"}
    BY <1>7 DEF Leave, LeaveFailed, Sorry, Goes
  <2> QED
    BY <1>0, <2>1 DEF RanOnce, LastIsBefore
<1> QED
  BY <1>1, <1>2, <1>3, <1>4, <1>5, <1>6, <1>7 DEF HandlerStep

\* Nobody else handles an update of a chat while its lock is taken.
LEMMA OnlyOneHandles ==
  ASSUME TInv, NEW u \in Jobs, NEW v \in Jobs \ {u}, pc[u] = "running", at[v] \in Handling
  PROVE  ChatOf[v] # ChatOf[u]
BY DEF TInv, IInv, MutualExclusion, HandlerRuns

\* With the lock a handler disturbs no other.
LEMMA HandlerOthers ==
  ASSUME LockOn, TInv, NEW u \in Jobs, HandlerStep(u), NEW v \in Jobs \ {u}
  PROVE  /\ RanOnce(v)' /\ LastIsBefore(v)'
         /\ at[v] \in Handling => pc'[v] = "running"
<1> USE ChatOfAssumption DEF TInv, TelegramTypeOK
<1>0. /\ ChatOf[v] \in Chats /\ RanOnce(v) /\ LastIsBefore(v)
      /\ at'[v] = at[v] /\ sending'[v] = sending[v] /\ ran'[v] = ran[v]
  BY HandlerFrame
<1>1. at[v] \in Handling => /\ last'[ChatOf[v]] = last[ChatOf[v]]
                            /\ bound'[ChatOf[v]] = bound[ChatOf[v]]
  BY <1>0, HandlerFrame, OnlyOneHandles
<1>2. RanOnce(v)' /\ LastIsBefore(v)'
  BY <1>0, <1>1 DEF RanOnce, LastIsBefore, Handling
<1>3. Settle(u) \/ UNCHANGED vars
  BY DEF HandlerStep, Start, BridgeStatus, BridgeStatusFails, Bridge, BridgeFails,
       RouteText, RouteCommand, Order, RouteFails, Press, PressFails, SendChunk,
       FallBackToPlain, SendFails, Leave, LeaveFailed, LetGo, Sorry, keeps
<1>4. pc[v] = "running" => pc'[v] = "running"
  BY <1>3 DEF Settle, Release, ReleaseToNext, ReleaseLast, vars, TypeOK
<1> QED
  BY <1>2, <1>4 DEF HandlerRuns

\* A handler that goes on keeps the lock.
LEMMA HandlerKeepsLock ==
  ASSUME TInv, NEW u \in Jobs, HandlerStep(u), at'[u] \in Handling
  PROVE  pc'[u] = "running"
<1> USE DEF TInv, TelegramTypeOK
<1>1. ~Leave(u) /\ ~LeaveFailed(u) /\ ~Sorry(u)
  BY DEF Leave, LeaveFailed, Sorry, Goes, Handling
<1>2. UNCHANGED vars /\ pc[u] = "running"
  BY <1>1 DEF HandlerStep, Start, BridgeStatus, BridgeStatusFails, Bridge, BridgeFails,
       RouteText, RouteCommand, Order, RouteFails, Press, PressFails, SendChunk,
       FallBackToPlain, SendFails, keeps, HandlerRuns, Handling
<1> QED
  BY <1>2 DEF vars

LEMMA TelegramStepInv ==
  ASSUME LockOn, TInv, [TelegramNext]_telegramVars
  PROVE  TInv'
<1>0. TelegramTypeOK' /\ IInv'
  BY StepTypes, LockSteps
<1>1. ASSUME NEW u \in Jobs, HandlerStep(u)
      PROVE  HandlerRuns' /\ \A v \in Jobs : RanOnce(v)' /\ LastIsBefore(v)'
  <2>1. \A v \in Jobs \ {u} : at'[v] = at[v]
    BY <1>1, HandlerFrame
  <2>2. HandlerRuns'
    BY <1>1, <2>1, HandlerOthers, HandlerKeepsLock DEF HandlerRuns
  <2> QED
    BY <1>1, <2>2, HandlerOwn, HandlerOthers
<1>2. ASSUME NEW u \in Jobs, Reject(u) \/ Ignore(u) \/ Accept(u)
      PROVE  HandlerRuns' /\ \A v \in Jobs : RanOnce(v)' /\ LastIsBefore(v)'
  <2>1. /\ UNCHANGED <<sending, bound, ran, last>> /\ at[u] = "new"
        /\ at'[u] \in {"done", "waiting"} /\ \A v \in Jobs \ {u} : at'[v] = at[v]
    BY <1>2 DEF Reject, Ignore, Accept, TInv, TelegramTypeOK
  <2>2. \A v \in Jobs : pc[v] = "running" => pc'[v] = "running"
    BY <1>2 DEF Reject, Ignore, Accept, RunExclusive, RunNow, Enqueue, vars, TInv, TelegramTypeOK,
                TypeOK
  <2>3. HandlerRuns'
    BY <2>1, <2>2 DEF TInv, HandlerRuns, Handling
  <2>4. \A v \in Jobs : RanOnce(v)' /\ LastIsBefore(v)'
    BY <2>1 DEF TInv, RanOnce, LastIsBefore
  <2> QED
    BY <2>3, <2>4
<1>3. CASE Tick \/ UNCHANGED telegramVars
  <2>1. UNCHANGED <<at, sending, bound, ran, last, pc>>
    BY <1>3 DEF Tick, telegramVars, handling, vars
  <2> QED
    BY <1>0, <2>1 DEF TInv, HandlerRuns, RanOnce, LastIsBefore
<1> QED
  BY <1>0, <1>1, <1>2, <1>3 DEF TelegramNext, TInv

-----------------------------------------------------------------------------
\* Whatever fails and whatever else is going on in the chat and in others: an
\* update has its types and its lock, and the lock has its invariant.
THEOREM TelegramInvariance == ASSUME LockOn PROVE TelegramSpec => []TInv
BY TelegramInitInv, TelegramStepInv, PTL DEF TelegramSpec

\* A text is run by the bridge or by the chat's session and not by both, since
\* the commands that give the chat a session wait for the lock (handleText and
\* the listener of texts in bot.ts).
THEOREM TextIsRunOnce == ASSUME LockOn PROVE TelegramSpec => []TextRunsOnce
<1>1. TInv => TextRunsOnce
  <2> SUFFICES ASSUME TInv, NEW u \in Jobs PROVE Cardinality(ran[u]) <= 1
    BY DEF TextRunsOnce
  <2>1. ran[u] \in {{}, {"bridge"}, {"session"}}
    BY DEF TInv, RanOnce
  <2>2. Cardinality({}) = 0 /\ Cardinality({"bridge"}) = 1 /\ Cardinality({"session"}) = 1
    BY FS_EmptySet, FS_Singleton
  <2> QED
    BY <2>1, <2>2
<1> QED
  BY <1>1, TelegramInvariance, PTL

\* No message of another answer comes between the chunks of a long one, for
\* any number of chunks and of updates that wait (sendTelegramText under
\* runExclusive).
THEOREM AnswersStayWhole == ASSUME LockOn PROVE TelegramSpec => AnswersDoNotMix
<1>1. ASSUME TInv, [TelegramNext]_telegramVars, NEW c \in Chats,
             last'[c] # last[c], last'[c].next > 1
      PROVE  last'[c] = [last[c] EXCEPT !.next = @ + 1]
  <2>1. PICK u \in Jobs : at[u] = "send" /\ Shown(u)
    BY <1>1 DEF TelegramNext, telegramVars, handling, Tick, Reject, Ignore, Accept, HandlerStep,
         Start, BridgeStatus, BridgeStatusFails, Bridge, BridgeFails, RouteText, RouteCommand,
         Order, RouteFails, Press, PressFails, SendChunk, FallBackToPlain, SendFails, Leave,
         LeaveFailed, Sorry
  <2>2. last \in [Chats -> Messages] /\ sending[u] \in Sendings /\ LastIsBefore(u)
    BY <1>1 DEF TInv, TelegramTypeOK
  <2>3. /\ c = ChatOf[u] /\ sending[u].next \in Nat
        /\ last'[c] = [by |-> u, from |-> sending[u].from, text |-> sending[u].text,
                       next |-> sending[u].next]
    BY <1>1, <2>1, <2>2 DEF Shown, Sendings
  <2>4. last[c] = [by |-> u, from |-> sending[u].from, text |-> sending[u].text,
                   next |-> sending[u].next - 1]
    BY <1>1, <2>1, <2>2, <2>3 DEF LastIsBefore
  <2> QED
    BY <2>3, <2>4
<1>2. TInv /\ [TelegramNext]_telegramVars =>
        [\A c \in Chats : last'[c] # last[c] /\ last'[c].next > 1 =>
            last'[c] = [last[c] EXCEPT !.next = @ + 1]]_last
  BY <1>1
<1> QED
  BY <1>2, TelegramInvariance, PTL DEF TelegramSpec, AnswersDoNotMix

-----------------------------------------------------------------------------
(* Strangers.                                                              *)

CountersTyped ==
    /\ at \in [Jobs -> Places]
    /\ ran \in [Jobs -> SUBSET {"bridge", "session"}]
    /\ answer \in [Jobs -> {"none", "failed", "done"}]
    /\ DOMAIN last = Chats
    /\ now \in Nat /\ since \in Nat /\ rejected \in Nat /\ summed \in Nat /\ lines \in Nat

Seen == {u \in Strangers : at[u] # "new"}

\* The log has one line for the window that is open and two for each before it.
LinesPerWindow ==
    /\ since <= now
    /\ lines <= 1 + 2 * (since \div Window)
    /\ rejected = 0 => lines = 0 /\ since = 0

\* A stranger's update goes nowhere.
TurnedAway(u) ==
    at[u] \in {"new", "done"} /\ ran[u] = {} /\ answer[u] = "none" /\ last[ChatOf[u]].by # u

Turned ==
    /\ CountersTyped
    /\ IsFiniteSet(Seen) /\ rejected + summed = Cardinality(Seen)
    /\ LinesPerWindow
    /\ \A u \in Strangers : TurnedAway(u)

\* Windows that follow each other are numbered so.
LEMMA WindowsGrow ==
    ASSUME NEW a \in Nat, NEW b \in Nat, a <= b
    PROVE  /\ a \div Window \in Nat /\ b \div Window \in Nat
           /\ a \div Window <= b \div Window
           /\ b - a >= Window => a \div Window + 1 <= b \div Window
<1> Window \in Nat \ {0}
  BY UpdatesAssumption
<1> DEFINE W == Window
           x == a \div W
           y == b \div W
<1>1. /\ x \in Nat /\ y \in Nat
      /\ x * W <= a /\ a < x * W + W /\ y * W <= b /\ b < y * W + W
  BY Z3
<1> HIDE DEF x, y
<1>2. ASSUME y < x PROVE FALSE
  <2>1. (y + 1) * W <= x * W
    BY <1>1, <1>2
  <2> QED
    BY <1>1, <2>1
<1>3. ASSUME b - a >= W, y <= x PROVE FALSE
  <2>1. y * W <= x * W
    BY <1>1, <1>3
  <2> QED
    BY <1>1, <1>3, <2>1
<1> QED
  BY <1>1, <1>2, <1>3 DEF x, y

LEMMA TrackCounts ==
    ASSUME CountersTyped, LinesPerWindow, Track
    PROVE  /\ now' \in Nat /\ since' \in Nat /\ rejected' \in Nat /\ summed' \in Nat
           /\ lines' \in Nat /\ LinesPerWindow'
           /\ rejected' + summed' = rejected + summed + 1
<1> DEFINE x == since \div Window
           y == now \div Window
<1>0. /\ x \in Nat /\ y \in Nat /\ x <= y
      /\ now - since >= Window => x + 1 <= y
  BY WindowsGrow DEF CountersTyped, LinesPerWindow
<1> Window \in Nat \ {0} /\ lines <= 1 + 2 * x
  BY UpdatesAssumption DEF LinesPerWindow
<1>1. CASE now - since >= Window /\ rejected > 0
  <2>1. since' = now /\ rejected' = 1 /\ summed' = summed + rejected /\ lines' = lines + 2 /\ now' = now
    BY <1>1 DEF Track, CountersTyped
  <2>2. lines' <= 1 + 2 * y /\ since' \div Window = y
    <3> HIDE DEF x, y
    <3>1. lines' <= 1 + 2 * y
      BY <1>0, <1>1, <2>1 DEF CountersTyped
    <3> QED
      BY <2>1, <3>1 DEF y
  <2> QED
    BY <2>1, <2>2 DEF CountersTyped, LinesPerWindow
<1>2. CASE ~(now - since >= Window /\ rejected > 0)
  <2>1. /\ since' = since /\ rejected' = rejected + 1 /\ summed' = summed /\ now' = now
        /\ lines' = lines + (IF rejected = 0 THEN 1 ELSE 0)
    BY <1>2 DEF Track, CountersTyped
  <2>2. lines' <= 1 + 2 * x /\ since' \div Window = x
    <3> HIDE DEF x, y
    <3>1. lines' <= 1 + 2 * x
      BY <1>0, <2>1 DEF CountersTyped, LinesPerWindow
    <3> QED
      BY <2>1, <3>1 DEF x
  <2> QED
    BY <2>1, <2>2 DEF CountersTyped, LinesPerWindow
<1> QED
  BY <1>1, <1>2

LEMMA InitTurned == TelegramInit => Turned
<1> SUFFICES ASSUME TelegramInit PROVE Turned
  OBVIOUS
<1>1. Seen = {}
  BY UpdatesAssumption DEF TelegramInit, Seen
<1>2. 0 \div Window = 0 /\ IsFiniteSet({}) /\ Cardinality({}) = 0
  BY FS_EmptySet, UpdatesAssumption
<1>3. CountersTyped
  BY DEF TelegramInit, CountersTyped, Places
<1> QED
  BY <1>1, <1>2, <1>3, UpdatesAssumption, ChatOfAssumption
     DEF TelegramInit, Turned, LinesPerWindow, TurnedAway, NoMessage

\* What a handler does for its update it does to nobody else's.
LEMMA HandlerTurns ==
    ASSUME Turned, NEW v \in Jobs, HandlerStep(v)
    PROVE  /\ CountersTyped' /\ v \notin Strangers
           /\ \A u \in Jobs \ {v} : at'[u] = at[u] /\ ran'[u] = ran[u] /\ answer'[u] = answer[u]
           /\ \A c \in Chats : last'[c] = last[c] \/ last'[c].by = v
           /\ UNCHANGED telemetry
<1> USE DEF Turned, CountersTyped, telemetry, keeps, Places, Goes, Sends
<1>0. at[v] \notin {"new", "done"} => v \notin Strangers
  BY DEF TurnedAway
<1>1. CASE \/ Start(v) \/ BridgeStatus(v) \/ BridgeStatusFails(v) \/ Bridge(v) \/ BridgeFails(v)
           \/ RouteText(v) \/ RouteCommand(v) \/ Order(v) \/ RouteFails(v)
  <2>1. UNCHANGED <<telemetry, answer, last>> /\ at[v] \notin {"new", "done"}
    BY <1>1 DEF Start, BridgeStatus, BridgeStatusFails, Bridge, BridgeFails, RouteText,
         RouteCommand, Order, RouteFails
  <2>2. \E p \in Places : at' = [at EXCEPT ![v] = p]
    BY <1>1 DEF Start, BridgeStatus, BridgeStatusFails, Bridge, BridgeFails, RouteText,
         RouteCommand, Order, RouteFails
  <2>3. \E r \in SUBSET {"bridge", "session"} : ran' = [ran EXCEPT ![v] = r]
    <3>1. ran' = ran \/ ran' = [ran EXCEPT ![v] = @ \cup {"bridge"}]
                     \/ ran' = [ran EXCEPT ![v] = @ \cup {"session"}]
      BY <1>1 DEF Start, BridgeStatus, BridgeStatusFails, Bridge, BridgeFails, RouteText,
           RouteCommand, Order, RouteFails
    <3>2. ran = [ran EXCEPT ![v] = ran[v]] /\ ran[v] \in SUBSET {"bridge", "session"}
      OBVIOUS
    <3> QED
      BY <3>1, <3>2
  <2> QED
    BY <1>0, <2>1, <2>2, <2>3
<1>2. CASE Press(v) \/ PressFails(v) \/ Sorry(v)
  <2>1. UNCHANGED <<telemetry, ran, last>> /\ at[v] \notin {"new", "done"}
    BY <1>2 DEF Press, PressFails, Sorry
  <2>2. \E p \in Places : at' = [at EXCEPT ![v] = p]
    BY <1>2 DEF Press, PressFails, Sorry
  <2>3. answer' = answer \/ \E r \in {"failed", "done"} : answer' = [answer EXCEPT ![v] = r]
    BY <1>2 DEF Press, PressFails, Sorry
  <2> QED
    BY <1>0, <2>1, <2>2, <2>3
<1>3. CASE SendChunk(v) \/ FallBackToPlain(v) \/ SendFails(v)
  <2>1. UNCHANGED <<telemetry, ran, answer>> /\ at[v] = "send"
    BY <1>3 DEF SendChunk, FallBackToPlain, SendFails
  <2>2. at' = at \/ \E p \in Places : at' = [at EXCEPT ![v] = p]
    BY <1>3 DEF SendChunk, FallBackToPlain, SendFails, AfterFailure
  <2>3. last' = last \/ Shown(v)
    BY <1>3 DEF SendChunk, FallBackToPlain, SendFails
  <2>4. DOMAIN last' = Chats /\ \A c \in Chats : last'[c] = last[c] \/ last'[c].by = v
    BY <2>3 DEF Shown
  <2> QED
    BY <1>0, <2>1, <2>2, <2>4
<1>4. CASE Leave(v) \/ LeaveFailed(v)
  <2>1. UNCHANGED <<telemetry, ran, answer, last>> /\ at[v] \notin {"new", "done"}
    BY <1>4 DEF Leave, LeaveFailed
  <2>2. \E p \in Places : at' = [at EXCEPT ![v] = p]
    BY <1>4 DEF Leave, LeaveFailed
  <2> QED
    BY <1>0, <2>1, <2>2
<1> QED
  BY <1>1, <1>2, <1>3, <1>4 DEF HandlerStep

LEMMA TurnedStep == ASSUME Turned, [TelegramNext]_telegramVars PROVE Turned'
<1> USE UpdatesAssumption, ChatOfAssumption
<1>1. ASSUME NEW v \in Jobs, Reject(v) PROVE Turned'
  <2>1. /\ v \in Strangers /\ at[v] = "new" /\ at' = [at EXCEPT ![v] = "done"]
        /\ UNCHANGED <<ran, answer, last>> /\ Track
    BY <1>1 DEF Reject, Authorized
  <2>2. v \notin Seen /\ Seen' = Seen \cup {v}
    BY <2>1 DEF Seen, Turned, CountersTyped
  <2>3. IsFiniteSet(Seen') /\ Cardinality(Seen') = Cardinality(Seen) + 1
    BY <2>2, FS_AddElement DEF Turned
  <2>4. CountersTyped' /\ LinesPerWindow' /\ rejected' + summed' = rejected + summed + 1
    BY <2>1, TrackCounts DEF Turned, CountersTyped, Places
  <2>5. \A u \in Strangers : TurnedAway(u)'
    BY <2>1 DEF Turned, TurnedAway, CountersTyped
  <2> QED
    BY <2>3, <2>4, <2>5 DEF Turned
<1>2. ASSUME NEW v \in Jobs, Ignore(v) \/ Accept(v) PROVE Turned'
  <2>1. /\ v \notin Strangers /\ \E p \in Places : at' = [at EXCEPT ![v] = p]
        /\ UNCHANGED <<ran, answer, last, telemetry>>
    BY <1>2 DEF Ignore, Accept, Authorized, Places
  <2>2. Seen' = Seen
    BY <2>1 DEF Seen, Turned, CountersTyped
  <2> QED
    BY <2>1, <2>2 DEF Turned, CountersTyped, TurnedAway, telemetry, LinesPerWindow
<1>3. ASSUME NEW v \in Jobs, HandlerStep(v) PROVE Turned'
  <2>1. Seen' = Seen
    BY <1>3, HandlerTurns DEF Seen
  <2>2. \A u \in Strangers : TurnedAway(u)'
    BY <1>3, HandlerTurns DEF Turned, TurnedAway
  <2> QED
    BY <1>3, <2>1, <2>2, HandlerTurns DEF Turned, telemetry, LinesPerWindow
<1>4. CASE Tick \/ UNCHANGED telegramVars
  <2>1. UNCHANGED <<at, ran, answer, last, since, rejected, summed, lines>>
        /\ now' \in {now, now + 1}
    BY <1>4 DEF Tick, telegramVars, handling, telemetry
  <2>2. Seen' = Seen
    BY <2>1 DEF Seen
  <2> QED
    BY <2>1, <2>2 DEF Turned, CountersTyped, TurnedAway, LinesPerWindow
<1> QED
  BY <1>1, <1>2, <1>3, <1>4 DEF TelegramNext

\* Every update of a stranger is counted once and does nothing else, with the
\* lock and without, and the log grows by two lines per window however many
\* come (authorizeIngressActor and createAuthRejectTelemetry in bot.ts).
THEOREM StrangersCounted == TelegramSpec => []StrangersAreOnlyCounted
<1>1. Turned => StrangersAreOnlyCounted
  <2> SUFFICES ASSUME Turned PROVE StrangersAreOnlyCounted
    OBVIOUS
  <2>1. lines <= 1 + 2 * (now \div Window)
    <3> DEFINE x == since \div Window
               y == now \div Window
    <3>1. x \in Nat /\ y \in Nat /\ x <= y /\ lines <= 1 + 2 * x /\ lines \in Nat
      BY WindowsGrow DEF Turned, CountersTyped, LinesPerWindow
    <3> HIDE DEF x, y
    <3>2. lines <= 1 + 2 * y
      BY <3>1
    <3> QED
      BY <3>2 DEF y
  <2> QED
    BY <2>1 DEF Turned, StrangersAreOnlyCounted, TurnedAway, Seen
<1> QED
  BY <1>1, InitTurned, TurnedStep, PTL DEF TelegramSpec

-----------------------------------------------------------------------------
(* Long texts.                                                             *)

\* The first n chunks of the text that update u sends are on the screen, each
\* once and in their order.
FirstShown(u, n) ==
    LET shown == sending[u].shown IN
    Len(shown) = n /\ \A k \in 1..n : shown[k].next = k

\* A text is shown as far as the loop has come; and a handler that is over
\* without having sent anything has no text.
SentSoFar(u) ==
    /\ at[u] \in {"new", "waiting", "press"} => sending[u].from = "none"
    /\ at[u] = "send" => /\ sending[u].next \in 1..Count(u)
                         /\ FirstShown(u, sending[u].next - 1)
    /\ at[u] = "over" => sending[u].from = "none" \/ FirstShown(u, Count(u))

SenderTyped == at \in [Jobs -> Places] /\ sending \in [Jobs -> Sendings]

AllSentSoFar == SenderTyped /\ \A u \in Jobs : SentSoFar(u)

LEMMA CountPositive == ASSUME SenderTyped, NEW u \in Jobs PROVE Count(u) \in Nat \ {0}
<1>1. sending[u].text \in Texts
  BY DEF SenderTyped, Sendings
<1> QED
  BY <1>1, TextsAssumption DEF Count, Plan

\* A text that begins has nothing shown.
LEMMA BeginsWithNothing ==
    ASSUME SenderTyped, NEW u \in Jobs, NEW text \in Texts, NEW from \in Senders,
           Sends(u, text, from)
    PROVE  SenderTyped' /\ SentSoFar(u)'
<1> DEFINE o == [text |-> text, from |-> from, next |-> 1, plain |-> FALSE, shown |-> <<>>]
<1>1. o \in Sendings /\ o.next = 1 /\ o.shown = <<>>
  BY DEF Sendings
<1>2. sending' = [sending EXCEPT ![u] = o] /\ at' = [at EXCEPT ![u] = "send"]
  BY DEF Sends, Goes
<1> HIDE DEF o
<1>3. SenderTyped' /\ at'[u] = "send" /\ sending'[u] = o
  BY <1>1, <1>2 DEF SenderTyped, Places
<1>4. Count(u)' \in Nat \ {0}
  <2>1. sending'[u].text \in Texts
    BY <1>1, <1>3 DEF Sendings
  <2> QED
    BY <2>1, TextsAssumption DEF Count, Plan
<1>5. FirstShown(u, 0)'
  BY <1>1, <1>3 DEF FirstShown
<1>6. sending'[u].next = 1
  BY <1>1, <1>3
<1> QED
  BY <1>3, <1>4, <1>5, <1>6 DEF SentSoFar

\* A chunk that Telegram takes is the next, and the last ends the loop.
LEMMA NextIsShown ==
    ASSUME AllSentSoFar, NEW u \in Jobs, SendChunk(u)
    PROVE  SenderTyped' /\ SentSoFar(u)'
<1> DEFINE s == sending[u]
           m == [next |-> s.next, plain |-> s.plain]
           o == [s EXCEPT !.shown = Append(s.shown, m), !.next = s.next + 1, !.plain = FALSE]
<1>1. /\ SenderTyped /\ s \in Sendings /\ Count(u) \in Nat \ {0} /\ at[u] = "send"
      /\ s.next \in 1..Count(u) /\ FirstShown(u, s.next - 1)
  BY CountPositive DEF AllSentSoFar, SenderTyped, SentSoFar, SendChunk
<1>2. /\ s.shown \in Seq([next : Nat, plain : BOOLEAN]) /\ s.next \in Nat
      /\ m \in [next : Nat, plain : BOOLEAN] /\ m.next = s.next
  BY <1>1 DEF Sendings
<1>n. PICK n \in Nat : n = s.next
  BY <1>2
<1>3. o \in Sendings /\ o.shown = Append(s.shown, m) /\ o.next = s.next + 1 /\ o.text = s.text
  <2>1. Append(s.shown, m) \in Seq([next : Nat, plain : BOOLEAN]) /\ s.next + 1 \in Nat
    BY <1>2
  <2>2. \A q \in Seq([next : Nat, plain : BOOLEAN]), x \in Nat :
           LET r == [s EXCEPT !.shown = q, !.next = x, !.plain = FALSE]
           IN r \in Sendings /\ r.shown = q /\ r.next = x /\ r.text = s.text
    BY <1>1 DEF Sendings
  <2> QED
    BY <2>1, <2>2
<1>4. sending' = [sending EXCEPT ![u] = o]
  BY <1>1 DEF SendChunk, Sent, SenderTyped
<1>5. /\ s.next < Count(u) => at' = at
      /\ ~(s.next < Count(u)) => at' = [at EXCEPT ![u] = "over"]
  BY DEF SendChunk, Goes
<1> HIDE DEF o
<1>6. SenderTyped' /\ sending'[u] = o
  BY <1>1, <1>3, <1>4, <1>5 DEF SenderTyped, Places
<1>7. FirstShown(u, n)'
  <2>1. Len(s.shown) = s.next - 1 /\ \A k \in 1..(s.next - 1) : s.shown[k].next = k
    BY <1>1 DEF FirstShown
  <2> HIDE DEF m
  <2>2. /\ Len(Append(s.shown, m)) = s.next
        /\ \A k \in 1..(s.next - 1) : Append(s.shown, m)[k] = s.shown[k]
        /\ Append(s.shown, m)[s.next] = m
    BY <1>1, <1>2, <2>1
  <2>3. \A k \in 1..s.next : k \in 1..(s.next - 1) \/ k = s.next
    BY <1>1
  <2>4. \A k \in 1..s.next : o.shown[k].next = k
    BY <1>2, <1>3, <2>1, <2>2, <2>3
  <2> QED
    BY <1>n, <1>3, <1>6, <2>2, <2>4 DEF FirstShown
<1>8. Count(u)' = Count(u)
  BY <1>3, <1>6 DEF Count, Plan
<1> HIDE DEF s
<1>9. CASE s.next < Count(u)
  <2>1. at'[u] = "send" /\ sending'[u].next = n + 1 /\ sending'[u].next - 1 = n
    BY <1>n, <1>1, <1>2, <1>3, <1>5, <1>6, <1>9
  <2>2. sending'[u].next \in 1..Count(u)'
    BY <1>n, <1>1, <1>2, <1>8, <1>9, <2>1
  <2> QED
    BY <1>7, <2>1, <2>2, <1>6 DEF SentSoFar
<1>10. CASE ~(s.next < Count(u))
  <2>1. at'[u] = "over"
    BY <1>1, <1>5, <1>10 DEF SenderTyped
  <2>2. n = Count(u)'
    BY <1>n, <1>1, <1>2, <1>8, <1>10
  <2> QED
    BY <1>7, <2>1, <2>2, <1>6 DEF SentSoFar
<1> QED
  BY <1>9, <1>10

\* Sending a chunk again as plain text changes nothing of what is shown.
LEMMA PlainKeepsShown ==
    ASSUME AllSentSoFar, NEW u \in Jobs, FallBackToPlain(u)
    PROVE  SenderTyped' /\ SentSoFar(u)'
<1> DEFINE o == [sending[u] EXCEPT !.plain = TRUE]
<1>1. SenderTyped /\ SentSoFar(u) /\ sending[u] \in Sendings
  BY DEF AllSentSoFar, SenderTyped
<1>2. /\ o \in Sendings /\ o.shown = sending[u].shown /\ o.next = sending[u].next
      /\ o.text = sending[u].text /\ o.from = sending[u].from
  BY <1>1 DEF Sendings
<1>3. sending' = [sending EXCEPT ![u] = o] /\ at' = at
  BY DEF FallBackToPlain
<1> HIDE DEF o
<1>4. SenderTyped' /\ sending'[u] = o
  BY <1>1, <1>2, <1>3 DEF SenderTyped
<1> QED
  BY <1>1, <1>2, <1>3, <1>4 DEF SentSoFar, FirstShown, Count, Plan

\* A handler's step shows no chunk twice and leaves none out.
LEMMA HandlerSends ==
    ASSUME AllSentSoFar, NEW u \in Jobs, HandlerStep(u)
    PROVE  SenderTyped' /\ SentSoFar(u)'
<1>0. SenderTyped /\ SentSoFar(u) /\ sending[u] \in Sendings /\ Notice \in Texts /\ Answers \subseteq Texts
      /\ Senders = {"bridge", "router", "apology"} /\ NoText \in Sendings /\ NoText.from = "none"
  BY DEF AllSentSoFar, SenderTyped, Texts, Senders, NoText, Sendings
<1>1. CASE \E text \in Texts, from \in Senders : Sends(u, text, from)
  BY <1>0, <1>1, BeginsWithNothing
<1>2. CASE /\ \E p \in Places \ {"send", "over", "press"} : at' = [at EXCEPT ![u] = p]
           /\ at[u] \notin {"new"}
           /\ sending' = sending \/ sending' = [sending EXCEPT ![u] = NoText]
           /\ at'[u] \notin {"new", "waiting"}
  <2>1. SenderTyped'
    BY <1>0, <1>2 DEF SenderTyped
  <2> QED
    BY <1>0, <1>2, <2>1 DEF SentSoFar, SenderTyped
<1>3. CASE at[u] \in {"waiting", "press"} /\ sending' = sending
           /\ (at' = [at EXCEPT ![u] = "press"] \/ at' = [at EXCEPT ![u] = "over"])
  BY <1>0, <1>3 DEF SentSoFar, SenderTyped, Places
<1>4. CASE Start(u) \/ BridgeStatus(u) \/ BridgeStatusFails(u) \/ BridgeFails(u) \/ PressFails(u)
           \/ Leave(u) \/ LeaveFailed(u) \/ Sorry(u)
  <2>1. \/ /\ \E p \in Places \ {"send", "over", "press", "new", "waiting"} : at' = [at EXCEPT ![u] = p]
           /\ at[u] # "new" /\ (sending' = sending \/ sending' = [sending EXCEPT ![u] = NoText])
        \/ at[u] = "waiting" /\ sending' = sending /\ at' = [at EXCEPT ![u] = "press"]
    BY <1>4 DEF Start, BridgeStatus, BridgeStatusFails, BridgeFails, PressFails, Leave, LeaveFailed,
         Sorry, Goes, Places
  <2>2. \A p \in Places : at' = [at EXCEPT ![u] = p] => at'[u] = p
    BY <1>0 DEF SenderTyped
  <2> QED
    BY <1>2, <1>3, <2>1, <2>2
<1>5. CASE Bridge(u) \/ RouteText(u) \/ RouteCommand(u) \/ Order(u) \/ RouteFails(u) \/ Press(u)
  <2>1. \/ \E text \in Texts, from \in Senders : Sends(u, text, from)
        \/ at[u] = "route" /\ at' = [at EXCEPT ![u] = "order"] /\ sending' = sending
        \/ at[u] = "press" /\ at' = [at EXCEPT ![u] = "over"] /\ sending' = sending
    BY <1>0, <1>5 DEF Bridge, RouteText, RouteCommand, Order, RouteFails, Press, Goes
  <2>2. at' = [at EXCEPT ![u] = "order"] => at'[u] = "order"
    BY <1>0 DEF SenderTyped
  <2> QED
    BY <1>1, <1>2, <1>3, <2>1, <2>2 DEF Places
<1>6. CASE SendFails(u)
  <2>1. \/ \E text \in Texts, from \in Senders : Sends(u, text, from)
        \/ at' = [at EXCEPT ![u] = "route"] /\ sending' = [sending EXCEPT ![u] = NoText]
        \/ at' = [at EXCEPT ![u] = "failed"] /\ sending' = sending
    BY <1>0, <1>6 DEF SendFails, AfterFailure, Goes
  <2>2. at[u] = "send" /\ \A p \in Places : at' = [at EXCEPT ![u] = p] => at'[u] = p
    BY <1>0, <1>6 DEF SenderTyped, SendFails
  <2> QED
    BY <1>1, <1>2, <2>1, <2>2 DEF Places
<1>7. CASE SendChunk(u) \/ FallBackToPlain(u)
  BY <1>7, NextIsShown, PlainKeepsShown
<1> QED
  BY <1>4, <1>5, <1>6, <1>7 DEF HandlerStep

\* And leaves the texts of others alone.
LEMMA OthersSend ==
    ASSUME NEW u \in Jobs, HandlerStep(u), SenderTyped, NEW v \in Jobs \ {u}
    PROVE  at'[v] = at[v] /\ sending'[v] = sending[v]
<1> USE DEF SenderTyped, Goes, Sends
<1>1. CASE \/ Start(u) \/ BridgeStatus(u) \/ BridgeStatusFails(u) \/ Bridge(u) \/ BridgeFails(u)
           \/ RouteText(u) \/ RouteCommand(u) \/ Order(u) \/ RouteFails(u)
  BY <1>1 DEF Start, BridgeStatus, BridgeStatusFails, Bridge, BridgeFails, RouteText,
       RouteCommand, Order, RouteFails
<1>2. CASE Press(u) \/ PressFails(u) \/ FallBackToPlain(u) \/ SendChunk(u)
  BY <1>2 DEF Press, PressFails, FallBackToPlain, SendChunk, Sent
<1>3. CASE SendFails(u) \/ Leave(u) \/ LeaveFailed(u) \/ Sorry(u)
  BY <1>3 DEF SendFails, AfterFailure, Leave, LeaveFailed, Sorry
<1> QED
  BY <1>1, <1>2, <1>3 DEF HandlerStep

LEMMA SentStep == ASSUME AllSentSoFar, [TelegramNext]_telegramVars PROVE AllSentSoFar'
<1>1. ASSUME NEW u \in Jobs, HandlerStep(u) PROVE AllSentSoFar'
  <2>1. \A v \in Jobs \ {u} : at'[v] = at[v] /\ sending'[v] = sending[v] /\ SentSoFar(v)
    BY <1>1, OthersSend DEF AllSentSoFar
  <2>2. \A v \in Jobs \ {u} : SentSoFar(v)'
    BY <2>1 DEF SentSoFar, FirstShown, Count, Plan
  <2> QED
    BY <1>1, <2>2, HandlerSends DEF AllSentSoFar
<1>2. ASSUME NEW u \in Jobs, Reject(u) \/ Ignore(u) \/ Accept(u) PROVE AllSentSoFar'
  <2>1. at[u] = "new" /\ sending' = sending /\ \E p \in {"done", "waiting"} : at' = [at EXCEPT ![u] = p]
    BY <1>2 DEF Reject, Ignore, Accept
  <2>2. SenderTyped' /\ \A v \in Jobs : at'[v] = at[v] \/ (v = u /\ at'[v] \in {"done", "waiting"})
    BY <2>1 DEF AllSentSoFar, SenderTyped, Places
  <2>3. \A v \in Jobs : SentSoFar(v)'
    BY <2>1, <2>2 DEF AllSentSoFar, SentSoFar, FirstShown, Count, Plan
  <2> QED
    BY <2>2, <2>3 DEF AllSentSoFar
<1>3. CASE Tick \/ UNCHANGED telegramVars
  <2>1. UNCHANGED <<at, sending>>
    BY <1>3 DEF Tick, telegramVars, handling
  <2> QED
    BY <2>1 DEF AllSentSoFar, SenderTyped, SentSoFar, FirstShown, Count, Plan
<1> QED
  BY <1>1, <1>2, <1>3 DEF TelegramNext

LEMMA InitSent == TelegramInit => AllSentSoFar
<1>1. NoText \in Sendings /\ NoText.from = "none"
  BY DEF NoText, Texts, Sendings
<1> QED
  BY <1>1 DEF TelegramInit, AllSentSoFar, SenderTyped, SentSoFar, Places

\* A text that was sent without a failure is on the screen with all its chunks
\* in their order, those too that Telegram takes as plain text only, with the
\* lock and without (the loop of sendTelegramText).  That the division into
\* chunks loses no line is assumed here.
THEOREM TextsArriveWhole == ASSUME SmallTextsCarried PROVE TelegramSpec => []DeliveredWhole
<1>1. AllSentSoFar => DeliveredWhole
  <2> SUFFICES ASSUME AllSentSoFar, NEW u \in Jobs, at[u] = "over", sending[u].from # "none"
               PROVE  [k \in DOMAIN sending[u].shown |-> sending[u].shown[k].next]
                      = [k \in 1..Count(u) |-> k]
    BY DEF DeliveredWhole
  <2>1. FirstShown(u, Count(u)) /\ sending[u].shown \in Seq([next : Nat, plain : BOOLEAN])
    BY DEF AllSentSoFar, SentSoFar, SenderTyped, Sendings
  <2>2. DOMAIN sending[u].shown = 1..Count(u)
    BY <2>1 DEF FirstShown
  <2> QED
    BY <2>1, <2>2 DEF FirstShown
<1> QED
  BY <1>1, InitSent, SentStep, PTL DEF TelegramSpec
=============================================================================
