---------------------------- MODULE SessionProofs ---------------------------
(***************************************************************************)
(* SessionControl for any numbers of chats, projects, sessions, tasks,     *)
(* prompts, handlers and sweeps, and Restart for any number of crashes:    *)
(* the types, and the properties of SessionProperties that are invariants  *)
(* with a strengthening or that are about one step.                        *)
(***************************************************************************)
EXTENDS Restart, StoreProofs, SequenceTheorems

-----------------------------------------------------------------------------
(* What a handler and the watcher know at each of their steps.             *)

Orders == {"project", "session", "new", "text", "run", "cancel"}
Answering == {"bridge", "revert", "resolve"}
Noticing == {"show", "track", "clean", "untrack"}

HandlerOK(o) ==
    /\ o.at # "free" => o.chat \in Chats
    /\ o.at \in {"ask", "learn", "decide"} => o.kind \in AllCommands \ {"button"}
    /\ o.at \in {"ask", "learn"} => o.session \in Sessions
    /\ o.at \in {"load", "call", "commit"} => o.kind \in Orders
    /\ o.at \in {"call", "commit"} /\ o.kind = "project" => o.project \in Projects
    /\ o.at = "call" /\ o.kind \in {"session", "text", "run", "cancel"} => o.session \in Sessions
    /\ o.at = "commit" /\ o.kind # "project" => o.session \in Sessions
    /\ o.at = "lookup" => o.kind \in {"text", "button"}
    /\ o.at = "lookup" /\ o.kind = "button" => o.prompt \in Prompts
    /\ o.at = "submit" => o.prompt \in Prompts
    /\ o.at \in Answering => o.prompt \in Prompts /\ o.session \in Sessions

NoticeOK(n) == n.cleanup.message # 0 => n.cleanup.prompt \in Prompts

WatchOK(w) ==
    /\ w.at = "free" => w = Idle
    /\ w.at # "free" => w.session \in Sessions
    /\ w.at \in {"show", "track"} => w.notice.show \in Prompts
    /\ w.at \in {"clean", "untrack"} => w.notice.cleanup.prompt \in Prompts
    /\ NoticeOK(w.notice)

HandlersTyped == op \in [Handlers -> Handler] /\ \A h \in Handlers : HandlerOK(op[h])
WorkTyped == work \in [Chats -> Work] /\ \A c \in Chats : WatchOK(work[c])
QueuesTyped == inbox \in [Chats -> Seq(Event)] /\ sweep \in [Sweeps -> SUBSET Candidate]
UsersTyped ==
    keyboard \in Seq(Message) /\ told \in [Sessions -> BOOLEAN] /\ answers \in [Prompts -> 0..2]

Typed ==
    /\ ServerTypeOK
    /\ Sound(db)
    /\ HandlersTyped
    /\ WorkTyped
    /\ QueuesTyped
    /\ UsersTyped

LEMMA TypedType == Typed => TypeOK
BY DEF Typed, TypeOK, Sound, HandlersTyped, WorkTyped, QueuesTyped, UsersTyped

-----------------------------------------------------------------------------
(* The server                                                              *)

LEMMA FreshTaskType == Tasks \ runs # {} => FreshTask \in Tasks /\ FreshTask \notin runs
BY DEF FreshTask

LEMMA ReportsType ==
    ASSUME NEW s \in Sessions, NEW token \in {"own", "stray", "none"},
           NEW run \in Tasks \cup {None}, NEW kinds, kinds \subseteq EventKinds
    PROVE  Reports(s, token, run, kinds) \subseteq Event
BY DEF Reports, Event

LEMMA ServerCreateType ==
    ASSUME ServerTypeOK, NEW s \in Sessions, ServerCreate(s) PROVE ServerTypeOK'
BY DEF ServerTypeOK, ServerCreate, RemoteSession

LEMMA ServerRunType ==
    ASSUME ServerTypeOK, NEW s \in Sessions, NEW token \in {"own", "stray", "none"},
           ServerRun(s, token)
    PROVE  ServerTypeOK'
<1>1. FreshTask \in Tasks
  BY FreshTaskType DEF ServerRun
<1>2. Reports(s, token, FreshTask, IF Announced THEN {"started"} ELSE {}) \subseteq Event
  BY <1>1, ReportsType DEF EventKinds
<1> QED
  BY <1>1, <1>2 DEF ServerTypeOK, ServerRun, RemoteSession

LEMMA ServerReplyType ==
    ASSUME ServerTypeOK, NEW s \in Sessions, NEW token \in {"own", "stray", "none"},
           ServerReply(s, token)
    PROVE  ServerTypeOK'
BY DEF ServerTypeOK, ServerReply, RemoteSession

LEMMA ServerAsksType ==
    ASSUME ServerTypeOK, NEW s \in Sessions, NEW token \in {"own", "stray", "none"},
           ServerAsks(s, token)
    PROVE  ServerTypeOK'
<1>1. FreshTask \in Tasks
  BY FreshTaskType DEF ServerAsks
<1>2. Reports(s, token, FreshTask, {"needs-input"}) \subseteq Event
  BY <1>1, ReportsType DEF EventKinds
<1> QED
  BY <1>1, <1>2 DEF ServerTypeOK, ServerAsks, RemoteSession

LEMMA ServerCancelType ==
    ASSUME ServerTypeOK, NEW s \in Sessions, ServerCancel(s) PROVE ServerTypeOK'
BY DEF ServerTypeOK, ServerCancel, RemoteSession

\* What the server says of a session of its own accord.
LEMMA OwnReportsType ==
    ASSUME ServerTypeOK, NEW s \in Sessions, NEW kinds, kinds \subseteq EventKinds
    PROVE  Reports(s, remote[s].token, remote[s].task, kinds) \subseteq Event
<1>1. remote[s].token \in {"own", "stray", "none"} /\ remote[s].task \in Tasks \cup {None}
  BY DEF ServerTypeOK, RemoteSession
<1> QED
  BY <1>1, ReportsType

LEMMA ServerResumeType ==
    ASSUME ServerTypeOK, NEW s \in Sessions, ServerResume(s) PROVE ServerTypeOK'
<1>1. PICK k \in ResumeKinds :
         wire' = wire \cup Reports(s, remote[s].token, remote[s].task, {k})
  BY DEF ServerResume
<1>2. Reports(s, remote[s].token, remote[s].task, {k}) \subseteq Event
  BY OwnReportsType, OpenCodeAssumption DEF EventKinds
<1> QED
  BY <1>1, <1>2 DEF ServerTypeOK, ServerResume, RemoteSession

LEMMA RunEndsType ==
    ASSUME ServerTypeOK, NEW s \in Sessions, NEW kind \in EndKinds, RunEnds(s, kind)
    PROVE  ServerTypeOK'
<1>1. Reports(s, remote[s].token, remote[s].task, {kind}) \subseteq Event
  BY OwnReportsType, OpenCodeAssumption DEF EventKinds
<1> QED
  BY <1>1 DEF ServerTypeOK, RunEnds, RemoteSession

LEMMA RunCrashesType ==
    ASSUME ServerTypeOK, NEW s \in Sessions, RunCrashes(s) PROVE ServerTypeOK'
BY DEF ServerTypeOK, RunCrashes, RemoteSession

LEMMA RunAsksType ==
    ASSUME ServerTypeOK, NEW s \in Sessions, NEW p \in Prompts \cup {None}, RunAsks(s, p)
    PROVE  ServerTypeOK'
<1> DEFINE reports == Reports(s, remote[s].token, remote[s].task, {"needs-input"})
           asks == {[e EXCEPT !.prompt = p] : e \in reports}
<1>1. reports \subseteq Event
  BY OwnReportsType DEF EventKinds
<1> HIDE DEF reports
<1>2. asks \subseteq Event
  BY <1>1 DEF Event
<1>3. wire' = wire \cup asks
  BY DEF RunAsks, reports
<1> HIDE DEF asks
<1> QED
  BY <1>2, <1>3 DEF ServerTypeOK, RunAsks, RemoteSession

LEMMA ServerStepType ==
    ASSUME ServerTypeOK, ServerStep PROVE ServerTypeOK'
BY RunEndsType, RunCrashesType, RunAsksType, ServerResumeType
   DEF ServerStep, AnsweredAtPc

LEMMA AnswerOfType ==
    ASSUME ServerTypeOK, NEW s \in Sessions, Alive(s) PROVE AnswerOf(s) \in Reply
BY DEF ServerTypeOK, RemoteSession, Alive, AnswerOf, Reply, RemoteStatus

-----------------------------------------------------------------------------
(* Types of the handlers' steps                                            *)

LEMMA FreeReplyType == Free.reply \in Reply
BY DEF Free, Reply, RemoteStatus

LEMMA FreeOK == Free \in Handler /\ HandlerOK(Free)
BY FreeReplyType
   DEF Free, Handler, HandlerOK, HandlerSteps, Modes, MaxAttempts, Answering

LEMMA HandlerUpdate ==
    ASSUME HandlersTyped, NEW h \in Handlers, NEW o \in Handler, HandlerOK(o),
           op' = [op EXCEPT ![h] = o]
    PROVE  HandlersTyped'
BY DEF HandlersTyped

LEMMA DoneType ==
    ASSUME HandlersTyped, NEW h \in Handlers, Done(h) PROVE HandlersTyped'
BY FreeOK, HandlerUpdate DEF Done

LEMMA GoesType ==
    ASSUME HandlersTyped, NEW h \in Handlers, NEW at \in HandlerSteps, Goes(h, at),
           HandlerOK([op[h] EXCEPT !.at = at])
    PROVE  HandlersTyped'
<1> DEFINE o == [op[h] EXCEPT !.at = at]
<1>1. o \in Handler
  BY DEF HandlersTyped, Handler
<1>2. op' = [op EXCEPT ![h] = o]
  BY DEF Goes
<1> HIDE DEF o
<1>3. HandlerOK(o)
  BY DEF o
<1> QED
  BY <1>1, <1>2, <1>3, HandlerUpdate

\* The call is made again, is given up, or its failure is handled.
LEMMA FailsType ==
    ASSUME HandlersTyped, NEW h \in Handlers, NEW f, NEW at \in {"free", "revert"},
           Fails(h, f, at), at = "revert" => op[h].at = "bridge"
    PROVE  HandlersTyped'
<1> DEFINE o == [op[h] EXCEPT !.posts = op[h].posts + 1]
<1>1. op[h] \in Handler /\ HandlerOK(op[h])
  BY DEF HandlersTyped
<1>2. CASE ShouldRetry(f) /\ op[h].posts + 1 < MaxAttempts
  <2>1. o \in Handler /\ HandlerOK(o)
    BY <1>1, <1>2 DEF Handler, HandlerOK, MaxAttempts
  <2>2. op' = [op EXCEPT ![h] = o]
    BY <1>2 DEF Fails
  <2> HIDE DEF o
  <2> QED
    BY <2>1, <2>2, HandlerUpdate
<1>3. CASE ~(ShouldRetry(f) /\ op[h].posts + 1 < MaxAttempts) /\ at = "free"
  <2>1. Done(h)
    BY <1>3 DEF Fails
  <2> QED
    BY <2>1, DoneType
<1>4. CASE ~(ShouldRetry(f) /\ op[h].posts + 1 < MaxAttempts) /\ at = "revert"
  <2>1. Goes(h, "revert")
    BY <1>4 DEF Fails
  <2>2. HandlerOK([op[h] EXCEPT !.at = "revert"])
    BY <1>1, <1>4 DEF Handler, HandlerOK, Answering
  <2> QED
    BY <2>1, <2>2, GoesType DEF HandlerSteps
<1> QED
  BY <1>2, <1>3, <1>4

\* What a step of a handler that touches nothing else leaves alone.
LEMMA HandlerOnlyType ==
    ASSUME Typed, HandlerOnly, HandlersTyped', Sound(db)'
    PROVE  Typed'
BY DEF Typed, HandlerOnly, WorkTyped, QueuesTyped, UsersTyped, ServerTypeOK, userVars, serverVars

LEMMA BeginType ==
    ASSUME Typed, NEW h \in Handlers, NEW c \in Chats, NEW kind \in Commands, Begin(h, c, kind)
    PROVE  Typed'
<1> DEFINE b == db.binding[c]
           at == IF b.project # None /\ b.session # None THEN "ask" ELSE "decide"
           o == [Free EXCEPT !.kind = kind, !.chat = c, !.project = b.project,
                             !.session = b.session, !.at = at]
<1>1. b \in Binding
  BY DEF Typed, Sound, StoreType
<1>2. kind \in AllCommands \ {"button"}
  BY SessionControlAssumption DEF Begin
<1>4. op' = [op EXCEPT ![h] = o]
  BY DEF Begin
<1>5. at \in {"ask", "decide"} /\ (at = "ask" => b.session # None)
  OBVIOUS
<1> HIDE DEF at, b
<1>6. o \in Handler
  BY <1>1, <1>2, <1>5, FreeOK DEF Binding, Handler, HandlerSteps
<1>3. HandlerOK(o)
  BY <1>1, <1>2, <1>5, FreeOK DEF Binding, Handler, HandlerOK, Answering
<1> HIDE DEF o
<1>7. HandlersTyped'
  BY <1>3, <1>4, <1>6, HandlerUpdate DEF Typed
<1> QED
  BY <1>7, HandlerOnlyType DEF Begin, Typed

LEMMA PressType ==
    ASSUME Typed, NEW h \in Handlers, NEW c \in Chats, NEW p \in Prompts, Press(h, c, p)
    PROVE  Typed'
<1> DEFINE o == [Free EXCEPT !.kind = "button", !.chat = c, !.prompt = p, !.at = "lookup"]
<1>0. o \in Handler
  BY FreeOK DEF Handler, HandlerSteps, AllCommands
<1>1. HandlerOK(o)
  BY FreeOK DEF Handler, HandlerOK, Answering
<1>2. op' = [op EXCEPT ![h] = o]
  BY DEF Press
<1> HIDE DEF o
<1>3. HandlersTyped'
  BY <1>0, <1>1, <1>2, HandlerUpdate DEF Typed
<1> QED
  BY <1>3, HandlerOnlyType DEF Press, Typed

LEMMA AskStatusType ==
    ASSUME Typed, NEW h \in Handlers, AskStatus(h) PROVE Typed'
<1>1. op[h] \in Handler /\ HandlerOK(op[h]) /\ op[h].at = "ask"
  BY DEF Typed, HandlersTyped, AskStatus
<1>2. op[h].session \in Sessions
  BY <1>1 DEF HandlerOK
<1>3. CASE Goes(h, "decide")
  <2>1. HandlerOK([op[h] EXCEPT !.at = "decide"])
    BY <1>1 DEF Handler, HandlerOK, Answering
  <2>2. HandlersTyped'
    BY <1>3, <2>1, GoesType DEF Typed, HandlerSteps
  <2> QED
    BY <2>2, HandlerOnlyType DEF AskStatus, Typed
<1>4. CASE Alive(op[h].session)
           /\ op' = [op EXCEPT ![h].reply = AnswerOf(op[h].session), ![h].at = "learn"]
  <2> DEFINE r == AnswerOf(op[h].session)
             o == [op[h] EXCEPT !.reply = r, !.at = "learn"]
  <2>1. r \in Reply
    BY <1>2, <1>4, AnswerOfType DEF Typed
  <2>2. op' = [op EXCEPT ![h] = o]
    BY <1>4 DEF Typed, HandlersTyped
  <2> HIDE DEF r
  <2>3. o \in Handler /\ HandlerOK(o)
    BY <1>1, <2>1 DEF Handler, HandlerOK, HandlerSteps, Answering
  <2> HIDE DEF o
  <2>4. HandlersTyped'
    BY <2>2, <2>3, HandlerUpdate DEF Typed
  <2> QED
    BY <2>4, HandlerOnlyType DEF AskStatus, Typed
<1> QED
  BY <1>3, <1>4 DEF AskStatus

LEMMA LearnType ==
    ASSUME Typed, NEW h \in Handlers, Learn(h) PROVE Typed'
<1> DEFINE o == [op[h] EXCEPT !.at = "decide", !.reply = Free.reply]
<1>1. op[h] \in Handler /\ HandlerOK(op[h]) /\ op[h].at = "learn"
  BY DEF Typed, HandlersTyped, Learn
<1>2. op[h].chat \in Chats /\ op[h].session \in Sessions /\ op[h].reply \in Reply
  BY <1>1 DEF HandlerOK, Handler
<1>3. o \in Handler /\ HandlerOK(o)
  BY <1>1, FreeReplyType DEF Handler, HandlerOK, HandlerSteps, Answering
<1>4. op' = [op EXCEPT ![h] = o]
  BY DEF Learn, Typed, HandlersTyped
<1> HIDE DEF o
<1>5. HandlersTyped'
  BY <1>3, <1>4, HandlerUpdate DEF Typed
<1>6. db' \in StoreType /\ SamePrompts(db, db')
  BY <1>2, StatusCommitEffect DEF Learn, Typed, Sound
<1>7. Sound(db)'
  BY <1>6 DEF Sound, SamePrompts, Typed
<1> QED
  BY <1>5, <1>7, HandlerOnlyType DEF Learn

LEMMA RouteType ==
    ASSUME NEW kind \in AllCommands \ {"button"}, NEW project, NEW session, NEW mode
    PROVE  /\ Route(kind, project, session, mode) \in {"free", "load", "lookup"}
           /\ Route(kind, project, session, mode) = "load" => kind \in Orders
           /\ Route(kind, project, session, mode) = "lookup" => kind = "text" /\ session # None
BY DEF Route, AllCommands, Orders

LEMMA DecideType ==
    ASSUME Typed, NEW h \in Handlers, Decide(h) PROVE Typed'
<1> DEFINE b == db.binding[op[h].chat]
           next == Route(op[h].kind, b.project, b.session, db.state[op[h].chat].mode)
           o == [op[h] EXCEPT !.at = next, !.project = b.project, !.session = b.session]
<1>1. op[h] \in Handler /\ HandlerOK(op[h]) /\ op[h].at = "decide"
  BY DEF Typed, HandlersTyped, Decide
<1>2. op[h].chat \in Chats /\ op[h].kind \in AllCommands \ {"button"}
  BY <1>1 DEF HandlerOK
<1>3. b \in Binding
  BY <1>2 DEF Typed, Sound, StoreType
<1>4. /\ next \in {"free", "load", "lookup"}
      /\ next = "load" => op[h].kind \in Orders
      /\ next = "lookup" => op[h].kind = "text"
  BY <1>2, RouteType
<1>5. IF next = "free" THEN Done(h) ELSE op' = [op EXCEPT ![h] = o]
  BY DEF Decide
<1> HIDE DEF next, b
<1>6. next # "free" => o \in Handler /\ HandlerOK(o)
  BY <1>1, <1>3, <1>4 DEF Binding, Handler, HandlerOK, HandlerSteps, Answering
<1> HIDE DEF o
<1>7. HandlersTyped'
  BY <1>5, <1>6, DoneType, HandlerUpdate DEF Typed
<1> QED
  BY <1>7, HandlerOnlyType DEF Decide, Typed

LEMMA LookupByTextType ==
    ASSUME Typed, NEW h \in Handlers, LookupByText(h) PROVE Typed'
<1>1. op[h] \in Handler /\ HandlerOK(op[h]) /\ op[h].at = "lookup" /\ op[h].kind = "text"
  BY DEF Typed, HandlersTyped, LookupByText
<1>2. PICK p \in Latest(db, op[h].session, "active") :
         \/ Done(h) \/ Goes(h, "load")
         \/ p \in TextPrompts /\ op' = [op EXCEPT ![h].prompt = p, ![h].at = "submit"]
  BY DEF LookupByText
<1>3. CASE Done(h)
  BY <1>3, DoneType, HandlerOnlyType DEF LookupByText, Typed
<1>4. CASE Goes(h, "load")
  <2>1. HandlerOK([op[h] EXCEPT !.at = "load"])
    BY <1>1 DEF Handler, HandlerOK, Orders, Answering
  <2>2. HandlersTyped'
    BY <1>4, <2>1, GoesType DEF Typed, HandlerSteps
  <2> QED
    BY <2>2, HandlerOnlyType DEF LookupByText, Typed
<1>5. CASE p \in TextPrompts /\ op' = [op EXCEPT ![h].prompt = p, ![h].at = "submit"]
  <2> DEFINE o == [op[h] EXCEPT !.prompt = p, !.at = "submit"]
  <2>1. p \in Prompts
    BY <1>5, StoreAssumption
  <2>2. o \in Handler /\ HandlerOK(o)
    BY <1>1, <2>1 DEF Handler, HandlerOK, HandlerSteps, Answering
  <2>3. op' = [op EXCEPT ![h] = o]
    BY <1>5 DEF Typed, HandlersTyped
  <2> HIDE DEF o
  <2>4. HandlersTyped'
    BY <2>2, <2>3, HandlerUpdate DEF Typed
  <2> QED
    BY <2>4, HandlerOnlyType DEF LookupByText, Typed
<1> QED
  BY <1>2, <1>3, <1>4, <1>5

LEMMA LookupByButtonType ==
    ASSUME Typed, NEW h \in Handlers, LookupByButton(h) PROVE Typed'
<1>1. op[h] \in Handler /\ HandlerOK(op[h]) /\ op[h].at = "lookup" /\ op[h].kind = "button"
  BY DEF Typed, HandlersTyped, LookupByButton
<1>2. HandlerOK([op[h] EXCEPT !.at = "submit"])
  BY <1>1 DEF Handler, HandlerOK, Answering
<1>3. HandlersTyped'
  BY <1>2, DoneType, GoesType DEF LookupByButton, Typed, HandlerSteps
<1> QED
  BY <1>3, HandlerOnlyType DEF LookupByButton, Typed

\* Handler h goes on as o, and what it wrote is sound.
LEMMA MovedType ==
    ASSUME Typed, NEW h \in Handlers, NEW o \in Handler, HandlerOK(o),
           op' = [op EXCEPT ![h] = o], HandlerOnly, Sound(db)'
    PROVE  Typed'
BY HandlerUpdate, HandlerOnlyType DEF Typed

LEMMA LoadSelectType ==
    ASSUME Typed, NEW h \in Handlers, LoadSelect(h) PROVE Typed'
<1>1. op[h] \in Handler /\ HandlerOK(op[h]) /\ op[h].at = "load" /\ op[h].kind = "project"
  BY DEF Typed, HandlersTyped, LoadSelect
<1>2. PICK p \in Projects :
         op' = [op EXCEPT ![h] =
                   [op[h] EXCEPT !.project = p, !.session = None,
                                 !.at = IF p \in db.projects THEN "commit" ELSE "call"]]
  BY DEF LoadSelect
<1> DEFINE at == IF p \in db.projects THEN "commit" ELSE "call"
           o == [op[h] EXCEPT !.project = p, !.session = None, !.at = at]
<1>3. at \in {"commit", "call"}
  OBVIOUS
<1>4. op' = [op EXCEPT ![h] = o]
  BY <1>2
<1> HIDE DEF at
<1>5. o \in Handler
  BY <1>1, <1>3 DEF Handler, HandlerSteps
<1>6. HandlerOK(o)
  BY <1>1, <1>3 DEF Handler, HandlerOK, Orders, Answering
<1> HIDE DEF o
<1> QED
  BY <1>4, <1>5, <1>6, MovedType DEF LoadSelect, Typed

LEMMA ContextTasksType ==
    ASSUME NEW d, NEW c, NEW t \in ContextTasks(d, c) PROVE t \in Tasks \cup {None}
BY DEF ContextTasks

\* The session that an order is about is the one bound to the chat.
LEMMA LoadOtherMoves ==
    ASSUME Typed, NEW h \in Handlers, LoadOther(h)
    PROVE  \E o \in Handler :
              /\ HandlerOK(o) /\ op' = [op EXCEPT ![h] = o]
              /\ o.at = "call" /\ o.kind = op[h].kind /\ o.chat = op[h].chat
              /\ o.kind \in {"text", "run", "cancel"} =>
                    o.session = db.binding[o.chat].session
              /\ o.kind \in {"text", "run"} => o.token = RegistrationOf(o.session)
<1> DEFINE c == op[h].chat
           b == db.binding[c]
           kind == op[h].kind
<1>1. op[h] \in Handler /\ HandlerOK(op[h]) /\ op[h].at = "load"
      /\ kind \in Orders \ {"project"} /\ c \in Chats
  BY DEF Typed, HandlersTyped, LoadOther, HandlerOK
<1>2. PICK s \in IF kind = "session" THEN Sessions
                 ELSE IF kind = "new" THEN {None} ELSE {b.session},
              t \in IF kind = "cancel" THEN ContextTasks(db, c) ELSE {None} :
          op' = [op EXCEPT ![h] =
                    [op[h] EXCEPT !.at = "call", !.project = b.project, !.session = s,
                                  !.task = t,
                                  !.mode = IF kind = "run" THEN db.state[c].mode ELSE op[h].mode,
                                  !.token = IF kind \in {"text", "run"}
                                            THEN RegistrationOf(s) ELSE op[h].token]]
  BY DEF LoadOther
<1> DEFINE mode == IF kind = "run" THEN db.state[c].mode ELSE op[h].mode
           token == IF kind \in {"text", "run"} THEN RegistrationOf(s) ELSE op[h].token
           o == [op[h] EXCEPT !.at = "call", !.project = b.project, !.session = s,
                              !.task = t, !.mode = mode, !.token = token]
<1>3. op' = [op EXCEPT ![h] = o]
  BY <1>2
<1>4. b \in Binding /\ db.state[c] \in State
  BY <1>1 DEF Typed, Sound, StoreType
<1>5. t \in Tasks \cup {None}
  BY <1>2, ContextTasksType
<1>6. mode \in Modes
  BY <1>1, <1>4 DEF Handler, State
<1>7. token \in {"none", "own", "stray"}
  BY <1>1 DEF Handler, RegistrationOf
<1>8. s \in Sessions \cup {None} /\ b.project \in Projects \cup {None}
  BY <1>2, <1>4 DEF Binding
<1>9. kind \in {"session", "text", "run", "cancel"} => s \in Sessions
  <2>1. CASE kind = "session"
    BY <1>2, <2>1
  <2>2. CASE kind \in {"text", "run", "cancel"}
    <3>1. HasSession(db, c)
      BY <2>2 DEF LoadOther, Admitted, MaySend, MayRun, MayCancel
    <3> QED
      BY <1>2, <1>8, <2>2, <3>1 DEF HasSession
  <2> QED
    BY <2>1, <2>2
<1>12. kind \in {"text", "run", "cancel"} => s = b.session
  BY <1>2
<1>14. kind \in {"text", "run"} => token = RegistrationOf(s)
  OBVIOUS
<1> HIDE DEF mode, token
<1> HIDE DEF b
<1>10. o \in Handler
  BY <1>1, <1>5, <1>6, <1>7, <1>8 DEF Handler, HandlerSteps
<1>11. HandlerOK(o)
  BY <1>1, <1>9 DEF Handler, HandlerOK, Orders, Answering
<1>13. o.at = "call" /\ o.kind = kind /\ o.chat = c /\ o.session = s /\ o.token = token
  BY <1>1 DEF Handler
<1> HIDE DEF o
<1> QED
  BY <1>3, <1>10, <1>11, <1>12, <1>13, <1>14 DEF b

LEMMA LoadOtherType ==
    ASSUME Typed, NEW h \in Handlers, LoadOther(h) PROVE Typed'
<1>1. PICK o \in Handler : HandlerOK(o) /\ op' = [op EXCEPT ![h] = o]
  BY LoadOtherMoves
<1> QED
  BY <1>1, MovedType DEF LoadOther, Typed

LEMMA LoadRefusedType ==
    ASSUME Typed, NEW h \in Handlers, LoadRefused(h) PROVE Typed'
BY DoneType, HandlerOnlyType DEF LoadRefused, Typed

LEMMA CallFailsType ==
    ASSUME Typed, NEW h \in Handlers, CallFails(h) PROVE Typed'
<1>1. HandlersTyped'
  BY FailsType DEF CallFails, Typed
<1> QED
  BY <1>1, HandlerOnlyType DEF CallFails, Typed

\* What a call does on the server, and its answer.
LEMMA ServerDoesType ==
    ASSUME Typed, NEW h \in Handlers, op[h].at = "call", NEW s \in Sessions \cup {None},
           NEW reply, ServerDoes(h, s, reply)
    PROVE  ServerTypeOK' /\ (op[h].kind # "project" => s \in Sessions)
<1>1. op[h] \in Handler /\ HandlerOK(op[h]) /\ ServerTypeOK /\ op[h].kind \in Orders
  BY DEF Typed, HandlersTyped, HandlerOK
<1>2. op[h].token \in {"own", "stray", "none"}
  BY <1>1 DEF Handler
<1>3. CASE UNCHANGED serverVars /\ op[h].kind \in {"project", "session"}
  <2>1. ServerTypeOK'
    BY <1>1, <1>3 DEF ServerTypeOK, serverVars
  <2>2. op[h].kind = "session" => s \in Sessions
    BY <1>1, <1>3 DEF ServerDoes, HandlerOK
  <2> QED
    BY <1>3, <2>1, <2>2
<1>4. CASE s \in Sessions /\ (ServerCreate(s) \/ ServerCancel(s))
  BY <1>1, <1>4, ServerCreateType, ServerCancelType
<1>5. CASE s \in Sessions /\ (\/ ServerReply(s, op[h].token) \/ ServerAsks(s, op[h].token)
                              \/ ServerRun(s, op[h].token))
  BY <1>1, <1>2, <1>5, ServerReplyType, ServerAsksType, ServerRunType
<1>6. CASE op[h].kind \in {"text", "run"} /\ s = op[h].session
  <2>1. s \in Sessions
    BY <1>1, <1>6 DEF HandlerOK
  <2>2. \/ ServerReply(s, op[h].token) \/ ServerAsks(s, op[h].token)
        \/ ServerRun(s, op[h].token)
    BY <1>6 DEF ServerDoes
  <2> QED
    BY <1>5, <2>1, <2>2
<1>7. CASE op[h].kind = "cancel" /\ s = op[h].session /\ ServerCancel(s)
  <2>1. s \in Sessions
    BY <1>1, <1>7 DEF HandlerOK
  <2> QED
    BY <1>4, <1>7, <2>1
<1> QED
  BY <1>3, <1>4, <1>6, <1>7 DEF ServerDoes

LEMMA CallType ==
    ASSUME Typed, NEW h \in Handlers, Call(h) PROVE Typed'
<1>1. op[h] \in Handler /\ HandlerOK(op[h]) /\ op[h].at = "call" /\ op[h].kind \in Orders
  BY DEF Typed, HandlersTyped, HandlerOK, Call
<1>2. PICK s \in Sessions \cup {None}, reply \in Reply :
          /\ ServerDoes(h, s, reply)
          /\ told' = IF op[h].kind \in {"text", "run"} THEN [told EXCEPT ![s] = FALSE] ELSE told
          /\ \/ op' = [op EXCEPT ![h] =
                       [op[h] EXCEPT !.session = s, !.reply = reply, !.at = "commit"]]
             \/ \E f \in {Timeout, Broken} : Fails(h, f, "free")
  BY DEF Call
<1> DEFINE o == [op[h] EXCEPT !.session = s, !.reply = reply, !.at = "commit"]
<1>3. ServerTypeOK' /\ (op[h].kind # "project" => s \in Sessions)
  BY <1>1, <1>2, ServerDoesType
<1>4. told' \in [Sessions -> BOOLEAN]
  BY <1>2 DEF Typed, UsersTyped
<1>5. op' = [op EXCEPT ![h] = o] \/ \E f \in {Timeout, Broken} : Fails(h, f, "free")
  BY <1>2
<1>6. o \in Handler
  BY <1>1 DEF Handler, HandlerSteps
<1>7. HandlerOK(o)
  BY <1>1, <1>3 DEF Handler, HandlerOK, Orders, Answering
<1> HIDE DEF o
<1>8. HandlersTyped'
  BY <1>5, <1>6, <1>7, HandlerUpdate, FailsType DEF Typed
<1> QED
  BY <1>3, <1>4, <1>8 DEF Call, Typed, Sound, WorkTyped, QueuesTyped, UsersTyped

\* The last transaction of a use case keeps the prompts.
LEMMA CommitStore ==
    ASSUME Typed, NEW h \in Handlers, Commit(h)
    PROVE  db' \in StoreType /\ SamePrompts(db, db')
<1> DEFINE o == op[h]
<1>1. op[h] \in Handler /\ HandlerOK(op[h]) /\ op[h].at = "commit" /\ op[h].kind \in Orders
  BY DEF Typed, HandlersTyped, HandlerOK, Commit
<1>2. /\ o.chat \in Chats /\ o.reply \in Reply /\ o.mode \in Modes
      /\ o.project \in Projects \cup {None} /\ db \in StoreType
      /\ o.kind # "project" => o.session \in Sessions
      /\ o.kind = "project" => o.project \in Projects
  BY <1>1 DEF HandlerOK, Handler, Typed, Sound
<1>3. CASE o.kind = "project"
  BY <1>2, <1>3, SelectCommitEffect DEF Commit
<1>4. CASE o.kind = "session"
  BY <1>2, <1>4, AttachCommitEffect DEF Commit
<1>5. CASE o.kind = "new"
  BY <1>2, <1>5, CreateCommitEffect DEF Commit
<1>6. CASE o.kind = "text"
  BY <1>2, <1>6, ExecuteCommitEffect, ModeOfStatusType DEF Commit, SendCommit
<1>7. CASE o.kind = "run"
  BY <1>2, <1>7, ExecuteCommitEffect, ModeOfRunType DEF Commit, RunCommit
<1>8. CASE o.kind = "cancel"
  BY <1>2, <1>8, CancelCommitEffect DEF Commit
<1> QED
  BY <1>1, <1>3, <1>4, <1>5, <1>6, <1>7, <1>8 DEF Orders

LEMMA SamePromptsSound ==
    ASSUME NEW d, Sound(d), NEW e \in StoreType, SamePrompts(d, e) PROVE Sound(e)
BY DEF Sound, SamePrompts

LEMMA CommitType ==
    ASSUME Typed, NEW h \in Handlers, Commit(h) PROVE Typed'
<1>1. Sound(db)'
  BY CommitStore, SamePromptsSound DEF Typed
<1> QED
  BY <1>1, DoneType, HandlerOnlyType DEF Commit, Typed

\* submitPendingPrompt reads the session with the prompt.
LEMMA SubmitType ==
    ASSUME Typed, NEW h \in Handlers, Submit(h) PROVE Typed'
<1> DEFINE p == op[h].prompt
           s == db.prompt[p].session
           o == [op[h] EXCEPT !.at = "bridge", !.session = s]
<1>1. op[h] \in Handler /\ HandlerOK(op[h]) /\ op[h].at = "submit"
      /\ p \in Prompts /\ op[h].chat \in Chats
  BY DEF Typed, HandlersTyped, HandlerOK, Submit
<1>2. CASE MaySubmit(db, op[h].chat, p)
  <2>1. s \in Sessions
    BY <1>1, <1>2 DEF MaySubmit, Typed, Sound, Placed
  <2>2. op' = [op EXCEPT ![h] = o]
    BY <1>2 DEF Submit, Typed, HandlersTyped
  <2> HIDE DEF s
  <2>3. o \in Handler
    BY <1>1, <2>1 DEF Handler, HandlerSteps
  <2>4. HandlerOK(o)
    BY <1>1, <2>1 DEF Handler, HandlerOK, Answering
  <2> HIDE DEF o
  <2>5. Sound(db)'
    BY <1>1, <1>2, SubmitPreflightEffect DEF Submit, Typed
  <2> QED
    BY <2>2, <2>3, <2>4, <2>5, MovedType DEF Submit
<1>3. CASE ~MaySubmit(db, op[h].chat, p)
  BY <1>3, DoneType, HandlerOnlyType DEF Submit, Typed
<1> QED
  BY <1>2, <1>3

LEMMA BridgeType ==
    ASSUME Typed, NEW h \in Handlers, Bridge(h) PROVE Typed'
<1> DEFINE s == op[h].session
           p == op[h].prompt
<1>1. op[h] \in Handler /\ HandlerOK(op[h]) /\ op[h].at = "bridge"
      /\ p \in Prompts /\ s \in Sessions
  BY DEF Typed, HandlersTyped, HandlerOK, Answering, Bridge
<1>2. answers' \in [Prompts -> 0..2]
  BY <1>1 DEF Bridge, Typed, UsersTyped, Once
<1>3. ServerTypeOK'
  <2>1. ServerResume(s) \/ UNCHANGED serverVars
    BY DEF Bridge
  <2> QED
    BY <1>1, <2>1, ServerResumeType DEF Typed, ServerTypeOK, serverVars
<1>4. HandlersTyped'
  <2>1. HandlerOK([op[h] EXCEPT !.at = "resolve"])
    BY <1>1 DEF Handler, HandlerOK, Answering
  <2>2. Goes(h, "resolve") \/ \E f : Fails(h, f, "revert")
    BY DEF Bridge
  <2> QED
    BY <1>1, <2>1, <2>2, GoesType, FailsType DEF Typed, HandlerSteps
<1> QED
  BY <1>2, <1>3, <1>4 DEF Bridge, Typed, Sound, WorkTyped, QueuesTyped, UsersTyped

LEMMA RevertType ==
    ASSUME Typed, NEW h \in Handlers, Revert(h) PROVE Typed'
<1>1. Sound(db)'
  BY CompareAndSetSound DEF Revert, SubmitRevert, Typed, PromptStatus
<1> QED
  BY <1>1, DoneType, HandlerOnlyType DEF Revert, Typed

LEMMA ResolveType ==
    ASSUME Typed, NEW h \in Handlers, Resolve(h) PROVE Typed'
<1>1. Sound(db)'
  BY CompareAndSetSound DEF Resolve, SubmitResolve, Typed, PromptStatus
<1> QED
  BY <1>1, DoneType, HandlerOnlyType DEF Resolve, Typed

LEMMA HandlerStepType ==
    ASSUME Typed, NEW h \in Handlers, HandlerStep(h) PROVE Typed'
BY AskStatusType, LearnType, DecideType, LookupByTextType, LookupByButtonType,
   LoadSelectType, LoadOtherType, LoadRefusedType, CallType, CallFailsType, CommitType,
   SubmitType, BridgeType, RevertType, ResolveType
   DEF HandlerStep

-----------------------------------------------------------------------------
(* Types of the watcher's steps                                            *)

LEMMA IdleOK == Idle \in Work /\ WatchOK(Idle)
<1>1. NoNotice \in Notice /\ NoticeOK(NoNotice)
  BY DEF NoNotice, NoCleanup, Notice, NoticeOK
<1> QED
  BY <1>1, SomeRetry DEF Idle, Work, WorkSteps, WatchOK, RemoteStatus

LEMMA WorkUpdate ==
    ASSUME WorkTyped, NEW c \in Chats, NEW w \in Work, WatchOK(w),
           work' = [work EXCEPT ![c] = w]
    PROVE  WorkTyped'
BY DEF WorkTyped

LEMMA ContinueType ==
    ASSUME WorkTyped, NEW c \in Chats, NEW at \in WorkSteps, Continue(c, at),
           at # "free" => work[c].at # "free",
           at \in {"show", "track"} => work[c].notice.show \in Prompts,
           at \in {"clean", "untrack"} => work[c].notice.cleanup.prompt \in Prompts
    PROVE  WorkTyped'
<1> DEFINE w == [work[c] EXCEPT !.at = at]
<1>1. work[c] \in Work /\ WatchOK(work[c])
  BY DEF WorkTyped
<1>2. CASE at = "free"
  <2>1. work' = [work EXCEPT ![c] = Idle]
    BY <1>2 DEF Continue
  <2> QED
    BY <2>1, IdleOK, WorkUpdate
<1>3. CASE at # "free"
  <2>1. w \in Work
    BY <1>1 DEF Work
  <2>2. WatchOK(w)
    BY <1>1, <1>3 DEF Work, WatchOK
  <2>3. work' = [work EXCEPT ![c] = w]
    BY <1>3 DEF Continue
  <2> HIDE DEF w
  <2> QED
    BY <2>1, <2>2, <2>3, WorkUpdate
<1> QED
  BY <1>2, <1>3

\* What a step of the watcher that concerns the store and its work leaves alone.
LEMMA WatchOnlyType ==
    ASSUME Typed, WatchOnly, WorkTyped', Sound(db)' PROVE Typed'
BY DEF Typed, WatchOnly, HandlersTyped, QueuesTyped, UsersTyped, ServerTypeOK, userVars,
       serverVars

LEMMA FirstOfType ==
    ASSUME NEW n \in Notice, NoticeOK(n)
    PROVE  /\ FirstOf(n) \in {"free", "show", "clean", "say"}
           /\ FirstOf(n) = "show" => n.show \in Prompts
           /\ FirstOf(n) = "clean" => n.cleanup.prompt \in Prompts
           /\ n.kind # "none" => FirstOf(n) # "free"
BY DEF FirstOf, Notice, NoticeOK

\* The watcher's work after an event that left notice n.
After(by, s, n) ==
    IF n.kind = "none" THEN Idle
    ELSE [Idle EXCEPT !.by = by, !.session = s, !.at = FirstOf(n), !.notice = n]

LEMMA AfterType ==
    ASSUME NEW n \in Notice, NoticeOK(n), NEW s \in Sessions,
           NEW by \in Sweeps \cup {"webhook", "nobody"}
    PROVE  After(by, s, n) \in Work /\ WatchOK(After(by, s, n))
<1> DEFINE at == FirstOf(n)
           w == [Idle EXCEPT !.by = by, !.session = s, !.at = at, !.notice = n]
<1>1. CASE n.kind = "none"
  BY <1>1, IdleOK DEF After
<1>2. CASE n.kind # "none"
  <2>1. /\ at \in {"show", "clean", "say"}
        /\ at = "show" => n.show \in Prompts
        /\ at = "clean" => n.cleanup.prompt \in Prompts
    BY <1>2, FirstOfType
  <2>2. After(by, s, n) = w
    BY <1>2 DEF After
  <2> HIDE DEF at
  <2>3. w \in Work
    BY <2>1, IdleOK DEF Work, WorkSteps
  <2>4. WatchOK(w)
    BY <2>1, IdleOK DEF Work, WatchOK
  <2> HIDE DEF w
  <2> QED
    BY <2>2, <2>3, <2>4
<1> QED
  BY <1>1, <1>2

\* What the mutation of an event is: nothing, or ApplyEvent for some of the
\* latest prompts and the work that its notice leaves.
SourceOf(by) == IF by = "webhook" THEN "webhook" ELSE "watchdog"
Mutates(c, e, by) ==
    /\ Accepts(db, c, e, SourceOf(by))
    /\ \E a \in Latest(db, e.session, "active"), b \in Latest(db, e.session, "submitted") :
          LET r == ApplyEvent(db, c, e, SourceOf(by), a, b) IN
          /\ db' = r.store
          /\ work' = [work EXCEPT ![c] = After(by, e.session, r.notice)]

LEMMA MutateCases ==
    ASSUME NEW c \in Chats, NEW e, NEW by, Mutate(c, e, by)
    PROVE  Mutates(c, e, by) \/ (db' = db /\ Continue(c, "free"))
BY DEF Mutate, Mutates, SourceOf, After

\* The effect of ApplyEvent, on the variables.
EventStep(c, e, by) ==
    /\ Sound(db') /\ SameBindings(db, db') /\ KeepsTasks(db, db')
    /\ SameStates(db, db') \/ FreesState(db, db', c)
    /\ e.kind # "needs-input" => StaysBusy(db, db', c)
    /\ EventSessions(db, db', e.session, e.kind, SourceOf(by))
    /\ \/ ClosesPrompts(db, db')
       \/ /\ e.kind = "needs-input" /\ e.prompt \in Prompts
          /\ RaisesOne(db, db', e.prompt, e.session, c)
    /\ LeavesOthers(db, db', e.session, e.prompt)
    /\ HumanPrompts /\ e.kind = "needs-input" /\ e.prompt \in Prompts =>
          RaisesOne(db, db', e.prompt, e.session, c)
    /\ \E n : NoticeOf(db', n, e.prompt) /\ work' = [work EXCEPT ![c] = After(by, e.session, n)]

LEMMA MutatesEffect ==
    ASSUME Sound(db), NEW c \in Chats, NEW e, e.session \in Sessions,
           e.prompt \in Prompts \cup {None}, NEW by, Mutates(c, e, by)
    PROVE  EventStep(c, e, by)
<1>1. PICK a \in Latest(db, e.session, "active"), b \in Latest(db, e.session, "submitted") :
          /\ db' = ApplyEvent(db, c, e, SourceOf(by), a, b).store
          /\ work' = [work EXCEPT ![c] =
                After(by, e.session, ApplyEvent(db, c, e, SourceOf(by), a, b).notice)]
  BY DEF Mutates
<1> DEFINE r == ApplyEvent(db, c, e, SourceOf(by), a, b)
<1>2. SourceOf(by) \in {"webhook", "watchdog"}
  BY DEF SourceOf
<1>3. /\ Sound(r.store) /\ SameBindings(db, r.store) /\ KeepsTasks(db, r.store)
      /\ SameStates(db, r.store) \/ FreesState(db, r.store, c)
      /\ e.kind # "needs-input" => StaysBusy(db, r.store, c)
      /\ EventSessions(db, r.store, e.session, e.kind, SourceOf(by))
      /\ \/ ClosesPrompts(db, r.store)
         \/ /\ e.kind = "needs-input" /\ e.prompt \in Prompts
            /\ RaisesOne(db, r.store, e.prompt, e.session, c)
      /\ NoticeOf(r.store, r.notice, e.prompt)
      /\ LeavesOthers(db, r.store, e.session, e.prompt)
      /\ HumanPrompts /\ e.kind = "needs-input" /\ e.prompt \in Prompts =>
            RaisesOne(db, r.store, e.prompt, e.session, c)
  BY <1>2, ApplyEventEffect
<1>4. db' = r.store /\ work' = [work EXCEPT ![c] = After(by, e.session, r.notice)]
  BY <1>1
<1> HIDE DEF r
<1> QED
  BY <1>3, <1>4 DEF EventStep

LEMMA MutateType ==
    ASSUME Typed, NEW c \in Chats, NEW e, e.session \in Sessions,
           e.prompt \in Prompts \cup {None}, NEW by \in Sweeps \cup {"webhook", "nobody"},
           Mutate(c, e, by)
    PROVE  Sound(db)' /\ WorkTyped'
<1>1. CASE Mutates(c, e, by)
  <2>1. EventStep(c, e, by)
    BY <1>1, MutatesEffect DEF Typed
  <2>2. PICK n : NoticeOf(db', n, e.prompt) /\ work' = [work EXCEPT ![c] = After(by, e.session, n)]
    BY <2>1 DEF EventStep
  <2>3. n \in Notice /\ NoticeOK(n)
    BY <2>2 DEF NoticeOf, NoticeOK
  <2> QED
    BY <2>1, <2>2, <2>3, AfterType, WorkUpdate DEF EventStep, Typed
<1>2. CASE db' = db /\ Continue(c, "free")
  BY <1>2, ContinueType DEF Typed, WorkSteps
<1> QED
  BY <1>1, <1>2, MutateCases

LEMMA ApplyWebhookType ==
    ASSUME Typed, NEW c \in Chats, ApplyWebhook(c) PROVE Typed'
<1> DEFINE e == Head(inbox[c])
<1>1. inbox[c] \in Seq(Event) /\ inbox[c] # <<>>
  BY DEF Typed, QueuesTyped, ApplyWebhook
<1>2. e \in Event /\ Tail(inbox[c]) \in Seq(Event)
  BY <1>1, HeadTailProperties
<1>3. e.session \in Sessions /\ e.prompt \in Prompts \cup {None}
  BY <1>2 DEF Event
<1>4. Mutate(c, e, "webhook")
  BY DEF ApplyWebhook
<1>5. Sound(db)' /\ WorkTyped'
  BY <1>3, <1>4, MutateType
<1>6. inbox' \in [Chats -> Seq(Event)]
  BY <1>2 DEF ApplyWebhook, Typed, QueuesTyped
<1> QED
  BY <1>5, <1>6 DEF ApplyWebhook, Typed, HandlersTyped, QueuesTyped, UsersTyped,
                    ServerTypeOK, userVars, serverVars

LEMMA ArriveType ==
    ASSUME Typed, NEW e \in wire, Arrive(e) PROVE Typed'
<1>1. e \in Event
  BY DEF Typed, ServerTypeOK
<1>2. PICK c \in Chats : inbox' = [inbox EXCEPT ![c] = Append(inbox[c], e)]
  BY DEF Arrive
<1>3. Append(inbox[c], e) \in Seq(Event)
  BY <1>1, AppendProperties DEF Typed, QueuesTyped
<1>4. QueuesTyped'
  BY <1>2, <1>3 DEF Arrive, Typed, QueuesTyped
<1>5. ServerTypeOK'
  BY DEF Arrive, Taken, Typed, ServerTypeOK
<1> QED
  BY <1>4, <1>5 DEF Arrive, Typed, HandlersTyped, WorkTyped, UsersTyped, userVars

LEMMA LoseType ==
    ASSUME Typed, NEW e \in wire, ArriveUnknown(e) \/ Lose(e) PROVE Typed'
BY DEF ArriveUnknown, Lose, Typed, ServerTypeOK, HandlersTyped, WorkTyped, QueuesTyped,
       UsersTyped, userVars, botVars

LEMMA CandidateType ==
    ASSUME Sound(db), NEW k \in Candidates PROVE k \in Candidate
<1>1. PICK c \in Chats : /\ IsCandidate(db, c)
                         /\ k = [chat |-> c, session |-> db.binding[c].session,
                                 retry |-> db.session[db.binding[c].session].retry]
  BY DEF Candidates
<1> DEFINE s == db.binding[c].session
<1>2. db.binding[c] \in Binding
  BY DEF Sound, StoreType
<1>3. s \in Sessions
  BY <1>1, <1>2 DEF IsCandidate, Binding
<1>4. db.session[s] \in Session
  BY <1>3 DEF Sound, StoreType
<1>5. db.session[s].retry \in 0..MaxRetry
  BY <1>4 DEF Session
<1> HIDE DEF s
<1> QED
  BY <1>1, <1>3, <1>5 DEF Candidate, s

LEMMA StartSweepType ==
    ASSUME Typed, NEW v \in Sweeps, NEW listed, StartSweep(v, listed) PROVE Typed'
<1>1. listed \subseteq Candidate
  BY CandidateType DEF StartSweep, Typed
<1> QED
  BY <1>1 DEF StartSweep, Typed, ServerTypeOK, HandlersTyped, WorkTyped, QueuesTyped,
              UsersTyped, userVars, serverVars

LEMMA StartCandidateType ==
    ASSUME Typed, NEW v \in Sweeps, NEW k \in sweep[v], StartCandidate(v, k) PROVE Typed'
<1> DEFINE w == [Idle EXCEPT !.by = v, !.at = "ask", !.session = k.session, !.retry = k.retry]
<1>1. k \in Candidate
  BY DEF Typed, QueuesTyped
<1>2. k.chat \in Chats /\ k.session \in Sessions /\ k.retry \in 0..MaxRetry
  BY <1>1 DEF Candidate
<1>3. w \in Work
  BY <1>2, IdleOK DEF Work, WorkSteps
<1>4. WatchOK(w)
  BY <1>2, IdleOK DEF Work, WatchOK
<1>5. work' = [work EXCEPT ![k.chat] = w]
  BY DEF StartCandidate
<1> HIDE DEF w
<1>6. WorkTyped'
  BY <1>2, <1>3, <1>4, <1>5, WorkUpdate DEF Typed
<1>7. Sound(db)'
  BY CompareAndSetSound DEF StartCandidate, ExpirePrompt, Typed, PromptStatus
<1>8. QueuesTyped'
  BY DEF StartCandidate, Typed, QueuesTyped
<1> QED
  BY <1>6, <1>7, <1>8 DEF StartCandidate, Typed, ServerTypeOK, HandlersTyped, UsersTyped,
                          userVars, serverVars

LEMMA AskRemoteType ==
    ASSUME Typed, NEW c \in Chats, AskRemote(c) PROVE Typed'
<1>1. work[c] \in Work /\ WatchOK(work[c]) /\ work[c].at = "ask"
  BY DEF Typed, WorkTyped, AskRemote
<1>2. work[c].session \in Sessions
  BY <1>1 DEF WatchOK
<1>3. PICK at \in {"react", "failed"}, answer \in RemoteStatus \cup {"retryable", "fatal"} :
          work' = [work EXCEPT ![c].at = at, ![c].answer = answer]
  <2>1. CASE \E f : work' = [work EXCEPT ![c].at = "failed", ![c].answer =
                  IF Retryable(ErrorOf(f, "getSessionState")) THEN "retryable" ELSE "fatal"]
    BY <2>1
  <2>2. CASE /\ Alive(work[c].session)
             /\ work' = [work EXCEPT ![c].at = "react",
                                     ![c].answer = remote[work[c].session].status]
    <3>1. remote[work[c].session].status \in RemoteStatus
      BY <1>2, <2>2 DEF Typed, ServerTypeOK, RemoteSession, Alive, RemoteStatus
    <3> QED
      BY <2>2, <3>1
  <2> QED
    BY <2>1, <2>2 DEF AskRemote
<1> DEFINE w == [work[c] EXCEPT !.at = at, !.answer = answer]
<1>4. w \in Work
  BY <1>1 DEF Work, WorkSteps
<1>5. WatchOK(w)
  BY <1>1 DEF Work, WatchOK
<1>6. work' = [work EXCEPT ![c] = w]
  BY <1>3 DEF Typed, WorkTyped
<1> HIDE DEF w
<1>7. WorkTyped'
  BY <1>4, <1>5, <1>6, WorkUpdate DEF Typed
<1> QED
  BY <1>7, WatchOnlyType DEF AskRemote, Typed

LEMMA ReactToFailureType ==
    ASSUME Typed, NEW c \in Chats, ReactToFailure(c) PROVE Typed'
<1>1. work[c] \in Work /\ WatchOK(work[c]) /\ work[c].at = "failed"
  BY DEF Typed, WorkTyped, ReactToFailure
<1>2. work[c].session \in Sessions
  BY <1>1 DEF WatchOK
<1>3. Continue(c, "free") \/ Continue(c, "conclude")
  BY DEF ReactToFailure
<1>4. WorkTyped'
  BY <1>1, <1>3, ContinueType DEF Typed, WorkSteps
<1>5. Sound(db)'
  BY <1>2, CountFailureEffect, SamePromptsSound DEF ReactToFailure, Typed, Sound, OnlySessions
<1> QED
  BY <1>4, <1>5, WatchOnlyType DEF ReactToFailure

LEMMA ReactType ==
    ASSUME Typed, NEW c \in Chats, React(c) PROVE Typed'
<1>1. work[c] \in Work /\ WatchOK(work[c]) /\ work[c].at = "react"
  BY DEF Typed, WorkTyped, React
<1>2. Continue(c, "touch") \/ Continue(c, "conclude")
  BY DEF React
<1>3. WorkTyped'
  BY <1>1, <1>2, ContinueType DEF Typed, WorkSteps
<1>4. Sound(db)'
  BY CompareAndSetSound DEF React, CancelPrompt, Typed, PromptStatus
<1> QED
  BY <1>3, <1>4, WatchOnlyType DEF React

LEMMA TouchSessionType ==
    ASSUME Typed, NEW c \in Chats, TouchSession(c) PROVE Typed'
<1>1. work[c] \in Work /\ WatchOK(work[c]) /\ work[c].at = "touch"
  BY DEF Typed, WorkTyped, TouchSession
<1>2. work[c].session \in Sessions
  BY <1>1 DEF WatchOK
<1>3. WorkTyped'
  BY ContinueType DEF Typed, WorkSteps, TouchSession
<1>4. Sound(db)'
  BY <1>2, TouchEffect, SamePromptsSound DEF TouchSession, Typed, Sound, OnlySessions
<1> QED
  BY <1>3, <1>4, WatchOnlyType DEF TouchSession

\* The event of the watchdog's own making.
Verdict(w) == [kind |-> IF w.answer = "needs-attention" THEN "needs-input" ELSE "failed",
               session |-> w.session, token |-> "none", prompt |-> None, run |-> None]

LEMMA ConcludeType ==
    ASSUME Typed, NEW c \in Chats, Conclude(c) PROVE Typed'
<1> DEFINE e == Verdict(work[c])
<1>1. work[c] \in Work /\ WatchOK(work[c]) /\ work[c].at = "conclude"
  BY DEF Typed, WorkTyped, Conclude
<1>2. e.session \in Sessions /\ e.prompt \in Prompts \cup {None}
  BY <1>1 DEF WatchOK, Verdict
<1>3. Mutate(c, e, work[c].by) /\ work[c].by \in Sweeps \cup {"webhook", "nobody"}
  BY <1>1 DEF Conclude, Verdict, Work
<1> HIDE DEF e
<1>4. Sound(db)' /\ WorkTyped'
  BY <1>2, <1>3, MutateType
<1> QED
  BY <1>4, WatchOnlyType DEF Conclude

\* Message m has other buttons.
Redrawn(k, m, b) == [k EXCEPT ![m].buttons = b]

LEMMA RedrawnType ==
    ASSUME NEW k \in Seq(Message), NEW m, NEW b,
           m \in DOMAIN k => b \in {"none", "live", "lost"}
    PROVE  /\ Redrawn(k, m, b) \in Seq(Message) /\ DOMAIN Redrawn(k, m, b) = DOMAIN k
           /\ \A n \in DOMAIN k : Redrawn(k, m, b)[n].prompt = k[n].prompt
           /\ \A n \in DOMAIN k : n # m => Redrawn(k, m, b)[n] = k[n]
           /\ m \in DOMAIN k => Redrawn(k, m, b)[m].buttons = b
<1> DEFINE row == [k[m] EXCEPT !.buttons = b]
           r == Redrawn(k, m, b)
<1>1. r = [k EXCEPT ![m] = row]
  BY DEF Redrawn
<1>2. DOMAIN k = 1..Len(k) /\ Len(k) \in Nat /\ \A n \in DOMAIN k : k[n] \in Message
  BY LenProperties, ElementOfSeq
<1>3. m \in DOMAIN k => row \in Message /\ row.prompt = k[m].prompt /\ row.buttons = b
  BY <1>2 DEF Message
<1> HIDE DEF r, row
<1>4. r \in [1..Len(k) -> Message]
  BY <1>1, <1>2, <1>3
<1>5. r \in Seq(Message)
  BY <1>2, <1>4, SeqDef
<1> QED
  BY <1>1, <1>2, <1>3, <1>4, <1>5 DEF r

LEMMA QuestionType ==
    ASSUME NEW c \in Chats, work[c].notice.show \in Prompts, NEW b \in {"live", "lost"}
    PROVE  /\ Question(c, b) \in Message /\ Question(c, b).prompt = work[c].notice.show
           /\ Question(c, b).buttons \in {"none", b}
BY DEF Question, Message

\* What the watcher and its notices do to the screen.
Asked(c, b) == keyboard' = Append(keyboard, Question(c, b))
Forgotten(c) ==
    keyboard' = Redrawn(keyboard, work[c].message,
                        IF keyboard[work[c].message].buttons = "live" THEN "lost"
                        ELSE keyboard[work[c].message].buttons)
Cleaned(c) == keyboard' = Redrawn(keyboard, work[c].notice.cleanup.message, "none")

LEMMA ScreenType ==
    ASSUME Typed, NEW c \in Chats,
           \/ keyboard' = keyboard \/ Cleaned(c) \/ Forgotten(c)
           \/ work[c].at = "show" /\ \E b \in {"live", "lost"} : Asked(c, b)
    PROVE  keyboard' \in Seq(Message)
<1>1. keyboard \in Seq(Message)
  BY DEF Typed, UsersTyped
<1>2. CASE Cleaned(c)
  BY <1>1, <1>2, RedrawnType DEF Cleaned
<1>3. CASE Forgotten(c)
  <2>0. \A m \in DOMAIN keyboard : keyboard[m] \in Message
    BY <1>1
  <2>1. \A m \in DOMAIN keyboard : keyboard[m].buttons \in {"none", "live", "lost"}
    BY <2>0 DEF Message
  <2> DEFINE b == IF keyboard[work[c].message].buttons = "live" THEN "lost"
                  ELSE keyboard[work[c].message].buttons
  <2>2. work[c].message \in DOMAIN keyboard => b \in {"none", "live", "lost"}
    BY <2>1
  <2>3. keyboard' = Redrawn(keyboard, work[c].message, b)
    BY <1>3 DEF Forgotten
  <2> HIDE DEF b
  <2> QED
    BY <1>1, <2>2, <2>3, RedrawnType
<1>4. CASE work[c].at = "show" /\ \E b \in {"live", "lost"} : Asked(c, b)
  <2>1. work[c].notice.show \in Prompts
    BY <1>4 DEF Typed, WorkTyped, WatchOK
  <2> QED
    BY <1>1, <1>4, <2>1, QuestionType, AppendProperties DEF Asked
<1> QED
  BY <1>1, <1>2, <1>3, <1>4

\* A question that is sent changes the step and the message of the work only.
LEMMA ShowKeeps ==
    ASSUME Typed, NEW c \in Chats, ShowPrompt(c)
    PROVE  /\ work'[c].at = "track" /\ work'[c].message = Len(keyboard) + 1
           /\ work'[c].notice = work[c].notice /\ work'[c].answer = work[c].answer
           /\ work'[c].session = work[c].session /\ work'[c].by = work[c].by
<1> DEFINE w == [work[c] EXCEPT !.at = "track", !.message = Len(keyboard) + 1]
<1>1. work[c] \in Work
  BY DEF Typed, WorkTyped
<1>2. work'[c] = w
  BY DEF ShowPrompt, Typed, WorkTyped
<1> QED
  BY <1>1, <1>2 DEF Work

LEMMA ShownType ==
    ASSUME Typed, NEW c \in Chats, ShowPrompt(c) PROVE WorkTyped'
<1> DEFINE m == Len(keyboard) + 1
           w == [work[c] EXCEPT !.at = "track", !.message = m]
<1>1. work[c] \in Work /\ WatchOK(work[c]) /\ work[c].at = "show"
  BY DEF Typed, WorkTyped, ShowPrompt
<1>2. m \in Nat
  BY LenProperties DEF Typed, UsersTyped
<1>3. work' = [work EXCEPT ![c] = w]
  BY DEF ShowPrompt
<1> HIDE DEF m
<1>4. w \in Work
  BY <1>1, <1>2 DEF Work, WorkSteps
<1>5. WatchOK(w)
  BY <1>1 DEF Work, WatchOK
<1> HIDE DEF w
<1> QED
  BY <1>3, <1>4, <1>5, WorkUpdate DEF Typed

LEMMA ShowPromptType ==
    ASSUME Typed, NEW c \in Chats, ShowPrompt(c) PROVE Typed'
<1>1. keyboard' \in Seq(Message)
  BY ScreenType DEF ShowPrompt, Asked
<1> QED
  BY <1>1, ShownType DEF ShowPrompt, NoticeOnly, Typed, ServerTypeOK, HandlersTyped, QueuesTyped,
                         UsersTyped, serverVars

LEMMA TrackPromptMessageType ==
    ASSUME Typed, NEW c \in Chats, TrackPromptMessage(c) PROVE Typed'
<1>1. work[c] \in Work /\ WatchOK(work[c]) /\ work[c].at = "track"
  BY DEF Typed, WorkTyped, TrackPromptMessage
<1>2. work[c].notice.show \in Prompts
  BY <1>1 DEF WatchOK
<1>3. Continue(c, "free")
      \/ (Continue(c, "clean") /\ work[c].notice.cleanup.prompt \in Prompts)
  BY <1>1 DEF TrackPromptMessage, AfterTrack, WatchOK, NoticeOK
<1>4. WorkTyped'
  BY <1>1, <1>3, ContinueType DEF Typed, WorkSteps
<1>5. Sound(db)'
  BY <1>1, <1>2, TrackMessageEffect DEF TrackPromptMessage, Typed, Work
<1> QED
  BY <1>4, <1>5 DEF TrackPromptMessage, NoticeOnly, Typed, ServerTypeOK, HandlersTyped,
                    QueuesTyped, UsersTyped, serverVars

LEMMA CleanKeyboardType ==
    ASSUME Typed, NEW c \in Chats, CleanKeyboard(c) PROVE Typed'
<1>1. work[c] \in Work /\ WatchOK(work[c]) /\ work[c].at = "clean"
  BY DEF Typed, WorkTyped, CleanKeyboard
<1>2. work[c].notice.cleanup.prompt \in Prompts
  BY <1>1 DEF WatchOK
<1>3. WorkTyped'
  BY <1>1, <1>2, ContinueType DEF Typed, WorkSteps, CleanKeyboard
<1>4. keyboard' \in Seq(Message)
  BY ScreenType DEF CleanKeyboard, Cleaned, Redrawn
<1> QED
  BY <1>3, <1>4 DEF CleanKeyboard, NoticeOnly, Typed, ServerTypeOK, HandlersTyped, QueuesTyped,
              UsersTyped, serverVars

LEMMA TrackPromptCleanupType ==
    ASSUME Typed, NEW c \in Chats, TrackPromptCleanup(c) PROVE Typed'
<1>1. work[c] \in Work /\ WatchOK(work[c]) /\ work[c].at = "untrack"
  BY DEF Typed, WorkTyped, TrackPromptCleanup
<1>2. work[c].notice.cleanup.prompt \in Prompts
  BY <1>1 DEF WatchOK
<1>3. Continue(c, "free") \/ Continue(c, "say")
  BY DEF TrackPromptCleanup, AfterUntrack
<1>4. WorkTyped'
  BY <1>1, <1>3, ContinueType DEF Typed, WorkSteps
<1>5. Sound(db)'
  BY <1>2, TrackCleanupEffect DEF TrackPromptCleanup, Typed
<1> QED
  BY <1>4, <1>5 DEF TrackPromptCleanup, NoticeOnly, Typed, ServerTypeOK, HandlersTyped,
                    QueuesTyped, UsersTyped, serverVars

LEMMA SayType ==
    ASSUME Typed, NEW c \in Chats, Say(c) PROVE Typed'
<1>1. WorkTyped'
  BY ContinueType DEF Typed, WorkSteps, Say
<1> QED
  BY <1>1 DEF Say, NoticeOnly, Typed, ServerTypeOK, HandlersTyped, QueuesTyped,
              UsersTyped, serverVars

LEMMA NoticeFailsType ==
    ASSUME Typed, NEW c \in Chats, NoticeFails(c) \/ TrackFails(c) PROVE Typed'
<1>1. NoticeEnds(c)
  BY DEF NoticeFails, TrackFails
<1>2. WorkTyped'
  BY <1>1, ContinueType DEF Typed, WorkSteps, NoticeEnds
<1>3. keyboard' \in Seq(Message)
  BY ScreenType DEF NoticeFails, TrackFails, Asked, Forgotten, Redrawn
<1> QED
  BY <1>1, <1>2, <1>3 DEF NoticeEnds, NoticeOnly, Typed, ServerTypeOK, HandlersTyped,
              QueuesTyped, UsersTyped, serverVars

LEMMA WatchStepType ==
    ASSUME Typed, NEW c \in Chats, WatchStep(c) PROVE Typed'
BY AskRemoteType, ReactToFailureType, ReactType, TouchSessionType, ConcludeType,
   ShowPromptType, TrackPromptMessageType, CleanKeyboardType, TrackPromptCleanupType,
   SayType, NoticeFailsType
   DEF WatchStep

LEMMA BotStepType == ASSUME Typed, BotStep PROVE Typed'
BY BeginType, PressType, HandlerStepType, ArriveType, LoseType, StartCandidateType,
   ApplyWebhookType, WatchStepType
   DEF BotStep, BeginCandidate

LEMMA TimerStepType == ASSUME Typed, TimerStep PROVE Typed'
BY StartSweepType DEF TimerStep, BeginSweep

LEMMA WorldStepType == ASSUME Typed, WorldStep PROVE Typed'
<1>1. ServerTypeOK'
  BY ServerStepType DEF WorldStep, Typed
<1> QED
  BY <1>1 DEF WorldStep, Typed, HandlersTyped, WorkTyped, QueuesTyped, UsersTyped, Sound,
              botVars, userVars

LEMMA InitTyped == Init => Typed
<1> SUFFICES ASSUME Init PROVE Typed
  OBVIOUS
<1>1. Sound(db)
  <2>1. IdleState \in State /\ NoSession \in Session /\ NoPrompt \in Prompt
    BY SessionRows DEF IdleState, State, Modes, NoPrompt, Prompt, PromptStatus
  <2>2. EmptyStore \in StoreType
    BY <2>1 DEF EmptyStore, StoreType, Binding, Task, TaskStatus
  <2> QED
    BY <2>2, NoneIsNoId DEF Init, Sound, Placed, EmptyStore, NoPrompt
<1>2. ServerTypeOK
  BY DEF Init, ServerInit, ServerTypeOK, RemoteSession
<1> QED
  BY <1>1, <1>2, FreeOK, IdleOK DEF Init, Typed, HandlersTyped, WorkTyped, QueuesTyped, UsersTyped

LEMMA StutterTyped == Typed /\ UNCHANGED vars => Typed'
BY DEF Typed, vars, botVars, userVars, serverVars, HandlersTyped, WorkTyped, QueuesTyped,
       UsersTyped, Sound, ServerTypeOK

\* Every variable keeps its type, and a handler or the watcher has at each of
\* its steps the ids that the step works on.
THEOREM AlwaysTyped == Spec => []Typed
<1>1. Typed /\ [Next]_vars => Typed'
  BY BotStepType, TimerStepType, WorldStepType, StutterTyped DEF Next
<1> QED
  BY <1>1, InitTyped, PTL DEF Spec

THEOREM Typing == Spec => []TypeOK
BY AlwaysTyped, TypedType, PTL

-----------------------------------------------------------------------------
(* Steps that leave answers alone                                          *)

\* Whoever gives an answer goes on giving it, and nobody begins.
KeepsAnswering ==
    \A g \in Handlers : op[g].at \in Answering \/ op'[g].at \in Answering => op'[g] = op[g]

\* Prompts and what is said and heard of them stay.
Aside ==
    /\ SamePrompts(db, db') /\ KeepsAnswering
    /\ UNCHANGED <<inbox, work, keyboard, answers, asked>>
    /\ \A e \in wire' : e \in wire \/ e.prompt = None

LEMMA MoveAside ==
    ASSUME Typed, NEW h \in Handlers, op[h].at \notin Answering,
           NEW o, o.at \notin Answering, op' = [op EXCEPT ![h] = o]
    PROVE  KeepsAnswering
BY DEF Typed, HandlersTyped, KeepsAnswering

LEMMA DoneAside ==
    ASSUME Typed, NEW h \in Handlers, op[h].at \notin Answering, Done(h)
    PROVE  KeepsAnswering
<1>1. Free.at \notin Answering
  BY DEF Free, Answering
<1> QED
  BY <1>1, MoveAside DEF Done

LEMMA GoesAside ==
    ASSUME Typed, NEW h \in Handlers, op[h].at \notin Answering,
           NEW at, at \notin Answering, Goes(h, at)
    PROVE  KeepsAnswering
BY DEF Typed, HandlersTyped, KeepsAnswering, Goes, Handler

LEMMA FailsAside ==
    ASSUME Typed, NEW h \in Handlers, op[h].at \notin Answering, NEW f, Fails(h, f, "free")
    PROVE  KeepsAnswering
<1>1. CASE Done(h)
  BY <1>1, DoneAside
<1>2. CASE op' = [op EXCEPT ![h].posts = op[h].posts + 1]
  BY <1>2 DEF Typed, HandlersTyped, KeepsAnswering, Handler
<1> QED
  BY <1>1, <1>2 DEF Fails

LEMMA ReaderAside ==
    ASSUME HandlerOnly, KeepsAnswering, SamePrompts(db, db') PROVE Aside
BY DEF Aside, HandlerOnly, userVars, serverVars

LEMMA SameStore == db' = db => SamePrompts(db, db')
BY DEF SamePrompts

LEMMA FreeAt == ASSUME NEW h \in Handlers, op[h] = Free PROVE op[h].at = "free"
BY DEF Free

LEMMA BeginAside ==
    ASSUME Typed, NEW h \in Handlers, NEW c \in Chats,
           \/ \E kind \in Commands : Begin(h, c, kind)
           \/ \E p \in Prompts : Press(h, c, p)
    PROVE  Aside
<1>1. op[h].at = "free" /\ HandlerOnly /\ db' = db
  BY FreeAt DEF Begin, Press, MayBegin
<1>2. KeepsAnswering
  <2>1. CASE \E p \in Prompts : Press(h, c, p)
    <3>1. PICK p \in Prompts : op' = [op EXCEPT ![h] =
             [Free EXCEPT !.kind = "button", !.chat = c, !.prompt = p, !.at = "lookup"]]
      BY <2>1 DEF Press
    <3> DEFINE o == [Free EXCEPT !.kind = "button", !.chat = c, !.prompt = p, !.at = "lookup"]
    <3>2. o.at = "lookup"
      BY DEF Free
    <3>3. op' = [op EXCEPT ![h] = o]
      BY <3>1
    <3> HIDE DEF o
    <3> QED
      BY <1>1, <3>2, <3>3, MoveAside DEF Answering
  <2>2. CASE \E kind \in Commands : Begin(h, c, kind)
    <3> DEFINE b == db.binding[c]
               at == IF b.project # None /\ b.session # None THEN "ask" ELSE "decide"
    <3>1. PICK kind \in Commands : op' = [op EXCEPT ![h] =
             [Free EXCEPT !.kind = kind, !.chat = c, !.project = b.project,
                          !.session = b.session, !.at = at]]
      BY <2>2 DEF Begin
    <3>2. at \in {"ask", "decide"}
      OBVIOUS
    <3> HIDE DEF at, b
    <3> DEFINE o == [Free EXCEPT !.kind = kind, !.chat = c, !.project = b.project,
                                 !.session = b.session, !.at = at]
    <3>3. o.at = at
      BY DEF Free
    <3>4. op' = [op EXCEPT ![h] = o]
      BY <3>1
    <3> HIDE DEF o
    <3> QED
      BY <1>1, <3>2, <3>3, <3>4, MoveAside DEF Answering
  <2> QED
    BY <2>1, <2>2
<1> QED
  BY <1>1, <1>2, ReaderAside, SameStore

LEMMA AskStatusAside == ASSUME Typed, NEW h \in Handlers, AskStatus(h) PROVE Aside
<1>1. op[h].at = "ask" /\ op \in [Handlers -> Handler]
  BY DEF AskStatus, Typed, HandlersTyped
<1>2. \/ Goes(h, "decide")
      \/ op' = [op EXCEPT ![h].reply = AnswerOf(op[h].session), ![h].at = "learn"]
  BY DEF AskStatus
<1>3. KeepsAnswering
  <2>1. CASE op' = [op EXCEPT ![h].reply = AnswerOf(op[h].session), ![h].at = "learn"]
    BY <1>1, <2>1 DEF KeepsAnswering, Answering, Handler
  <2> QED
    BY <1>1, <1>2, <2>1, GoesAside DEF Answering
<1> QED
  BY <1>3, ReaderAside, SameStore DEF AskStatus

LEMMA LearnAside == ASSUME Typed, NEW h \in Handlers, Learn(h) PROVE Aside
<1>1. op[h] \in Handler /\ HandlerOK(op[h]) /\ op[h].at = "learn" /\ op \in [Handlers -> Handler]
  BY DEF Typed, HandlersTyped, Learn
<1>2. op[h].chat \in Chats /\ op[h].session \in Sessions /\ op[h].reply \in Reply
  BY <1>1 DEF HandlerOK, Handler
<1>3. SamePrompts(db, db')
  BY <1>2, StatusCommitEffect DEF Learn, Typed, Sound
<1>4. KeepsAnswering
  BY <1>1 DEF Learn, KeepsAnswering, Answering, Handler
<1> QED
  BY <1>3, <1>4, ReaderAside DEF Learn

LEMMA DecideAside == ASSUME Typed, NEW h \in Handlers, Decide(h) PROVE Aside
<1> DEFINE b == db.binding[op[h].chat]
           next == Route(op[h].kind, b.project, b.session, db.state[op[h].chat].mode)
           o == [op[h] EXCEPT !.at = next, !.project = b.project, !.session = b.session]
<1>1. op[h].at = "decide" /\ op[h].kind \in AllCommands \ {"button"} /\ op[h] \in Handler
  BY DEF Decide, Typed, HandlersTyped, HandlerOK
<1>2. next \in {"free", "load", "lookup"}
  BY <1>1, RouteType
<1>3. Done(h) \/ op' = [op EXCEPT ![h] = o]
  BY DEF Decide
<1> HIDE DEF next, b
<1>4. o.at = next
  BY <1>1 DEF Handler
<1> HIDE DEF o
<1>5. KeepsAnswering
  BY <1>1, <1>2, <1>3, <1>4, DoneAside, MoveAside DEF Answering
<1> QED
  BY <1>5, ReaderAside, SameStore DEF Decide

LEMMA LookupAside ==
    ASSUME Typed, NEW h \in Handlers, LookupByText(h) \/ LookupByButton(h) PROVE Aside
<1>1. op[h].at = "lookup" /\ op \in [Handlers -> Handler]
  BY DEF LookupByText, LookupByButton, Typed, HandlersTyped
<1>2. \/ Done(h) \/ Goes(h, "load") \/ Goes(h, "submit")
      \/ \E p : op' = [op EXCEPT ![h].prompt = p, ![h].at = "submit"]
  BY DEF LookupByText, LookupByButton
<1>3. KeepsAnswering
  <2>1. CASE \E p : op' = [op EXCEPT ![h].prompt = p, ![h].at = "submit"]
    BY <1>1, <2>1 DEF KeepsAnswering, Answering, Handler
  <2> QED
    BY <1>1, <1>2, <2>1, GoesAside, DoneAside DEF Answering
<1> QED
  BY <1>3, ReaderAside, SameStore DEF LookupByText, LookupByButton

LEMMA LoadAside ==
    ASSUME Typed, NEW h \in Handlers, LoadSelect(h) \/ LoadOther(h) \/ LoadRefused(h)
    PROVE  Aside
<1>1. op[h].at = "load" /\ op[h] \in Handler
  BY DEF LoadSelect, LoadOther, LoadRefused, Typed, HandlersTyped
<1>3. KeepsAnswering
  <2>1. CASE LoadSelect(h)
    <3>1. PICK p \in Projects : op' = [op EXCEPT ![h] =
             [op[h] EXCEPT !.project = p, !.session = None,
                           !.at = IF p \in db.projects THEN "commit" ELSE "call"]]
      BY <2>1 DEF LoadSelect
    <3> DEFINE at == IF p \in db.projects THEN "commit" ELSE "call"
    <3>2. at \in {"commit", "call"}
      OBVIOUS
    <3> DEFINE o == [op[h] EXCEPT !.project = p, !.session = None, !.at = at]
    <3>3. op' = [op EXCEPT ![h] = o]
      BY <3>1
    <3> HIDE DEF at
    <3>4. o.at = at
      BY <1>1 DEF Handler
    <3> HIDE DEF o
    <3> QED
      BY <1>1, <3>2, <3>3, <3>4, MoveAside DEF Answering
  <2>2. CASE LoadOther(h)
    BY <1>1, <2>2, LoadOtherMoves, MoveAside DEF Answering
  <2>3. CASE LoadRefused(h)
    BY <1>1, <2>3, DoneAside DEF LoadRefused, Answering
  <2> QED
    BY <2>1, <2>2, <2>3
<1> QED
  BY <1>3, ReaderAside, SameStore DEF LoadSelect, LoadOther, LoadRefused

LEMMA ReportsAside ==
    ASSUME NEW s, NEW token, NEW run, NEW kinds, NEW e \in Reports(s, token, run, kinds)
    PROVE  e.prompt = None
BY DEF Reports

LEMMA ServerCallAside ==
    ASSUME NEW s, NEW token,
           \/ ServerCreate(s) \/ ServerCancel(s) \/ ServerReply(s, token)
           \/ ServerAsks(s, token) \/ ServerRun(s, token) \/ ServerResume(s)
           \/ RunCrashes(s) \/ \E kind \in EndKinds : RunEnds(s, kind)
           \/ UNCHANGED serverVars
    PROVE  asked' = asked /\ \A e \in wire' : e \in wire \/ e.prompt = None
<1>1. CASE wire' = wire /\ asked' = asked
  BY <1>1
<1>2. CASE asked' = asked /\ \E t, k, r : wire' = wire \cup Reports(s, t, r, k)
  BY <1>2, ReportsAside
<1> QED
  BY <1>1, <1>2 DEF ServerCreate, ServerCancel, ServerReply, ServerAsks, ServerRun,
                    ServerResume, RunCrashes, RunEnds, serverVars

LEMMA CallAside ==
    ASSUME Typed, NEW h \in Handlers, Call(h) \/ CallFails(h) PROVE Aside
<1>1. op[h].at = "call" /\ op[h] \in Handler
  BY DEF Call, CallFails, Typed, HandlersTyped
<1>2. CASE CallFails(h)
  <2>1. KeepsAnswering
    BY <1>1, <1>2, FailsAside DEF CallFails, Answering
  <2> QED
    BY <1>2, <2>1, ReaderAside, SameStore DEF CallFails
<1>3. CASE Call(h)
  <2>1. PICK s \in Sessions \cup {None}, reply \in Reply :
          /\ ServerDoes(h, s, reply)
          /\ \/ op' = [op EXCEPT ![h] =
                       [op[h] EXCEPT !.session = s, !.reply = reply, !.at = "commit"]]
             \/ \E f \in {Timeout, Broken} : Fails(h, f, "free")
    BY <1>3 DEF Call
  <2>2. [op[h] EXCEPT !.session = s, !.reply = reply, !.at = "commit"].at = "commit"
    BY <1>1 DEF Handler
  <2>3. KeepsAnswering
    BY <1>1, <2>1, <2>2, MoveAside, FailsAside DEF Answering
  <2>4. \/ ServerCreate(s) \/ ServerCancel(s) \/ ServerReply(s, op[h].token)
        \/ ServerAsks(s, op[h].token) \/ ServerRun(s, op[h].token) \/ UNCHANGED serverVars
    BY <2>1 DEF ServerDoes
  <2> QED
    BY <1>3, <2>3, <2>4, ServerCallAside, SameStore DEF Call, Aside
<1> QED
  BY <1>2, <1>3

LEMMA CommitAside == ASSUME Typed, NEW h \in Handlers, Commit(h) PROVE Aside
<1>1. op[h].at = "commit"
  BY DEF Commit
<1>2. KeepsAnswering
  BY <1>1, DoneAside DEF Commit, Answering
<1> QED
  BY <1>2, CommitStore, ReaderAside DEF Commit

\* Of a handler's steps only those of submitPendingPrompt touch a prompt.
LEMMA HandlerStepAside ==
    ASSUME Typed, NEW h \in Handlers, HandlerStep(h)
    PROVE  Aside \/ Submit(h) \/ Bridge(h) \/ Revert(h) \/ Resolve(h)
BY AskStatusAside, LearnAside, DecideAside, LookupAside, LoadAside, CallAside, CommitAside
   DEF HandlerStep

LEMMA UnheldAside ==
    ASSUME NEW e \in wire, ArriveUnknown(e) \/ Lose(e) PROVE Aside
BY SameStore DEF ArriveUnknown, Lose, Aside, KeepsAnswering, botVars, userVars

LEMMA TimerAside == ASSUME TimerStep PROVE Aside
BY SameStore DEF TimerStep, BeginSweep, StartSweep, Aside, KeepsAnswering, userVars, serverVars

LEMMA WorldAside ==
    ASSUME WorldStep
    PROVE  \/ Aside
           \/ \E s \in Sessions, p \in (Prompts \ asked) \cup {None} : RunAsks(s, p)
<1>1. PICK s \in Sessions :
        \/ \E kind \in EndKinds : RunEnds(s, kind)
        \/ RunCrashes(s)
        \/ \E p \in (Prompts \ asked) \cup {None} : RunAsks(s, p)
        \/ ServerResume(s)
  BY DEF WorldStep, ServerStep, AnsweredAtPc
<1>2. CASE \/ \E kind \in EndKinds : RunEnds(s, kind)
           \/ RunCrashes(s) \/ ServerResume(s)
  BY <1>2, ServerCallAside, SameStore DEF WorldStep, Aside, KeepsAnswering, botVars, userVars
<1> QED
  BY <1>1, <1>2

LEMMA StutterAside == ASSUME UNCHANGED vars PROVE Aside
BY SameStore DEF Aside, KeepsAnswering, vars, botVars, userVars, serverVars

\* The steps that are about prompts.
PromptStep ==
    \/ \E h \in Handlers : Submit(h) \/ Bridge(h) \/ Revert(h) \/ Resolve(h)
    \/ \E e \in wire : Arrive(e)
    \/ \E c \in Chats : BeginCandidate(c) \/ ApplyWebhook(c) \/ WatchStep(c)
    \/ \E s \in Sessions, p \in (Prompts \ asked) \cup {None} :
          RunAsks(s, p) /\ UNCHANGED <<botVars, userVars>>

LEMMA BotStepAside == ASSUME Typed, BotStep PROVE Aside \/ PromptStep
BY BeginAside, HandlerStepAside, UnheldAside DEF BotStep, PromptStep

LEMMA StepAside == ASSUME Typed, [Next]_vars PROVE Aside \/ PromptStep
BY BotStepAside, TimerAside, WorldAside, StutterAside DEF Next, PromptStep, WorldStep

-----------------------------------------------------------------------------
(* Steps that are about prompts                                            *)

\* No prompt becomes submitted or resolved.
NoSubmission(d, e) ==
    \A p \in Prompts :
        e.prompt[p].status \in {"submitted", "resolved"} =>
            e.prompt[p].status = d.prompt[p].status
KeepsMessages(d, e) == \A p \in Prompts : e.prompt[p].message = d.prompt[p].message

LEMMA SameCloses == ASSUME NEW d, NEW e, SamePrompts(d, e) PROVE ClosesPrompts(d, e)
BY DEF SamePrompts, ClosesPrompts, KeepsPlaces, SamePlace, Closed

LEMMA ClosesNothingNew ==
    ASSUME NEW d, NEW e, ClosesPrompts(d, e) PROVE NoSubmission(d, e) /\ KeepsMessages(d, e)
BY DEF ClosesPrompts, KeepsPlaces, SamePlace, Closed, NoSubmission, KeepsMessages

LEMMA RaisesNothingNew ==
    ASSUME NEW d, NEW e, NEW p, NEW s, NEW c, RaisesOne(d, e, p, s, c)
    PROVE  NoSubmission(d, e) /\ KeepsMessages(d, e)
BY DEF RaisesOne, SamePlace, Closed, NoSubmission, KeepsMessages

LEMMA TracksNothingNew ==
    ASSUME NEW d, NEW e, KeepsStatus(d, e) PROVE NoSubmission(d, e)
BY DEF KeepsStatus, NoSubmission

LEMMA InvalidatesNothingNew ==
    ASSUME NEW d, NEW e, KeepsPlaces(d, e), NEW p, NEW old, MovesOne(d, e, p, old, "invalidated")
    PROVE  NoSubmission(d, e) /\ KeepsMessages(d, e)
BY DEF KeepsPlaces, SamePlace, MovesOne, NoSubmission, KeepsMessages

\* The watcher's steps on chat c.
Watching(c) == BeginCandidate(c) \/ WatchStep(c)

LEMMA WatchFrame ==
    ASSUME Typed, NEW c \in Chats, Watching(c)
    PROVE  /\ UNCHANGED <<op, inbox, answers, serverVars>>
           /\ \A x \in Chats : x # c => work'[x] = work[x]
           /\ work[c].at = "track" => TrackPromptMessage(c) \/ TrackFails(c)
           /\ \/ keyboard' = keyboard \/ ShowPrompt(c) \/ CleanKeyboard(c)
              \/ NoticeFails(c) \/ TrackFails(c)
<1>1. CASE BeginCandidate(c)
  <2>1. PICK v \in Sweeps : \E k \in sweep[v] : k.chat = c /\ StartCandidate(v, k)
    BY <1>1 DEF BeginCandidate
  <2>2. work[c].at # "track"
    BY <2>1 DEF StartCandidate, Idle
  <2> QED
    BY <2>1, <2>2 DEF StartCandidate, userVars, Typed, WorkTyped
<1>2. CASE \/ AskRemote(c) \/ ReactToFailure(c) \/ React(c) \/ TouchSession(c)
  <2>1. WatchOnly /\ work[c].at # "track"
    BY <1>2 DEF AskRemote, ReactToFailure, React, TouchSession
  <2>2. \A x \in Chats : x # c => work'[x] = work[x]
    BY <1>2 DEF AskRemote, ReactToFailure, React, TouchSession, Continue, Typed, WorkTyped
  <2> QED
    BY <2>1, <2>2 DEF WatchOnly, userVars
<1>3. CASE Conclude(c)
  <2>1. WatchOnly /\ work[c].at # "track"
    BY <1>3 DEF Conclude
  <2>2. \E e, by : Mutate(c, e, by)
    BY <1>3 DEF Conclude
  <2>3. \A x \in Chats : x # c => work'[x] = work[x]
    BY <2>2, MutateCases DEF Mutates, Continue, Typed, WorkTyped
  <2> QED
    BY <2>1, <2>3 DEF WatchOnly, userVars
<1>4. CASE \/ ShowPrompt(c) \/ TrackPromptMessage(c) \/ CleanKeyboard(c)
           \/ TrackPromptCleanup(c) \/ Say(c) \/ NoticeFails(c) \/ TrackFails(c)
  <2>1. \A x \in Chats : x # c => work'[x] = work[x]
    BY <1>4 DEF ShowPrompt, TrackPromptMessage, CleanKeyboard, TrackPromptCleanup, Say,
                NoticeFails, TrackFails, NoticeEnds, Continue, Typed, WorkTyped
  <2>2. /\ NoticeOnly
        /\ \/ keyboard' = keyboard \/ ShowPrompt(c) \/ CleanKeyboard(c)
           \/ NoticeFails(c) \/ TrackFails(c)
    BY <1>4 DEF ShowPrompt, TrackPromptMessage, CleanKeyboard, TrackPromptCleanup, Say,
                NoticeFails, TrackFails, NoticeEnds
  <2>3. work[c].at = "track" => TrackPromptMessage(c) \/ TrackFails(c)
    BY <1>4 DEF ShowPrompt, CleanKeyboard, TrackPromptCleanup, Say, NoticeFails, TrackFails, NoticeEnds
  <2> QED
    BY <2>1, <2>2, <2>3 DEF NoticeOnly
<1> QED
  BY <1>1, <1>2, <1>3, <1>4 DEF Watching, WatchStep

\* The watcher's own verdict comes with no prompt.
LEMMA ConcludeStep ==
    ASSUME Typed, NEW c \in Chats, Conclude(c)
    PROVE  \/ db' = db /\ Continue(c, "free")
           \/ /\ EventStep(c, Verdict(work[c]), work[c].by)
              /\ Accepts(db, c, Verdict(work[c]), SourceOf(work[c].by))
<1> DEFINE e == Verdict(work[c])
<1>1. work[c] \in Work /\ WatchOK(work[c]) /\ work[c].at = "conclude"
  BY DEF Typed, WorkTyped, Conclude
<1>2. e.session \in Sessions /\ e.prompt \in Prompts \cup {None}
  BY <1>1 DEF WatchOK, Verdict
<1>3. Mutate(c, e, work[c].by)
  BY DEF Conclude, Verdict
<1> HIDE DEF e
<1>4. CASE Mutates(c, e, work[c].by)
  BY <1>2, <1>4, MutatesEffect DEF Typed, Mutates, e
<1> QED
  BY <1>3, <1>4, MutateCases

LEMMA WatchPrompts ==
    ASSUME Typed, NEW c \in Chats, Watching(c)
    PROVE  \/ ClosesPrompts(db, db')
           \/ TrackPromptMessage(c) \/ TrackPromptCleanup(c)
<1>1. CASE BeginCandidate(c)
  BY <1>1, CompareAndSetCloses DEF BeginCandidate, StartCandidate, ExpirePrompt, Typed
<1>2. CASE AskRemote(c) \/ ShowPrompt(c) \/ CleanKeyboard(c) \/ Say(c) \/ NoticeFails(c) \/ TrackFails(c)
  BY <1>2, SameStore, SameCloses DEF AskRemote, ShowPrompt, CleanKeyboard, Say, NoticeFails, TrackFails, NoticeEnds
<1>3. CASE ReactToFailure(c) \/ TouchSession(c)
  <2>1. work[c].session \in Sessions
    BY <1>3 DEF ReactToFailure, TouchSession, Typed, WorkTyped, WatchOK
  <2> QED
    BY <1>3, <2>1, CountFailureEffect, TouchEffect, SameCloses
       DEF ReactToFailure, TouchSession, OnlySessions, Typed, Sound
<1>4. CASE React(c)
  BY <1>4, CompareAndSetCloses, SameStore, SameCloses DEF React, CancelPrompt, Typed
<1>5. CASE Conclude(c)
  BY <1>5, ConcludeStep, SameStore, SameCloses, NoneIsNoId DEF EventStep, Verdict
<1> QED
  BY <1>1, <1>2, <1>3, <1>4, <1>5 DEF Watching, WatchStep

LEMMA TrackPromptMessageStep ==
    ASSUME Typed, NEW c \in Chats, TrackPromptMessage(c)
    PROVE  /\ work[c].notice.show \in Prompts
           /\ SetsMessage(db, db', work[c].notice.show, work[c].message)
           /\ KeepsStatus(db, db')
<1>1. work[c].notice.show \in Prompts /\ work[c].message \in Nat
  BY DEF TrackPromptMessage, Typed, WorkTyped, WatchOK, Work
<1> QED
  BY <1>1, TrackMessageEffect DEF TrackPromptMessage, Typed

LEMMA TrackPromptCleanupStep ==
    ASSUME Typed, NEW c \in Chats, TrackPromptCleanup(c)
    PROVE  LET p == work[c].notice.cleanup.prompt IN
           /\ p \in Prompts
           /\ KeepsPlaces(db, db')
           /\ MovesOne(db, db', p, db.prompt[p].status, "invalidated")
<1>1. work[c].notice.cleanup.prompt \in Prompts
  BY DEF TrackPromptCleanup, Typed, WorkTyped, WatchOK
<1> QED
  BY <1>1, TrackCleanupEffect DEF TrackPromptCleanup, Typed

\* A webhook event raises its prompt or closes prompts.
LEMMA ApplyWebhookStep ==
    ASSUME Typed, NEW c \in Chats, ApplyWebhook(c)
    PROVE  LET e == Head(inbox[c]) IN
           /\ e \in Event
           /\ \/ db' = db /\ Continue(c, "free")
              \/ EventStep(c, e, "webhook") /\ Accepts(db, c, e, "webhook")
           /\ inbox' = [inbox EXCEPT ![c] = Tail(inbox[c])]
           /\ work[c].at # "track"
           /\ UNCHANGED <<op, sweep, userVars, serverVars>>
           /\ \A x \in Chats : x # c => work'[x] = work[x]
<1> DEFINE e == Head(inbox[c])
<1>1. inbox[c] \in Seq(Event) /\ inbox[c] # <<>>
  BY DEF Typed, QueuesTyped, ApplyWebhook
<1>2. e \in Event
  BY <1>1, HeadTailProperties
<1>3. e.session \in Sessions /\ e.prompt \in Prompts \cup {None}
  BY <1>2 DEF Event
<1>4. Mutate(c, e, "webhook")
  BY DEF ApplyWebhook
<1>5. work[c].at # "track"
  BY DEF ApplyWebhook, Idle
<1> HIDE DEF e
<1>6. \/ db' = db /\ Continue(c, "free")
      \/ EventStep(c, e, "webhook") /\ Accepts(db, c, e, "webhook")
  BY <1>3, <1>4, MutateCases, MutatesEffect DEF Typed, Mutates, SourceOf
<1>7. \A x \in Chats : x # c => work'[x] = work[x]
  BY <1>6 DEF Continue, EventStep, Typed, WorkTyped
<1> QED
  BY <1>2, <1>5, <1>6, <1>7 DEF ApplyWebhook, e

LEMMA ApplyWebhookPrompts ==
    ASSUME Typed, NEW c \in Chats, ApplyWebhook(c)
    PROVE  LET e == Head(inbox[c]) IN
           \/ ClosesPrompts(db, db')
           \/ e.prompt \in Prompts /\ RaisesOne(db, db', e.prompt, e.session, c)
BY ApplyWebhookStep, SameStore, SameCloses DEF EventStep

\* Whatever the watcher does, no prompt becomes submitted or resolved.
LEMMA WatchNothingNew ==
    ASSUME Typed, NEW c \in Chats, Watching(c) \/ ApplyWebhook(c)
    PROVE  /\ NoSubmission(db, db') /\ (TrackPromptMessage(c) \/ KeepsMessages(db, db'))
           /\ UNCHANGED <<op, answers>>
<1>1. CASE ApplyWebhook(c)
  BY <1>1, ApplyWebhookStep, ApplyWebhookPrompts, ClosesNothingNew, RaisesNothingNew
     DEF userVars
<1>2. CASE Watching(c)
  <2>1. UNCHANGED <<op, answers>>
    BY <1>2, WatchFrame
  <2>2. CASE ClosesPrompts(db, db')
    BY <2>1, <2>2, ClosesNothingNew
  <2>3. CASE TrackPromptMessage(c)
    BY <2>1, <2>3, TrackPromptMessageStep, TracksNothingNew
  <2>4. CASE TrackPromptCleanup(c)
    BY <2>1, <2>4, TrackPromptCleanupStep, InvalidatesNothingNew
  <2> QED
    BY <1>2, <2>2, <2>3, <2>4, WatchPrompts
<1> QED
  BY <1>1, <1>2

\* The handler's steps of submitPendingPrompt.
Others(h) == \A g \in Handlers : g # h => op'[g] = op[g]

LEMMA SubmitStep ==
    ASSUME Typed, NEW h \in Handlers, Submit(h)
    PROVE  \/ Aside
           \/ LET p == op[h].prompt IN
              /\ MaySubmit(db, op[h].chat, p) /\ p \in Prompts /\ Others(h)
              /\ KeepsPlaces(db, db') /\ MovesOne(db, db', p, "active", "submitted")
              /\ op[h].at = "submit" /\ op'[h].at = "bridge" /\ op'[h].prompt = p
              /\ HandlerOnly
<1>1. op[h] \in Handler /\ op[h].at = "submit" /\ op[h].prompt \in Prompts
  BY DEF Typed, HandlersTyped, HandlerOK, Submit
<1>2. CASE MaySubmit(db, op[h].chat, op[h].prompt)
  <2>1. /\ KeepsPlaces(db, db') /\ MovesOne(db, db', op[h].prompt, "active", "submitted")
    BY <1>1, <1>2, SubmitPreflightEffect DEF Submit, Typed
  <2>2. /\ Others(h) /\ op'[h].at = "bridge" /\ op'[h].prompt = op[h].prompt
    BY <1>1, <1>2 DEF Submit, Typed, HandlersTyped, Handler, Others
  <2> QED
    BY <1>1, <1>2, <2>1, <2>2 DEF Submit
<1>3. CASE ~MaySubmit(db, op[h].chat, op[h].prompt)
  <2>1. Done(h) /\ db' = db /\ HandlerOnly
    BY <1>3 DEF Submit
  <2> QED
    BY <1>1, <2>1, DoneAside, ReaderAside, SameStore DEF Answering
<1> QED
  BY <1>2, <1>3

\* The server is asked, and what is known of the answer decides how it goes on.
LEMMA BridgeStep ==
    ASSUME Typed, NEW h \in Handlers, Bridge(h)
    PROVE  LET p == op[h].prompt IN
           /\ p \in Prompts /\ Others(h) /\ db' = db
           /\ op[h].at = "bridge" /\ op'[h].at \in Answering /\ op'[h].prompt = p
           /\ answers' = answers \/ answers' = [answers EXCEPT ![p] = Once(answers[p])]
           /\ op'[h].at = "resolve" => answers'[p] > 0
           /\ UNCHANGED <<inbox, sweep, work, keyboard, told>>
           /\ asked' = asked /\ \A e \in wire' : e \in wire \/ e.prompt = None
<1> DEFINE s == op[h].session
           p == op[h].prompt
<1>1. op[h] \in Handler /\ op[h].at = "bridge" /\ p \in Prompts
  BY DEF Typed, HandlersTyped, HandlerOK, Answering, Bridge
<1>2. answers' = answers \/ answers' = [answers EXCEPT ![p] = Once(answers[p])]
  BY DEF Bridge
<1>3. /\ Others(h) /\ op'[h].at \in Answering /\ op'[h].prompt = p
      /\ op'[h].at # "resolve" \/ Goes(h, "resolve")
  <2>1. CASE Goes(h, "resolve")
    BY <1>1, <2>1 DEF Goes, Typed, HandlersTyped, Handler, Others, Answering
  <2>2. CASE \E f : Fails(h, f, "revert")
    <3>1. Goes(h, "revert") \/ op' = [op EXCEPT ![h].posts = op[h].posts + 1]
      BY <2>2 DEF Fails
    <3> QED
      BY <1>1, <3>1 DEF Goes, Typed, HandlersTyped, Handler, Others, Answering
  <2> QED
    BY <2>1, <2>2 DEF Bridge
<1>4. answers[p] \in 0..2 /\ answers \in [Prompts -> 0..2]
  BY <1>1 DEF Typed, UsersTyped
<1>5. op'[h].at = "resolve" => answers'[p] > 0
  <2>1. CASE answers' = [answers EXCEPT ![p] = Once(answers[p])]
    BY <1>1, <1>4, <2>1 DEF Once
  <2>2. CASE \E f : Fails(h, f, "revert")
    <3>1. Goes(h, "revert") \/ op' = [op EXCEPT ![h].posts = op[h].posts + 1]
      BY <2>2 DEF Fails
    <3> QED
      BY <1>1, <3>1 DEF Goes, Typed, HandlersTyped, Handler
  <2> QED
    BY <2>1, <2>2 DEF Bridge
<1>6. ServerResume(s) \/ UNCHANGED serverVars
  BY DEF Bridge
<1>7. asked' = asked /\ \A e \in wire' : e \in wire \/ e.prompt = None
  BY <1>6, ServerCallAside
<1> QED
  BY <1>1, <1>2, <1>3, <1>5, <1>7 DEF Bridge

\* The answer is given back or kept; the handler is done.
LEMMA SettleStep ==
    ASSUME Typed, NEW h \in Handlers, Revert(h) \/ Resolve(h)
    PROVE  LET p == op[h].prompt IN
           /\ p \in Prompts /\ Others(h) /\ KeepsPlaces(db, db')
           /\ op[h].at \in Answering /\ op'[h].at \notin Answering
           /\ \/ MovesOne(db, db', p, "submitted", "active")
              \/ op[h].at = "resolve" /\ MovesOne(db, db', p, "submitted", "resolved")
           /\ HandlerOnly
<1>1. op[h] \in Handler /\ op[h].at \in Answering /\ op[h].prompt \in Prompts
  BY DEF Typed, HandlersTyped, HandlerOK, Answering, Revert, Resolve
<1>2. Others(h) /\ op'[h].at \notin Answering /\ HandlerOnly
  BY DEF Revert, Resolve, Done, Free, Others, Typed, HandlersTyped, Answering
<1>3. CASE Revert(h)
  BY <1>1, <1>2, <1>3, CompareAndSetSound DEF Revert, SubmitRevert, Typed, PromptStatus
<1>4. CASE Resolve(h)
  BY <1>1, <1>2, <1>4, CompareAndSetSound DEF Resolve, SubmitResolve, Typed, PromptStatus
<1> QED
  BY <1>3, <1>4

LEMMA ArriveFrame ==
    ASSUME NEW e \in wire, Arrive(e)
    PROVE  UNCHANGED <<db, op, work, keyboard, answers, asked>>
BY DEF Arrive, userVars

LEMMA AsksFrame ==
    ASSUME NEW s, NEW p, RunAsks(s, p), UNCHANGED <<botVars, userVars>>
    PROVE  UNCHANGED <<db, op, inbox, work, keyboard, answers>>
BY DEF botVars, userVars

-----------------------------------------------------------------------------
(* A submitted prompt is in somebody's hands                               *)

Owner(h, p) == op[h].prompt = p /\ op[h].at \in Answering
Owned == \A p \in Prompts : db.prompt[p].status = "submitted" => \E h \in Handlers : Owner(h, p)

LEMMA OwnedIsOwner == Owned <=> SubmittedHasOwner
BY DEF Owned, Owner, SubmittedHasOwner, Answering

\* Nobody leaves a prompt behind while no prompt becomes submitted.
LEMMA OwnedAside ==
    ASSUME Owned, NoSubmission(db, db'), KeepsAnswering PROVE Owned'
BY DEF Owned, Owner, NoSubmission, KeepsAnswering

LEMMA SameNothingNew ==
    ASSUME NEW d, NEW e, SamePrompts(d, e) PROVE NoSubmission(d, e) /\ KeepsMessages(d, e)
BY DEF SamePrompts, NoSubmission, KeepsMessages

LEMMA KeptAnswering == op' = op => KeepsAnswering
BY DEF KeepsAnswering

LEMMA OwnedStep == ASSUME Typed, Owned, [Next]_vars PROVE Owned'
<1>1. CASE Aside
  BY <1>1, OwnedAside, SameNothingNew DEF Aside
<1>2. ASSUME NEW h \in Handlers, Submit(h) PROVE Owned'
  <2>1. CASE Aside
    BY <1>1, <2>1
  <2>2. CASE /\ Others(h) /\ MovesOne(db, db', op[h].prompt, "active", "submitted")
             /\ op[h].at = "submit" /\ op'[h].at = "bridge" /\ op'[h].prompt = op[h].prompt
    BY <2>2 DEF Owned, Owner, Others, MovesOne, Answering
  <2> QED
    BY <1>2, <2>1, <2>2, SubmitStep
<1>3. ASSUME NEW h \in Handlers, Bridge(h) PROVE Owned'
  BY <1>3, BridgeStep DEF Owned, Owner, Others
<1>4. ASSUME NEW h \in Handlers, Revert(h) \/ Resolve(h) PROVE Owned'
  <2>1. \A p \in Prompts : db'.prompt[p].status = "submitted" =>
           db.prompt[p].status = "submitted" /\ p # op[h].prompt
    BY <1>4, SettleStep DEF MovesOne
  <2>2. Others(h)
    BY <1>4, SettleStep
  <2> QED
    BY <2>1, <2>2 DEF Owned, Owner, Others
<1>5. ASSUME NEW c \in Chats, Watching(c) \/ ApplyWebhook(c) PROVE Owned'
  BY <1>5, WatchNothingNew, OwnedAside, KeptAnswering
<1>6. CASE op' = op /\ db' = db
  BY <1>6, SameStore, SameNothingNew, OwnedAside, KeptAnswering
<1> QED
  BY <1>1, <1>2, <1>3, <1>4, <1>5, <1>6, StepAside, ArriveFrame, AsksFrame
     DEF PromptStep, Watching

\* A prompt is submitted only while a handler waits for the server's answer or
\* is about to write it down, for any numbers of chats, handlers and sweeps
\* (submitPendingPrompt gives every answer back or keeps it).
THEOREM SubmittedIsOwned == Spec => []SubmittedHasOwner
<1>1. Init => Owned
  BY DEF Init, EmptyStore, NoPrompt, Owned
<1>2. Typed /\ Owned /\ [Next]_vars => Owned'
  BY OwnedStep
<1> QED
  BY <1>1, <1>2, AlwaysTyped, OwnedIsOwner, PTL DEF Spec

-----------------------------------------------------------------------------
(* A resolved prompt was taken by the server                               *)

\* Who is about to write "resolved" knows of an answer that was accepted.
ResolvingWasTaken == \A h \in Handlers : op[h].at = "resolve" => answers[op[h].prompt] > 0
Taken_ == ResolvingWasTaken /\ ResolvedWasTaken

AnswersGrow == \A p \in Prompts : answers[p] > 0 => answers'[p] > 0

LEMMA TakenAside ==
    ASSUME Typed, Taken_, NoSubmission(db, db'), KeepsAnswering, answers' = answers
    PROVE  Taken_'
BY DEF Taken_, ResolvingWasTaken, ResolvedWasTaken, NoSubmission, KeepsAnswering, Answering

LEMMA OnceGrows == ASSUME NEW n \in 0..2 PROVE Once(n) > 0
BY DEF Once

LEMMA TakenBotStep == ASSUME Typed, Taken_, Aside \/ PromptStep PROVE Taken_'
<1>1. CASE Aside
  BY <1>1, TakenAside, SameNothingNew DEF Aside
<1>2. ASSUME NEW h \in Handlers, Submit(h) PROVE Taken_'
  <2>1. CASE Aside
    BY <1>1, <2>1
  <2>2. CASE /\ Others(h) /\ MovesOne(db, db', op[h].prompt, "active", "submitted")
             /\ op'[h].at = "bridge" /\ HandlerOnly
    <3>1. answers' = answers
      BY <2>2 DEF HandlerOnly, userVars
    <3>2. ResolvingWasTaken'
      BY <2>2, <3>1 DEF Taken_, ResolvingWasTaken, Others
    <3>3. ResolvedWasTaken'
      BY <2>2, <3>1 DEF Taken_, ResolvedWasTaken, MovesOne
    <3> QED
      BY <3>2, <3>3 DEF Taken_
  <2> QED
    BY <1>2, <2>1, <2>2, SubmitStep
<1>3. ASSUME NEW h \in Handlers, Bridge(h) PROVE Taken_'
  <2>1. AnswersGrow
    <3>1. answers \in [Prompts -> 0..2]
      BY DEF Typed, UsersTyped
    <3> QED
      BY <1>3, <3>1, BridgeStep, OnceGrows DEF AnswersGrow
  <2>2. ResolvedWasTaken'
    BY <1>3, <2>1, BridgeStep DEF Taken_, ResolvedWasTaken, AnswersGrow
  <2>3. \A g \in Handlers : op[g].at = "resolve" => op[g].prompt \in Prompts
    BY DEF Typed, HandlersTyped, HandlerOK, Answering
  <2>4. ResolvingWasTaken'
    BY <1>3, <2>1, <2>3, BridgeStep DEF Taken_, ResolvingWasTaken, AnswersGrow, Others
  <2> QED
    BY <2>2, <2>4 DEF Taken_
<1>4. ASSUME NEW h \in Handlers, Revert(h) \/ Resolve(h) PROVE Taken_'
  <2>1. answers' = answers
    BY <1>4, SettleStep DEF HandlerOnly, userVars
  <2>2. ResolvingWasTaken'
    BY <1>4, <2>1, SettleStep DEF Taken_, ResolvingWasTaken, Others, Answering
  <2>3. ResolvedWasTaken'
    BY <1>4, <2>1, SettleStep DEF Taken_, ResolvingWasTaken, ResolvedWasTaken, MovesOne
  <2> QED
    BY <2>2, <2>3 DEF Taken_
<1>5. ASSUME NEW c \in Chats, Watching(c) \/ ApplyWebhook(c) PROVE Taken_'
  BY <1>5, WatchNothingNew, TakenAside, KeptAnswering
<1>6. CASE op' = op /\ db' = db /\ answers' = answers
  BY <1>6, SameStore, SameNothingNew, TakenAside, KeptAnswering
<1> QED
  BY <1>1, <1>2, <1>3, <1>4, <1>5, <1>6, ArriveFrame, AsksFrame DEF PromptStep, Watching

LEMMA InitTaken == Init => Taken_
BY DEF Init, EmptyStore, NoPrompt, Free, Taken_, ResolvingWasTaken, ResolvedWasTaken

\* The bot says resolved only of an answer that the server accepted.
THEOREM ResolvedIsTaken == Spec => []ResolvedWasTaken
<1>1. Typed /\ Taken_ /\ [Next]_vars => Taken_'
  BY StepAside, TakenBotStep
<1>2. Taken_ => ResolvedWasTaken
  BY DEF Taken_
<1> QED
  BY <1>1, <1>2, InitTaken, AlwaysTyped, PTL DEF Spec

-----------------------------------------------------------------------------
(* When each webhook call comes once                                       *)

\* The prompts that webhook calls on their way or in a queue ask for.
Waits(c, i) == i \in DOMAIN inbox[c] /\ inbox[c][i].prompt \in Prompts

\* A prompt has one call, on its way or in one place of one queue.
OneCall ==
    /\ \A e, f \in wire : e.prompt \in Prompts /\ e.prompt = f.prompt => e = f
    /\ \A e \in wire, c \in Chats : \A i \in Nat :
          Waits(c, i) => e.prompt # inbox[c][i].prompt
    /\ \A c, x \in Chats : \A i, j \in Nat :
          Waits(c, i) /\ Waits(x, j) /\ inbox[c][i].prompt = inbox[x][j].prompt
          => c = x /\ i = j

\* A prompt whose call is not handled, or not made, was not raised.
NotYetRaised ==
    /\ \A p \in Prompts : p \notin asked => db.prompt[p].status = "none"
    /\ \A e \in wire : e.prompt \in Prompts =>
          e.prompt \in asked /\ db.prompt[e.prompt].status = "none"
    /\ \A c \in Chats : \A i \in Nat : Waits(c, i) =>
          inbox[c][i].prompt \in asked /\ db.prompt[inbox[c][i].prompt].status = "none"

\* The prompt that a notice takes the buttons from is closed.
NoticeClosed(w, d) ==
    w.notice.cleanup.prompt \in Prompts =>
        d.prompt[w.notice.cleanup.prompt].status = "invalidated"
NoticesClosed == \A c \in Chats : NoticeClosed(work[c], db)

\* Who gives an answer gives it alone, and the prompt waits for it or was
\* closed in the meantime.
AnsweringAlone ==
    \A h \in Handlers : op[h].at \in Answering =>
        /\ db.prompt[op[h].prompt].status \in {"submitted", "invalidated"}
        /\ \A g \in Handlers :
              op[g].at \in Answering /\ op[g].prompt = op[h].prompt => g = h

OnceEach == OneCall /\ NotYetRaised /\ NoticesClosed /\ AnsweringAlone

\* How the status of a prompt may change.
Moved(old, new) == new = old \/ <<old, new>> \in Life!Moves
LivesOn(d, e) == \A p \in Prompts : Moved(d.prompt[p].status, e.prompt[p].status)

\* Prompts that are not raised, submitted or invalidated stay so, unless a
\* submitted one is invalidated.
Calm(d, e) ==
    \A p \in Prompts :
        /\ d.prompt[p].status = "none" => e.prompt[p].status = "none"
        /\ d.prompt[p].status = "invalidated" => e.prompt[p].status = "invalidated"
        /\ d.prompt[p].status = "submitted" =>
              e.prompt[p].status \in {"submitted", "invalidated"}

LEMMA SameCalm == ASSUME NEW d, NEW e, SamePrompts(d, e) PROVE Calm(d, e) /\ LivesOn(d, e)
BY DEF SamePrompts, Calm, LivesOn, Moved

LEMMA ClosesCalm == ASSUME NEW d, NEW e, ClosesPrompts(d, e) PROVE Calm(d, e) /\ LivesOn(d, e)
BY DEF ClosesPrompts, Closed, Calm, LivesOn, Moved, Life!Moves

LEMMA TracksCalm == ASSUME NEW d, NEW e, KeepsStatus(d, e) PROVE Calm(d, e) /\ LivesOn(d, e)
BY DEF KeepsStatus, Calm, LivesOn, Moved

\* What is on its way stays so while no prompt is raised.
LEMMA CallsAside ==
    ASSUME OneCall, NotYetRaised, Calm(db, db'), UNCHANGED <<inbox, asked>>,
           \A e \in wire' : e \in wire \/ e.prompt = None,
           \A p \in Prompts : db.prompt[p].status = "none" <=> db'.prompt[p].status = "none"
    PROVE  OneCall' /\ NotYetRaised'
<1>1. OneCall'
  BY NoneIsNoId DEF OneCall, Waits
<1>2. NotYetRaised'
  BY NoneIsNoId DEF NotYetRaised, Waits
<1> QED
  BY <1>1, <1>2

LEMMA NoticesAside ==
    ASSUME NoticesClosed, Calm(db, db'), work' = work PROVE NoticesClosed'
BY DEF NoticesClosed, NoticeClosed, Calm

LEMMA AnsweringAside ==
    ASSUME Typed, AnsweringAlone, Calm(db, db'), KeepsAnswering PROVE AnsweringAlone'
<1>1. \A h \in Handlers : op[h].at \in Answering => op[h].prompt \in Prompts
  BY DEF Typed, HandlersTyped, HandlerOK
<1> QED
  BY <1>1 DEF AnsweringAlone, Calm, KeepsAnswering

LEMMA OnceAside == ASSUME Typed, OnceEach, Aside PROVE OnceEach' /\ LivesOn(db, db')
<1>1. Calm(db, db') /\ LivesOn(db, db')
  BY SameCalm DEF Aside
<1>2. OneCall' /\ NotYetRaised'
  BY <1>1, CallsAside DEF OnceEach, Aside, SamePrompts
<1>3. NoticesClosed'
  BY <1>1, NoticesAside DEF OnceEach, Aside
<1>4. AnsweringAlone'
  BY <1>1, AnsweringAside DEF OnceEach, Aside
<1> QED
  BY <1>1, <1>2, <1>3, <1>4 DEF OnceEach

\* submitPendingPrompt moves its own prompt.
LEMMA OnceSubmit ==
    ASSUME Typed, OnceEach, NEW h \in Handlers, Submit(h) PROVE OnceEach' /\ LivesOn(db, db')
<1>1. CASE Aside
  BY <1>1, OnceAside
<1>2. CASE LET p == op[h].prompt IN
           /\ MaySubmit(db, op[h].chat, p) /\ p \in Prompts /\ Others(h)
           /\ MovesOne(db, db', p, "active", "submitted")
           /\ op'[h].at = "bridge" /\ op'[h].prompt = p /\ HandlerOnly
  <2>1. Calm(db, db') /\ LivesOn(db, db')
    BY <1>2 DEF MovesOne, Calm, LivesOn, Moved, Life!Moves
  <2>2. OneCall' /\ NotYetRaised'
    BY <1>2, <2>1, CallsAside DEF OnceEach, HandlerOnly, serverVars, MovesOne
  <2>3. NoticesClosed'
    BY <1>2, <2>1, NoticesAside DEF OnceEach, HandlerOnly
  <2>4. \A g \in Handlers : op[g].at \in Answering => op[g].prompt # op[h].prompt
    BY <1>2 DEF OnceEach, AnsweringAlone, MaySubmit
  <2>5. \A g \in Handlers : op[g].at \in Answering => op[g].prompt \in Prompts
    BY DEF Typed, HandlersTyped, HandlerOK
  <2>6. db'.prompt[op[h].prompt].status = "submitted"
    BY <1>2 DEF MovesOne, MaySubmit
  <2>7. AnsweringAlone'
    BY <1>2, <2>1, <2>4, <2>5, <2>6 DEF OnceEach, AnsweringAlone, Others, Calm
  <2> QED
    BY <2>1, <2>2, <2>3, <2>7 DEF OnceEach
<1> QED
  BY <1>1, <1>2, SubmitStep

LEMMA OnceBridge ==
    ASSUME Typed, OnceEach, NEW h \in Handlers, Bridge(h) PROVE OnceEach' /\ LivesOn(db, db')
<1>1. Calm(db, db') /\ LivesOn(db, db')
  BY BridgeStep, SameStore, SameCalm
<1>2. OneCall' /\ NotYetRaised'
  BY <1>1, BridgeStep, CallsAside DEF OnceEach
<1>3. NoticesClosed'
  BY <1>1, BridgeStep, NoticesAside DEF OnceEach
<1>4. AnsweringAlone'
  BY BridgeStep DEF OnceEach, AnsweringAlone, Others, Answering
<1> QED
  BY <1>1, <1>2, <1>3, <1>4 DEF OnceEach

LEMMA OnceSettle ==
    ASSUME Typed, OnceEach, NEW h \in Handlers, Revert(h) \/ Resolve(h)
    PROVE  OnceEach' /\ LivesOn(db, db')
<1> DEFINE p == op[h].prompt
<1>1. /\ p \in Prompts /\ Others(h) /\ op[h].at \in Answering /\ op'[h].at \notin Answering
      /\ HandlerOnly
      /\ MovesOne(db, db', p, "submitted", "active") \/ MovesOne(db, db', p, "submitted", "resolved")
  BY SettleStep
<1>2. LivesOn(db, db')
  BY <1>1 DEF MovesOne, LivesOn, Moved, Life!Moves
<1>3. \A q \in Prompts :
         /\ db.prompt[q].status = "none" <=> db'.prompt[q].status = "none"
         /\ db.prompt[q].status = "invalidated" => db'.prompt[q].status = "invalidated"
         /\ q # p => db'.prompt[q].status = db.prompt[q].status
  BY <1>1 DEF MovesOne
<1>4. OneCall'
  BY <1>1, <1>3 DEF OnceEach, OneCall, Waits, HandlerOnly, serverVars
<1>5. NotYetRaised'
  BY <1>1, <1>3 DEF OnceEach, NotYetRaised, Waits, HandlerOnly, serverVars
<1>6. NoticesClosed'
  BY <1>1, <1>3 DEF OnceEach, NoticesClosed, NoticeClosed, HandlerOnly
<1>7. \A g \in Handlers : op'[g].at \in Answering =>
         op'[g] = op[g] /\ op[g].prompt \in Prompts /\ op[g].prompt # p
  BY <1>1 DEF OnceEach, AnsweringAlone, Others, Typed, HandlersTyped, HandlerOK
<1>8. AnsweringAlone'
  BY <1>3, <1>7 DEF OnceEach, AnsweringAlone
<1> QED
  BY <1>2, <1>4, <1>5, <1>6, <1>8 DEF OnceEach

\* A webhook call arrives at one chat.
LEMMA OnceArrive ==
    ASSUME Typed, OnceEach, "webhook" \notin Faults, NEW e \in wire, Arrive(e)
    PROVE  OnceEach' /\ LivesOn(db, db')
<1>1. UNCHANGED <<db, op, work, asked>>
  BY ArriveFrame
<1>2. Calm(db, db') /\ LivesOn(db, db') /\ KeepsAnswering
  BY <1>1, SameStore, SameCalm, KeptAnswering
<1>3. wire' = wire \ {e}
  BY DEF Arrive, Taken
<1>4. PICK c \in Chats : inbox' = [inbox EXCEPT ![c] = Append(inbox[c], e)]
  BY DEF Arrive
<1>5. e \in Event /\ inbox \in [Chats -> Seq(Event)]
  BY DEF Typed, ServerTypeOK, QueuesTyped
<1>6. \A x \in Chats, i \in Nat : Waits(x, i)' =>
         \/ Waits(x, i) /\ inbox'[x][i] = inbox[x][i]
         \/ /\ x = c /\ i = Len(inbox[c]) + 1 /\ inbox'[x][i] = e /\ e.prompt \in Prompts
  BY <1>4, <1>5, AppendProperties DEF Waits
<1>7. OneCall'
  BY <1>3, <1>6 DEF OnceEach, OneCall
<1>8. NotYetRaised'
  BY <1>1, <1>3, <1>6 DEF OnceEach, NotYetRaised
<1>9. NoticesClosed' /\ AnsweringAlone'
  BY <1>1, <1>2, NoticesAside, AnsweringAside DEF OnceEach
<1> QED
  BY <1>2, <1>7, <1>8, <1>9 DEF OnceEach

\* A run stops at a question with a new prompt id.
LEMMA OnceAsks ==
    ASSUME Typed, OnceEach, NEW s \in Sessions, NEW p \in (Prompts \ asked) \cup {None},
           RunAsks(s, p), UNCHANGED <<botVars, userVars>>
    PROVE  OnceEach' /\ LivesOn(db, db')
<1> DEFINE reports == Reports(s, remote[s].token, remote[s].task, {"needs-input"})
           asks == {[e EXCEPT !.prompt = p] : e \in reports}
<1>1. UNCHANGED <<db, op, inbox, work>>
  BY AsksFrame
<1>2. Calm(db, db') /\ LivesOn(db, db') /\ KeepsAnswering
  BY <1>1, SameStore, SameCalm, KeptAnswering
<1>3. wire' = wire \cup asks /\ asked' = asked \cup ({p} \ {None})
  BY DEF RunAsks
<1>4. reports \subseteq Event /\ \A e, f \in reports : e = f
  BY OwnReportsType DEF Typed, EventKinds, Reports
<1> HIDE DEF reports
<1>5. \A e, f \in asks : e.prompt = p /\ e = f
  BY <1>4 DEF Event
<1> HIDE DEF asks
<1>6. p \in Prompts =>
         /\ \A e \in wire : e.prompt # p
         /\ \A c \in Chats, i \in Nat : Waits(c, i) => inbox[c][i].prompt # p
         /\ db.prompt[p].status = "none"
  BY NoneIsNoId DEF OnceEach, NotYetRaised
<1>7. OneCall'
  BY <1>1, <1>3, <1>5, <1>6, NoneIsNoId DEF OnceEach, OneCall, Waits
<1>8. NotYetRaised'
  BY <1>1, <1>3, <1>5, <1>6, NoneIsNoId DEF OnceEach, NotYetRaised, Waits
<1>9. NoticesClosed' /\ AnsweringAlone'
  BY <1>1, <1>2, NoticesAside, AnsweringAside DEF OnceEach
<1> QED
  BY <1>2, <1>7, <1>8, <1>9 DEF OnceEach

LEMMA ContinueNotice ==
    ASSUME Typed, NEW c \in Chats, NEW at, Continue(c, at)
    PROVE  work'[c].notice = work[c].notice \/ work'[c].notice = NoNotice
<1>1. CASE at = "free"
  BY <1>1 DEF Continue, Idle, Typed, WorkTyped
<1>2. CASE at # "free"
  <2>1. work' = [work EXCEPT ![c] = [work[c] EXCEPT !.at = at]]
    BY <1>2 DEF Continue
  <2> QED
    BY <2>1 DEF Typed, WorkTyped, Work
<1> QED
  BY <1>1, <1>2

LEMMA NoNoticeClosed ==
    ASSUME NEW w, NEW d, w.notice = NoNotice PROVE NoticeClosed(w, d)
BY NoneIsNoId DEF NoticeClosed, NoNotice, NoCleanup

\* The notice that an event leaves is about a prompt that the event closed.
LEMMA AfterNotice ==
    ASSUME Typed, NEW c \in Chats, NEW e, NEW by, EventStep(c, e, by)
    PROVE  NoticeClosed(work'[c], db')
<1>1. PICK n : NoticeOf(db', n, e.prompt) /\ work' = [work EXCEPT ![c] = After(by, e.session, n)]
  BY DEF EventStep
<1>2. work'[c] = After(by, e.session, n)
  BY <1>1 DEF Typed, WorkTyped
<1>3. CASE n.kind = "none"
  BY <1>2, <1>3, NoNoticeClosed DEF After, Idle
<1>4. CASE n.kind # "none"
  <2>1. work'[c].notice = n
    BY <1>2, <1>4 DEF After, Idle
  <2> QED
    BY <1>1, <2>1 DEF NoticeClosed, NoticeOf
<1> QED
  BY <1>3, <1>4

\* What the watcher's steps do with the notice of their chat.
LEMMA WatchNotice ==
    ASSUME Typed, NEW c \in Chats, Watching(c) \/ ApplyWebhook(c)
    PROVE  \/ work'[c].notice = work[c].notice \/ work'[c].notice = NoNotice
           \/ NoticeClosed(work'[c], db')
<1>1. CASE BeginCandidate(c)
  <2>1. PICK v \in Sweeps : \E k \in sweep[v] : k.chat = c /\ StartCandidate(v, k)
    BY <1>1 DEF BeginCandidate
  <2>2. PICK s, r : work' = [work EXCEPT ![c] =
            [Idle EXCEPT !.by = v, !.at = "ask", !.session = s, !.retry = r]]
    BY <2>1 DEF StartCandidate
  <2>3. work'[c].notice = NoNotice
    BY <2>2 DEF Typed, WorkTyped, Idle
  <2> QED
    BY <2>3
<1>2. CASE AskRemote(c)
  <2>1. PICK at, answer : work' = [work EXCEPT ![c].at = at, ![c].answer = answer]
    BY <1>2 DEF AskRemote
  <2> QED
    BY <2>1 DEF Typed, WorkTyped, Work
<1>3. CASE Conclude(c)
  BY <1>3, ConcludeStep, ContinueNotice, AfterNotice
<1>4. CASE ApplyWebhook(c)
  BY <1>4, ApplyWebhookStep, ContinueNotice, AfterNotice
<1>5. CASE \E at : Continue(c, at)
  BY <1>5, ContinueNotice
<1>6. CASE ShowPrompt(c)
  BY <1>6, ShowKeeps
<1> QED
  BY <1>1, <1>2, <1>3, <1>4, <1>5, <1>6
     DEF Watching, WatchStep, ReactToFailure, React, TouchSession,
         TrackPromptMessage, CleanKeyboard, TrackPromptCleanup, Say, NoticeFails, TrackFails, NoticeEnds

LEMMA OnceWatch ==
    ASSUME Typed, OnceEach, NEW c \in Chats, Watching(c) PROVE OnceEach' /\ LivesOn(db, db')
<1>1. /\ UNCHANGED <<op, inbox, answers, serverVars>>
      /\ \A x \in Chats : x # c => work'[x] = work[x]
  BY WatchFrame
<1>2. Calm(db, db') /\ LivesOn(db, db')
      /\ \A p \in Prompts : db.prompt[p].status = "none" <=> db'.prompt[p].status = "none"
  <2>1. CASE ClosesPrompts(db, db')
    BY <2>1, ClosesCalm DEF ClosesPrompts, Closed
  <2>2. CASE TrackPromptMessage(c)
    BY <2>2, TrackPromptMessageStep, TracksCalm DEF KeepsStatus
  <2>3. CASE TrackPromptCleanup(c)
    <3>1. db.prompt[work[c].notice.cleanup.prompt].status = "invalidated"
      BY <2>3, TrackPromptCleanupStep DEF OnceEach, NoticesClosed, NoticeClosed
    <3> QED
      BY <2>3, <3>1, TrackPromptCleanupStep DEF MovesOne, Calm, LivesOn, Moved
  <2> QED
    BY <2>1, <2>2, <2>3, WatchPrompts
<1>3. OneCall' /\ NotYetRaised'
  BY <1>1, <1>2, CallsAside DEF OnceEach, serverVars
<1>4. NoticesClosed'
  <2>1. \A x \in Chats : x # c => NoticeClosed(work'[x], db')
    BY <1>1, <1>2 DEF OnceEach, NoticesClosed, NoticeClosed, Calm
  <2>2. NoticeClosed(work[c], db')
    BY <1>2 DEF OnceEach, NoticesClosed, NoticeClosed, Calm
  <2>3. NoticeClosed(work'[c], db')
    BY <2>2, WatchNotice, NoNoticeClosed DEF NoticeClosed
  <2> QED
    BY <2>1, <2>3 DEF NoticesClosed
<1>5. AnsweringAlone'
  BY <1>1, <1>2, KeptAnswering, AnsweringAside DEF OnceEach
<1> QED
  BY <1>2, <1>3, <1>4, <1>5 DEF OnceEach

LEMMA OnceWebhook ==
    ASSUME Typed, OnceEach, NEW c \in Chats, ApplyWebhook(c)
    PROVE  OnceEach' /\ LivesOn(db, db')
<1> DEFINE e == Head(inbox[c])
           q == e.prompt
           Was(x, i) == IF x = c THEN i + 1 ELSE i
<1>1. /\ e \in Event /\ inbox' = [inbox EXCEPT ![c] = Tail(inbox[c])]
      /\ UNCHANGED <<op, answers, serverVars>>
      /\ \A x \in Chats : x # c => work'[x] = work[x]
  BY ApplyWebhookStep DEF userVars
<1>2. ClosesPrompts(db, db') \/ (q \in Prompts /\ RaisesOne(db, db', q, e.session, c))
  BY ApplyWebhookPrompts
<1>3. inbox \in [Chats -> Seq(Event)] /\ inbox[c] # <<>>
  BY DEF ApplyWebhook, Typed, QueuesTyped
<1>4. e = inbox[c][1] /\ 1 \in DOMAIN inbox[c]
  BY <1>3, HeadTailProperties
<1>5. \A x \in Chats, i \in Nat : Waits(x, i)' =>
         /\ Waits(x, Was(x, i)) /\ inbox'[x][i] = inbox[x][Was(x, i)]
         /\ x = c => Was(x, i) # 1
  BY <1>1, <1>3, HeadTailProperties DEF Waits
<1>14. \A x \in Chats, i, j \in Nat :
          Was(x, i) \in Nat /\ (Was(x, i) = Was(x, j) => i = j)
  OBVIOUS
<1> HIDE DEF Was
<1>6. q \in Prompts => Waits(c, 1)
  BY <1>4 DEF Waits
<1> HIDE DEF e
<1>7. q \in Prompts =>
         /\ q \in asked /\ db.prompt[q].status = "none"
         /\ \A f \in wire : f.prompt # q
         /\ \A x \in Chats, i \in Nat : Waits(x, i)' => inbox'[x][i].prompt # q
  BY <1>4, <1>5, <1>6, <1>14 DEF OnceEach, OneCall, NotYetRaised
<1>8. \A p \in Prompts :
         /\ p # q => (db.prompt[p].status = "none" <=> db'.prompt[p].status = "none")
         /\ db.prompt[p].status = "invalidated" => db'.prompt[p].status = "invalidated"
         /\ db.prompt[p].status = "submitted" =>
               db'.prompt[p].status \in {"submitted", "invalidated"}
  BY <1>2, <1>7 DEF ClosesPrompts, RaisesOne, Closed
<1>9. LivesOn(db, db')
  BY <1>2, <1>7 DEF ClosesPrompts, RaisesOne, Closed, LivesOn, Moved, Life!Moves
<1>15. wire' = wire /\ asked' = asked
  BY <1>1 DEF serverVars
<1>10. OneCall'
  <2>1. \A f, g \in wire' : f.prompt \in Prompts /\ f.prompt = g.prompt => f = g
    BY <1>15 DEF OnceEach, OneCall
  <2>2. \A f \in wire', x \in Chats : \A i \in Nat :
           Waits(x, i)' => f.prompt # inbox'[x][i].prompt
    BY <1>5, <1>14, <1>15 DEF OnceEach, OneCall
  <2>3. \A x, y \in Chats : \A i, j \in Nat :
           Waits(x, i)' /\ Waits(y, j)' /\ inbox'[x][i].prompt = inbox'[y][j].prompt
           => x = y /\ i = j
    BY <1>5, <1>14 DEF OnceEach, OneCall
  <2> QED
    BY <2>1, <2>2, <2>3 DEF OneCall
<1>11. NotYetRaised'
  <2>1. \A x \in Chats, i \in Nat : Waits(x, i)' =>
           /\ inbox'[x][i].prompt \in asked /\ inbox'[x][i].prompt \in Prompts
           /\ db.prompt[inbox'[x][i].prompt].status = "none"
    BY <1>5, <1>14 DEF OnceEach, NotYetRaised, Waits
  <2>2. \A x \in Chats, i \in Nat : Waits(x, i)' =>
           /\ inbox'[x][i].prompt \in asked'
           /\ db'.prompt[inbox'[x][i].prompt].status = "none"
    BY <1>7, <1>8, <1>15, <2>1
  <2>3. \A p \in Prompts : p \notin asked' => db'.prompt[p].status = "none"
    BY <1>7, <1>8, <1>15 DEF OnceEach, NotYetRaised
  <2>4. \A f \in wire' : f.prompt \in Prompts =>
           f.prompt \in asked' /\ db'.prompt[f.prompt].status = "none"
    BY <1>7, <1>8, <1>15 DEF OnceEach, NotYetRaised
  <2> QED
    BY <2>2, <2>3, <2>4 DEF NotYetRaised
<1>12. NoticesClosed'
  <2>1. \A x \in Chats : x # c => NoticeClosed(work'[x], db')
    BY <1>1, <1>8 DEF OnceEach, NoticesClosed, NoticeClosed
  <2>2. NoticeClosed(work[c], db')
    BY <1>8 DEF OnceEach, NoticesClosed, NoticeClosed
  <2>3. NoticeClosed(work'[c], db')
    BY <2>2, WatchNotice, NoNoticeClosed DEF NoticeClosed
  <2> QED
    BY <2>1, <2>3 DEF NoticesClosed
<1>13. AnsweringAlone'
  BY <1>1, <1>8 DEF OnceEach, AnsweringAlone, Typed, HandlersTyped, HandlerOK
<1> QED
  BY <1>9, <1>10, <1>11, <1>12, <1>13 DEF OnceEach

LEMMA OncePrompt ==
    ASSUME Typed, OnceEach, "webhook" \notin Faults, PromptStep
    PROVE  OnceEach' /\ LivesOn(db, db')
BY OnceSubmit, OnceBridge, OnceSettle, OnceArrive, OnceWatch, OnceWebhook, OnceAsks
   DEF PromptStep, Watching

LEMMA OnceStep ==
    ASSUME Typed, OnceEach, "webhook" \notin Faults, [Next]_vars
    PROVE  OnceEach' /\ LivesOn(db, db')
BY OnceAside, OncePrompt, StepAside

LEMMA InitOnce == Init => OnceEach
BY NoneIsNoId
   DEF Init, ServerInit, EmptyStore, NoPrompt, Free, Idle, NoNotice, NoCleanup, OnceEach,
       OneCall, NotYetRaised, NoticesClosed, NoticeClosed, AnsweringAlone, Waits, Answering

\* An answer to a prompt is given by one handler, which has submitted it.
OneAnswer ==
    \A p \in Prompts : answers'[p] # answers[p] =>
          /\ db.prompt[p].status # "resolved"
          /\ \A g, h \in Handlers :
                /\ op[g].prompt = p /\ op[g].at \in {"bridge", "revert", "resolve"}
                /\ op[h].prompt = p /\ op[h].at \in {"bridge", "revert", "resolve"}
                => g = h

LEMMA AnswersStay == ASSUME answers' = answers PROVE OneAnswer
BY DEF OneAnswer

LEMMA BridgeAlone ==
    ASSUME Typed, OnceEach, NEW h \in Handlers, Bridge(h) PROVE OneAnswer
<1>1. \A p \in Prompts : answers'[p] # answers[p] => p = op[h].prompt
  BY BridgeStep DEF Typed, UsersTyped
<1>2. op[h].at \in Answering /\ op[h].prompt \in Prompts
  BY BridgeStep DEF Answering
<1> QED
  BY <1>1, <1>2 DEF OneAnswer, OnceEach, AnsweringAlone, Answering

LEMMA PromptAlone == ASSUME Typed, OnceEach, PromptStep PROVE OneAnswer
<1>1. ASSUME NEW h \in Handlers, Submit(h) \/ Revert(h) \/ Resolve(h) PROVE OneAnswer
  BY <1>1, SubmitStep, SettleStep, AnswersStay DEF Aside, HandlerOnly, userVars
<1>2. ASSUME NEW c \in Chats, Watching(c) \/ ApplyWebhook(c) PROVE OneAnswer
  BY <1>2, WatchNothingNew, AnswersStay
<1> QED
  BY <1>1, <1>2, BridgeAlone, ArriveFrame, AsksFrame, AnswersStay DEF PromptStep, Watching

LEMMA AsideAlone == ASSUME Aside PROVE OneAnswer
BY AnswersStay DEF Aside

\* The life of PromptLife, read off the store.
LEMMA LifeInit == Init => Life!Init
BY DEF Init, EmptyStore, NoPrompt, Life!Init

LEMMA LifeStep ==
    ASSUME Sound(db), Sound(db'), LivesOn(db, db')
    PROVE  [Life!Next]_([p \in Prompts |-> db.prompt[p].status])
<1> DEFINE old == [p \in Prompts |-> db.prompt[p].status]
           new == [p \in Prompts |-> db'.prompt[p].status]
<1>1. \A p \in Prompts : db'.prompt[p].status \in PromptStatus
  BY DEF Sound, StoreType, Prompt
<1>2. new \in [Prompts -> Life!PromptStates]
  BY <1>1 DEF PromptStatus, Life!PromptStates
<1>3. \A p \in Prompts : new[p] # old[p] => <<old[p], new[p]>> \in Life!Moves
  BY DEF LivesOn, Moved
<1> QED
  BY <1>2, <1>3 DEF Life!Next

LEMMA AlwaysOnce == Spec /\ "webhook" \notin Faults => [](Typed /\ OnceEach)
<1> SUFFICES ASSUME "webhook" \notin Faults PROVE Spec => [](Typed /\ OnceEach)
  OBVIOUS
<1>1. Typed /\ OnceEach /\ [Next]_vars => OnceEach'
  BY OnceStep
<1> QED
  BY <1>1, InitOnce, AlwaysTyped, PTL DEF Spec

\* When every webhook call comes once, each prompt lives the life of PromptLife
\* whatever handlers, webhooks, sweeps and notices do to it: it is raised once,
\* and what is closed stays closed.
THEOREM PromptsLive == ASSUME "webhook" \notin Faults PROVE Spec => ImplementsPromptLife
<1>1. Typed /\ OnceEach /\ [Next]_vars /\ Typed' =>
         [Life!Next]_([p \in Prompts |-> db.prompt[p].status])
  BY OnceStep, LifeStep DEF Typed
<1>2. Spec => [](Typed /\ OnceEach)
  BY AlwaysOnce
<1> QED
  BY <1>1, <1>2, LifeInit, PTL DEF Spec, ImplementsPromptLife, Life!Spec

\* When every webhook call comes once, an answer is given to a prompt by one
\* handler alone, and none follows one that is known to be taken.
THEOREM OneAnswerOnly == ASSUME "webhook" \notin Faults PROVE Spec => OneAnswerAtATime
<1>1. Typed /\ OnceEach /\ [Next]_vars => OneAnswer
  BY StepAside, AsideAlone, PromptAlone
<1>2. Spec => [](Typed /\ OnceEach)
  BY AlwaysOnce
<1>3. OneAnswer =>
         [\A p \in Prompts : answers'[p] # answers[p] =>
             /\ db.prompt[p].status # "resolved"
             /\ \A g, h \in Handlers :
                   /\ op[g].prompt = p /\ op[g].at \in {"bridge", "revert", "resolve"}
                   /\ op[h].prompt = p /\ op[h].at \in {"bridge", "revert", "resolve"}
                   => g = h]_vars
  BY DEF OneAnswer
<1> QED
  BY <1>1, <1>2, <1>3, PTL DEF Spec, OneAnswerAtATime

-----------------------------------------------------------------------------
(* The messages that ask a question                                        *)

\* Who is about to send a question, or has sent it and not written that down.
Poses(w) == w.at \in {"show", "track"}

\* What is asked, or is about to be, was raised.
Raised ==
    /\ \A n \in DOMAIN keyboard : db.prompt[keyboard[n].prompt].status # "none"
    /\ \A c \in Chats : Poses(work[c]) => db.prompt[work[c].notice.show].status # "none"

\* A question is asked by one notice, in one message, which the notice knows
\* until it has written it down.
AskedOnce ==
    /\ \A c, x \in Chats :
          Poses(work[c]) /\ Poses(work[x]) /\ work[c].notice.show = work[x].notice.show => c = x
    /\ \A m, n \in DOMAIN keyboard : keyboard[m].prompt = keyboard[n].prompt => m = n
    /\ \A c \in Chats, n \in DOMAIN keyboard :
          Poses(work[c]) /\ keyboard[n].prompt = work[c].notice.show
          => work[c].at = "track" /\ work[c].message = n
    /\ \A c \in Chats : work[c].at = "track" =>
          /\ work[c].message \in DOMAIN keyboard
          /\ keyboard[work[c].message].prompt = work[c].notice.show

Screened == Raised /\ AskedOnce /\ ButtonsAreTracked

\* The same messages ask the same questions.
SameQuestions ==
    /\ DOMAIN keyboard' = DOMAIN keyboard
    /\ \A n \in DOMAIN keyboard : keyboard'[n].prompt = keyboard[n].prompt
NoNewButtons ==
    \A n \in DOMAIN keyboard : keyboard'[n].buttons = "live" => keyboard[n].buttons = "live"
StaysRaised ==
    \A p \in Prompts : db.prompt[p].status # "none" => db'.prompt[p].status # "none"

LEMMA LivesRaised == ASSUME LivesOn(db, db') PROVE StaysRaised
BY DEF LivesOn, Moved, Life!Moves, StaysRaised

LEMMA ScreenKnown ==
    ASSUME Typed
    PROVE  /\ DOMAIN keyboard = 1..Len(keyboard) /\ Len(keyboard) \in Nat
           /\ \A n \in DOMAIN keyboard : keyboard[n] \in Message /\ keyboard[n].prompt \in Prompts
           /\ \A c \in Chats : Poses(work[c]) => work[c].notice.show \in Prompts
<1>1. keyboard \in Seq(Message)
  BY DEF Typed, UsersTyped
<1>2. \A n \in DOMAIN keyboard : keyboard[n] \in Message
  BY <1>1
<1>3. \A c \in Chats : Poses(work[c]) => work[c].notice.show \in Prompts
  BY DEF Typed, WorkTyped, WatchOK, Poses
<1> QED
  BY <1>1, <1>2, <1>3, LenProperties DEF Message

\* While no message is sent and no notice begins.
LEMMA AskedFrame ==
    ASSUME Typed, Raised, AskedOnce, StaysRaised, SameQuestions,
           \A c \in Chats : work'[c] = work[c] \/ ~Poses(work'[c])
    PROVE  Raised' /\ AskedOnce'
<1>1. Raised'
  BY ScreenKnown DEF Raised, StaysRaised, SameQuestions
<1>2. AskedOnce'
  BY DEF AskedOnce, SameQuestions, Poses
<1> QED
  BY <1>1, <1>2

LEMMA ButtonsFrame ==
    ASSUME Typed, ButtonsAreTracked, SameQuestions, NoNewButtons, KeepsMessages(db, db'),
           \A c \in Chats : work[c].at = "track" => work'[c] = work[c]
    PROVE  ButtonsAreTracked'
BY ScreenKnown DEF ButtonsAreTracked, SameQuestions, NoNewButtons, KeepsMessages

LEMMA SameScreen == ASSUME keyboard' = keyboard PROVE SameQuestions /\ NoNewButtons
BY DEF SameQuestions, NoNewButtons

\* Steps that leave the screen and the watcher's work alone.
LEMMA ScreenedAside ==
    ASSUME Typed, Screened, StaysRaised, keyboard' = keyboard, work' = work,
           KeepsMessages(db, db')
    PROVE  Screened'
BY AskedFrame, ButtonsFrame, SameScreen DEF Screened

LEMMA RedrawnScreen ==
    ASSUME Typed, NEW m, NEW b, keyboard' = Redrawn(keyboard, m, b),
           m \in DOMAIN keyboard => b \in {"none", "lost"} \/ b = keyboard[m].buttons
    PROVE  /\ SameQuestions /\ NoNewButtons
           /\ m \in DOMAIN keyboard => keyboard'[m].buttons = b
<1>1. keyboard \in Seq(Message)
  BY DEF Typed, UsersTyped
<1>2. m \in DOMAIN keyboard => b \in {"none", "live", "lost"}
  BY ScreenKnown DEF Message
<1>3. /\ DOMAIN keyboard' = DOMAIN keyboard
      /\ \A n \in DOMAIN keyboard : keyboard'[n].prompt = keyboard[n].prompt
      /\ \A n \in DOMAIN keyboard : n # m => keyboard'[n] = keyboard[n]
      /\ m \in DOMAIN keyboard => keyboard'[m].buttons = b
  BY <1>1, <1>2, RedrawnType
<1> QED
  BY <1>3 DEF SameQuestions, NoNewButtons

\* A message more, and the notice that sent it.
LEMMA ScreenedAsked ==
    ASSUME Typed, Screened, NEW c \in Chats, NEW b \in {"live", "lost"},
           work[c].at = "show", Asked(c, b), db' = db,
           \A x \in Chats : x # c => work'[x] = work[x],
           \/ ~Poses(work'[c]) /\ b = "lost"
           \/ /\ work'[c].at = "track" /\ work'[c].message = Len(keyboard) + 1
              /\ work'[c].notice = work[c].notice
    PROVE  Screened'
<1> DEFINE o == Question(c, b)
           p == work[c].notice.show
           l == Len(keyboard) + 1
<1>1. p \in Prompts /\ Poses(work[c])
  BY ScreenKnown DEF Poses
<1>2. o \in Message /\ o.prompt = p /\ o.buttons \in {"none", b}
  BY <1>1, QuestionType
<1>3. keyboard \in Seq(Message) /\ keyboard' = Append(keyboard, o)
  BY DEF Typed, UsersTyped, Asked
<1> HIDE DEF o
<1>4. /\ DOMAIN keyboard = 1..Len(keyboard) /\ Len(keyboard) \in Nat
      /\ DOMAIN keyboard' = 1..l /\ keyboard'[l] = o
      /\ \A n \in 1..Len(keyboard) : keyboard'[n] = keyboard[n]
  BY <1>2, <1>3, ScreenKnown, AppendProperties
<1>5. \A n \in DOMAIN keyboard' : n = l \/ (n \in DOMAIN keyboard /\ keyboard'[n] = keyboard[n])
  BY <1>4
<1>6. l \notin DOMAIN keyboard /\ l \in DOMAIN keyboard' /\ keyboard'[l] = o
      /\ \A n \in DOMAIN keyboard : n \in DOMAIN keyboard' /\ keyboard'[n] = keyboard[n]
  BY <1>4
<1> HIDE DEF l
<1>7. \A n \in DOMAIN keyboard : keyboard[n].prompt # p
  BY <1>1 DEF Screened, AskedOnce
<1>8. Poses(work'[c]) => /\ work'[c].at = "track" /\ work'[c].message = l
                         /\ work'[c].notice.show = p
  BY DEF l
<1>9. Raised'
  BY <1>1, <1>2, <1>5, <1>6, <1>8 DEF Screened, Raised
<1>10. AskedOnce'
  <2>1. \A x, y \in Chats :
           Poses(work'[x]) /\ Poses(work'[y]) /\ work'[x].notice.show = work'[y].notice.show
           => x = y
    BY <1>1, <1>8 DEF Screened, AskedOnce
  <2>2. \A m, n \in DOMAIN keyboard' : keyboard'[m].prompt = keyboard'[n].prompt => m = n
    BY <1>2, <1>5, <1>6, <1>7 DEF Screened, AskedOnce
  <2>3. \A x \in Chats, n \in DOMAIN keyboard' :
           Poses(work'[x]) /\ keyboard'[n].prompt = work'[x].notice.show
           => work'[x].at = "track" /\ work'[x].message = n
    <3>1. ASSUME NEW x \in Chats, NEW n \in DOMAIN keyboard', x # c,
                 Poses(work'[x]), keyboard'[n].prompt = work'[x].notice.show
          PROVE  work'[x].at = "track" /\ work'[x].message = n
      <4>1. work'[x] = work[x] /\ work[x].notice.show # p
        BY <1>1, <3>1 DEF Screened, AskedOnce
      <4>2. n \in DOMAIN keyboard /\ keyboard'[n] = keyboard[n]
        BY <1>2, <1>5, <1>6, <3>1, <4>1
      <4> QED
        BY <3>1, <4>1, <4>2 DEF Screened, AskedOnce
    <3>2. ASSUME NEW n \in DOMAIN keyboard',
                 Poses(work'[c]), keyboard'[n].prompt = work'[c].notice.show
          PROVE  work'[c].at = "track" /\ work'[c].message = n
      BY <1>5, <1>7, <1>8, <3>2
    <3> QED
      BY <3>1, <3>2
  <2>4. \A x \in Chats : work'[x].at = "track" =>
           /\ work'[x].message \in DOMAIN keyboard'
           /\ keyboard'[work'[x].message].prompt = work'[x].notice.show
    BY <1>2, <1>6, <1>8 DEF Screened, AskedOnce, Poses
  <2> QED
    BY <2>1, <2>2, <2>3, <2>4 DEF AskedOnce
<1>11. ButtonsAreTracked'
  <2> SUFFICES ASSUME NEW m \in DOMAIN keyboard', keyboard'[m].buttons = "live"
               PROVE  \/ db'.prompt[keyboard'[m].prompt].message = m
                      \/ \E x \in Chats : work'[x].at = "track" /\ work'[x].message = m
    BY DEF ButtonsAreTracked
  <2>1. CASE m = l
    BY <1>2, <1>6, <2>1 DEF l
  <2>2. CASE m # l
    <3>1. m \in DOMAIN keyboard /\ keyboard'[m] = keyboard[m]
      BY <1>5, <2>2
    <3>2. \A x \in Chats : work[x].at = "track" => work'[x] = work[x]
      OBVIOUS
    <3> QED
      BY <3>1, <3>2 DEF Screened, ButtonsAreTracked
  <2> QED
    BY <2>1, <2>2
<1> QED
  BY <1>9, <1>10, <1>11 DEF Screened

\* What the watcher's steps do to the screen.
LEMMA ScreenChanges ==
    ASSUME Typed, NEW c \in Chats, Watching(c)
    PROVE  \/ ShowPrompt(c)
           \/ NoticeFails(c) /\ keyboard' # keyboard
           \/ SameQuestions /\ NoNewButtons
<1>1. CASE keyboard' = keyboard
  BY <1>1, SameScreen
<1>2. CASE CleanKeyboard(c) /\ keyboard' # keyboard
  <2>1. keyboard' = Redrawn(keyboard, work[c].notice.cleanup.message, "none")
    BY <1>2 DEF CleanKeyboard, Redrawn
  <2> QED
    BY <2>1, RedrawnScreen
<1>3. CASE TrackFails(c) /\ keyboard' # keyboard
  <2> DEFINE t == work[c].message
             b == IF keyboard[t].buttons = "live" THEN "lost" ELSE keyboard[t].buttons
  <2>1. keyboard' = Redrawn(keyboard, t, b)
    BY <1>3 DEF TrackFails, Redrawn
  <2>2. b \in {"none", "lost"} \/ b = keyboard[t].buttons
    OBVIOUS
  <2> HIDE DEF b
  <2> QED
    BY <2>1, <2>2, RedrawnScreen
<1> QED
  BY <1>1, <1>2, <1>3, WatchFrame

\* A notice that is about to ask begins with the call that raised its prompt.
LEMMA PosesFrom ==
    ASSUME Typed, NEW c \in Chats, NEW e, NEW by, EventStep(c, e, by), Poses(work'[c])
    PROVE  /\ work'[c].at = "show" /\ work'[c].notice.show = e.prompt /\ e.prompt \in Prompts
           /\ db'.prompt[e.prompt].status = "active"
<1>1. PICK n : NoticeOf(db', n, e.prompt) /\ work' = [work EXCEPT ![c] = After(by, e.session, n)]
  BY DEF EventStep
<1>2. work'[c] = After(by, e.session, n)
  BY <1>1 DEF Typed, WorkTyped
<1>3. n.kind # "none" /\ work'[c].notice = n /\ work'[c].at = FirstOf(n)
  BY <1>2 DEF After, Idle, Poses
<1>4. FirstOf(n) = "show" /\ n.show # None
  BY <1>3 DEF Poses, FirstOf
<1>5. n.show \in Prompts
  BY <1>1, <1>4 DEF NoticeOf, Notice
<1> QED
  BY <1>1, <1>3, <1>4, <1>5 DEF NoticeOf

LEMMA IdlePoses ==
    ASSUME Typed, NEW c \in Chats, NEW at, Continue(c, at), at \notin {"show", "track"}
    PROVE  ~Poses(work'[c])
<1>1. CASE at = "free"
  BY <1>1 DEF Continue, Idle, Poses, Typed, WorkTyped
<1>2. CASE at # "free"
  BY <1>2 DEF Continue, Poses, Typed, WorkTyped, Work
<1> QED
  BY <1>1, <1>2

\* The watcher itself asks nothing.
LEMMA WatchPoses ==
    ASSUME Typed, NEW c \in Chats, Watching(c), ~ShowPrompt(c) PROVE ~Poses(work'[c])
<1>1. CASE BeginCandidate(c)
  <2>1. PICK v \in Sweeps : \E k \in sweep[v] : k.chat = c /\ StartCandidate(v, k)
    BY <1>1 DEF BeginCandidate
  <2>2. PICK s, r : work' = [work EXCEPT ![c] =
            [Idle EXCEPT !.by = v, !.at = "ask", !.session = s, !.retry = r]]
    BY <2>1 DEF StartCandidate
  <2> QED
    BY <2>2 DEF Idle, Poses, Typed, WorkTyped
<1>2. CASE AskRemote(c)
  <2>1. PICK at, answer : /\ work' = [work EXCEPT ![c].at = at, ![c].answer = answer]
                          /\ at \in {"react", "failed"}
    BY <1>2 DEF AskRemote
  <2> QED
    BY <2>1 DEF Poses, Typed, WorkTyped, Work
<1>3. CASE Conclude(c)
  <2>1. CASE EventStep(c, Verdict(work[c]), work[c].by)
    BY <2>1, PosesFrom, NoneIsNoId DEF Verdict
  <2> QED
    BY <1>3, <2>1, ConcludeStep, IdlePoses
<1>4. CASE \/ ReactToFailure(c) \/ React(c) \/ TouchSession(c) \/ TrackPromptMessage(c)
           \/ CleanKeyboard(c) \/ TrackPromptCleanup(c) \/ Say(c)
           \/ NoticeFails(c) \/ TrackFails(c)
  <2>1. \E at \in {"free", "conclude", "touch", "clean", "untrack", "say"} : Continue(c, at)
    BY <1>4 DEF ReactToFailure, React, TouchSession, TrackPromptMessage, CleanKeyboard,
                TrackPromptCleanup, Say, NoticeFails, TrackFails, NoticeEnds,
                AfterTrack, AfterUntrack
  <2> QED
    BY <2>1, IdlePoses
<1> QED
  BY <1>1, <1>2, <1>3, <1>4 DEF Watching, WatchStep

LEMMA ScreenedWebhook ==
    ASSUME Typed, OnceEach, Screened, NEW c \in Chats, ApplyWebhook(c), StaysRaised
    PROVE  Screened'
<1> DEFINE e == Head(inbox[c])
<1>1. /\ e \in Event /\ keyboard' = keyboard /\ work[c].at # "track"
      /\ \A x \in Chats : x # c => work'[x] = work[x]
      /\ (db' = db /\ Continue(c, "free")) \/ EventStep(c, e, "webhook")
  BY ApplyWebhookStep DEF userVars
<1>2. e.prompt \in Prompts => db.prompt[e.prompt].status = "none"
  <2>1. inbox[c] \in Seq(Event) /\ inbox[c] # <<>>
    BY DEF ApplyWebhook, Typed, QueuesTyped
  <2>2. e = inbox[c][1] /\ 1 \in DOMAIN inbox[c] /\ 1 \in Nat
    BY <2>1, HeadTailProperties
  <2> HIDE DEF e
  <2> QED
    BY <2>2 DEF OnceEach, NotYetRaised, Waits
<1> HIDE DEF e
<1>3. ButtonsAreTracked'
  <2>1. KeepsMessages(db, db')
    BY WatchNothingNew, <1>1 DEF TrackPromptMessage
  <2> QED
    BY <1>1, <2>1, ButtonsFrame, SameScreen DEF Screened
<1>4. CASE ~Poses(work'[c])
  BY <1>1, <1>3, <1>4, AskedFrame, SameScreen DEF Screened
<1>5. CASE Poses(work'[c])
  <2> DEFINE p == e.prompt
  <2>1. /\ work'[c].at = "show" /\ work'[c].notice.show = p /\ p \in Prompts
        /\ db'.prompt[p].status = "active"
    BY <1>1, <1>5, PosesFrom, IdlePoses
  <2>2. /\ \A x \in Chats : Poses(work[x]) => work[x].notice.show # p
        /\ \A n \in DOMAIN keyboard : keyboard[n].prompt # p
    BY <1>2, <2>1 DEF Screened, Raised
  <2> HIDE DEF p
  <2>3. Raised'
    BY <1>1, <2>1, ScreenKnown DEF Screened, Raised, StaysRaised
  <2>4. AskedOnce'
    BY <1>1, <2>1, <2>2 DEF Screened, AskedOnce, Poses
  <2> QED
    BY <1>3, <2>3, <2>4 DEF Screened
<1> QED
  BY <1>4, <1>5

LEMMA ScreenedWatch ==
    ASSUME Typed, Screened, NEW c \in Chats, Watching(c), StaysRaised PROVE Screened'
<1>1. \A x \in Chats : x # c => work'[x] = work[x]
  BY WatchFrame
<1>2. CASE ShowPrompt(c)
  <2>1. work[c].at = "show" /\ Asked(c, "live") /\ db' = db
    BY <1>2 DEF ShowPrompt, Asked
  <2> QED
    BY <1>1, <1>2, <2>1, ShowKeeps, ScreenedAsked
<1>3. CASE NoticeFails(c) /\ keyboard' # keyboard
  <2>1. work[c].at = "show" /\ Asked(c, "lost") /\ db' = db
    BY <1>3 DEF NoticeFails, NoticeEnds, Asked
  <2>2. ~Poses(work'[c])
    BY <1>3, IdlePoses DEF NoticeFails, NoticeEnds
  <2> QED
    BY <1>1, <2>1, <2>2, ScreenedAsked
<1>4. CASE ~ShowPrompt(c) /\ SameQuestions /\ NoNewButtons
  <2>1. Raised' /\ AskedOnce'
    BY <1>1, <1>4, WatchPoses, AskedFrame DEF Screened
  <2>2. CASE KeepsMessages(db, db') /\ work[c].at # "track"
    BY <1>1, <1>4, <2>1, <2>2, ButtonsFrame DEF Screened
  <2>3. CASE TrackPromptMessage(c)
    <3> DEFINE p == work[c].notice.show
               t == work[c].message
    <3>1. /\ keyboard' = keyboard /\ work[c].at = "track" /\ p \in Prompts
          /\ SetsMessage(db, db', p, t)
      BY <2>3, TrackPromptMessageStep DEF TrackPromptMessage
    <3>2. \A q \in Prompts : db'.prompt[q].message = IF q = p THEN t ELSE db.prompt[q].message
      BY <3>1 DEF SetsMessage
    <3>3. \A n \in DOMAIN keyboard : keyboard[n].prompt = p => n = t
      BY <3>1 DEF Screened, AskedOnce, Poses
    <3>4. t \in DOMAIN keyboard /\ keyboard[t].prompt = p
      BY <3>1 DEF Screened, AskedOnce
    <3> HIDE DEF p, t
    <3>5. ButtonsAreTracked'
      <4> SUFFICES ASSUME NEW m \in DOMAIN keyboard, keyboard[m].buttons = "live"
                   PROVE  \/ db'.prompt[keyboard[m].prompt].message = m
                          \/ \E x \in Chats : work'[x].at = "track" /\ work'[x].message = m
        BY <3>1 DEF ButtonsAreTracked
      <4>1. CASE m = t
        BY <3>1, <3>2, <3>4, <4>1
      <4>2. CASE m # t
        <5>1. keyboard[m].prompt # p /\ keyboard[m].prompt \in Prompts
          BY <3>3, <4>2, ScreenKnown
        <5>2. \A x \in Chats : work[x].at = "track" /\ work[x].message = m => work'[x] = work[x]
          BY <1>1, <4>2 DEF t
        <5> QED
          BY <3>2, <5>1, <5>2 DEF Screened, ButtonsAreTracked
      <4> QED
        BY <4>1, <4>2
    <3> QED
      BY <2>1, <3>5 DEF Screened
  <2>4. CASE TrackFails(c) /\ work[c].at = "track"
    <3> DEFINE t == work[c].message
               b == IF keyboard[t].buttons = "live" THEN "lost" ELSE keyboard[t].buttons
    <3>1. keyboard' = Redrawn(keyboard, t, b) /\ db' = db
      BY <2>4 DEF TrackFails, NoticeEnds, Redrawn
    <3>2. b \in {"lost"} \/ b = keyboard[t].buttons
      OBVIOUS
    <3>3. b # "live"
      OBVIOUS
    <3> HIDE DEF b
    <3>4. t \in DOMAIN keyboard => keyboard'[t].buttons = b
      BY <3>1, <3>2, RedrawnScreen
    <3>5. \A x \in Chats, m \in DOMAIN keyboard :
             work[x].at = "track" /\ work[x].message = m /\ m # t => work'[x] = work[x]
      BY <1>1
    <3> HIDE DEF t
    <3>6. ButtonsAreTracked'
      BY <1>4, <3>1, <3>3, <3>4, <3>5
         DEF Screened, ButtonsAreTracked, SameQuestions, NoNewButtons
    <3> QED
      BY <2>1, <3>6 DEF Screened
  <2>5. KeepsMessages(db, db') \/ TrackPromptMessage(c)
    BY WatchNothingNew
  <2>6. work[c].at = "track" => TrackPromptMessage(c) \/ TrackFails(c)
    BY WatchFrame
  <2> QED
    BY <2>2, <2>3, <2>4, <2>5, <2>6
<1>5. (SameQuestions /\ NoNewButtons) \/ ShowPrompt(c) \/ (NoticeFails(c) /\ keyboard' # keyboard)
  BY ScreenChanges
<1> QED
  BY <1>2, <1>3, <1>4, <1>5

LEMMA ScreenedStep ==
    ASSUME Typed, OnceEach, Screened, "webhook" \notin Faults, [Next]_vars PROVE Screened'
<1>0. StaysRaised
  BY OnceStep, LivesRaised
<1>1. CASE Aside
  BY <1>0, <1>1, ScreenedAside, SameNothingNew DEF Aside
<1>2. ASSUME NEW h \in Handlers, Submit(h) \/ Revert(h) \/ Resolve(h) PROVE Screened'
  <2>1. CASE KeepsPlaces(db, db') /\ HandlerOnly
    <3>1. KeepsMessages(db, db')
      BY <2>1 DEF KeepsPlaces, SamePlace, KeepsMessages
    <3> QED
      BY <1>0, <2>1, <3>1, ScreenedAside DEF HandlerOnly, userVars
  <2> QED
    BY <1>1, <1>2, <2>1, SubmitStep, SettleStep
<1>3. CASE db' = db /\ work' = work /\ keyboard' = keyboard
  BY <1>0, <1>3, ScreenedAside, SameStore, SameNothingNew
<1>4. ASSUME NEW c \in Chats, Watching(c) \/ ApplyWebhook(c) PROVE Screened'
  BY <1>0, <1>4, ScreenedWatch, ScreenedWebhook
<1> QED
  BY <1>1, <1>2, <1>3, <1>4, StepAside, ArriveFrame, AsksFrame, BridgeStep
     DEF PromptStep, Watching

LEMMA InitScreened == Init => Screened
BY DEF Init, Idle, Screened, Raised, AskedOnce, ButtonsAreTracked, Poses

\* When every webhook call comes once, however notices, answers, sweeps and
\* failures interleave, the row of a question refers to the very message that
\* has its buttons, or the notice that sent the message is about to write its id
\* down (trackPromptMessageReference after sendPromptMessage): one message asks a
\* question, so no second one takes its place in the row.  Not so for buttons
\* whose id the bot never learned or failed to write down, nor when a call comes
\* twice, nor for a bot that stops between the message and the row.
THEOREM ButtonsTracked == ASSUME "webhook" \notin Faults PROVE Spec => []ButtonsAreTracked
<1>1. Typed /\ OnceEach /\ Screened /\ [Next]_vars => Screened'
  BY ScreenedStep
<1>2. Spec => [](Typed /\ OnceEach)
  BY AlwaysOnce
<1>3. Screened => ButtonsAreTracked
  BY DEF Screened
<1> QED
  BY <1>1, <1>2, <1>3, InitScreened, PTL DEF Spec


-----------------------------------------------------------------------------
(* Crashes and starts                                                      *)

\* What a start has in memory.
Ask == [chat : Chats \cup {None}, task : Tasks \cup {None},
        answer : RemoteStatus \cup {"none", "missing", "failed"}]
BootType == [phase : Phases, todo : SUBSET [chat : Chats, session : Sessions, state : State],
             ask : Ask, closed : SUBSET [chat : Chats, session : Sessions],
             cut : SUBSET Sessions, crashes : Nat]
RTyped == Typed /\ boot \in BootType

LEMMA BootAskType == ASSUME boot \in BootType PROVE boot.ask \in Ask
BY DEF BootType

LEMMA UpType == Up \in BootType /\ [Up EXCEPT !.phase = "load"] \in BootType
<1>1. NoAsk \in Ask
  BY DEF NoAsk, Ask
<1> QED
  BY <1>1 DEF Up, BootType, Phases

LEMMA SnapshotsType ==
    ASSUME Sound(db)
    PROVE  ActiveBindings(db) \subseteq [chat : Chats, session : Sessions, state : State]
<1> SUFFICES ASSUME NEW k \in ActiveBindings(db)
             PROVE  k \in [chat : Chats, session : Sessions, state : State]
  OBVIOUS
<1>1. Snapshot(k)
  BY ActiveBindingsType DEF Sound
<1>2. k = [chat |-> k.chat, session |-> k.session, state |-> k.state]
  BY DEF ActiveBindings
<1> QED
  BY <1>1, <1>2 DEF Snapshot

\* A start leaves alone what handlers and the watcher do, and the prompts.
LEMMA BootAside ==
    ASSUME RTyped, BootStep
    PROVE  /\ SamePrompts(db, db') /\ db' \in StoreType
           /\ UNCHANGED <<op, inbox, sweep, work, keyboard, answers, serverVars>>
           /\ told' \in [Sessions -> BOOLEAN]
<1>1. UNCHANGED <<op, inbox, sweep, work, keyboard, answers, serverVars>>
  BY DEF BootStep, LoadBindings, AskAtBoot, Reconcile, StartBot, SendBootNotice,
         RestoreTokens, TellContinuityLost, StartTimer, BootOnly
<1>2. told' \in [Sessions -> BOOLEAN]
  BY DEF RTyped, Typed, UsersTyped, BootStep, LoadBindings, AskAtBoot, Reconcile, StartBot,
         SendBootNotice, RestoreTokens, TellContinuityLost, StartTimer
<1>3. SamePrompts(db, db') /\ db' \in StoreType
  <2>0. db \in StoreType
    BY DEF RTyped, Typed, Sound
  <2>1. CASE db' = db
    BY <2>0, <2>1, SameStore
  <2>2. CASE LoadBindings
    <3>1. CASE db' = MarkHealthy(db, ActiveBindings(db))
      <4> DEFINE ks == ActiveBindings(db)
      <4>1. MarkHealthy(db, ks) \in StoreType /\ OnlyStates(db, MarkHealthy(db, ks))
        BY <2>0, MarkHealthyEffect
      <4>2. db' = MarkHealthy(db, ks)
        BY <3>1
      <4> HIDE DEF ks
      <4> QED
        BY <4>1, <4>2 DEF OnlyStates
    <3> QED
      BY <2>1, <2>2, <3>1 DEF LoadBindings
  <2>3. CASE Reconcile
    <3>1. PICK k \in boot.todo : db' = Reconciled(db, k, boot.ask.answer, boot.ask.task)
      BY <2>3 DEF Reconcile
    <3>2. Snapshot(k)
      BY DEF RTyped, BootType, Snapshot
    <3>3. boot.ask.task \in Tasks \cup {None}
      BY BootAskType DEF RTyped, Ask
    <3> QED
      BY <2>0, <3>1, <3>2, <3>3, ReconciledEffect
  <2>4. CASE RestoreTokens
    BY <2>0, <2>4, RestoreEffect DEF RestoreTokens, OnlySessions
  <2> QED
    BY <2>1, <2>2, <2>3, <2>4
       DEF BootStep, AskAtBoot, StartBot, SendBootNotice, TellContinuityLost, StartTimer
<1> QED
  BY <1>1, <1>2, <1>3

LEMMA BootMemory == ASSUME RTyped, BootStep PROVE boot' \in BootType
<1>0. boot \in BootType /\ boot.ask \in Ask /\ NoAsk \in Ask
  BY BootAskType DEF RTyped, NoAsk, Ask
<1>1. CASE LoadBindings
  BY <1>0, <1>1, SnapshotsType DEF LoadBindings, RTyped, Typed, BootType, Phases
<1>2. CASE AskAtBoot
  <2>1. PICK k \in boot.todo :
           \/ /\ Alive(k.session)
              /\ boot' = [boot EXCEPT !.ask =
                    [chat |-> k.chat, answer |-> AnswerOf(k.session).status,
                     task |-> AnswerOf(k.session).task]]
           \/ \E f : boot' = [boot EXCEPT !.ask =
                    [chat |-> k.chat,
                     answer |-> IF ErrorOf(f, "getSessionState") = "NOT_FOUND"
                                THEN "missing" ELSE "failed",
                     task |-> None]]
    BY <1>2 DEF AskAtBoot
  <2>2. k.chat \in Chats /\ k.session \in Sessions
    BY DEF RTyped, BootType
  <2>3. PICK ask \in Ask : boot' = [boot EXCEPT !.ask = ask]
    <3>1. CASE Alive(k.session)
                 /\ boot' = [boot EXCEPT !.ask =
                        [chat |-> k.chat, answer |-> AnswerOf(k.session).status,
                         task |-> AnswerOf(k.session).task]]
      <4> DEFINE r == AnswerOf(k.session)
      <4>1. r \in Reply
        BY <2>2, <3>1, AnswerOfType DEF RTyped, Typed
      <4>2. boot' = [boot EXCEPT !.ask =
                        [chat |-> k.chat, answer |-> r.status, task |-> r.task]]
        BY <3>1
      <4> HIDE DEF r
      <4>3. [chat |-> k.chat, answer |-> r.status, task |-> r.task] \in Ask
        BY <2>2, <4>1 DEF Reply, Ask
      <4> QED
        BY <4>2, <4>3
    <3>2. CASE \E f : boot' = [boot EXCEPT !.ask =
                    [chat |-> k.chat,
                     answer |-> IF ErrorOf(f, "getSessionState") = "NOT_FOUND"
                                THEN "missing" ELSE "failed",
                     task |-> None]]
      BY <2>2, <3>2 DEF Ask
    <3> QED
      BY <2>1, <3>1, <3>2
  <2> QED
    BY <1>0, <2>3 DEF BootType
<1>3. CASE Reconcile
  <2>0. PICK k \in boot.todo : \E closed :
           /\ boot' = [boot EXCEPT !.todo = boot.todo \ {k}, !.ask = NoAsk, !.closed = closed]
           /\ closed \subseteq boot.closed \cup {[chat |-> k.chat, session |-> k.session]}
    BY <1>3 DEF Reconcile
  <2>1. PICK closed :
           /\ boot' = [boot EXCEPT !.todo = boot.todo \ {k}, !.ask = NoAsk, !.closed = closed]
           /\ closed \subseteq boot.closed \cup {[chat |-> k.chat, session |-> k.session]}
    BY <2>0
  <2>2. k.chat \in Chats /\ k.session \in Sessions
    BY DEF RTyped, BootType
  <2>3. closed \subseteq [chat : Chats, session : Sessions]
    BY <1>0, <2>1, <2>2 DEF BootType
  <2> QED
    BY <1>0, <2>1, <2>3 DEF BootType
<1>4. CASE StartBot \/ SendBootNotice \/ RestoreTokens \/ TellContinuityLost \/ StartTimer
  BY <1>0, <1>4
     DEF StartBot, SendBootNotice, RestoreTokens, TellContinuityLost, StartTimer, BootType,
         Phases
<1> QED
  BY <1>1, <1>2, <1>3, <1>4 DEF BootStep

LEMMA BootStepType == ASSUME RTyped, BootStep PROVE RTyped'
<1>1. Sound(db)'
  BY BootAside, SamePromptsSound DEF RTyped, Typed
<1>2. Typed'
  BY <1>1, BootAside
     DEF RTyped, Typed, ServerTypeOK, HandlersTyped, WorkTyped, QueuesTyped, UsersTyped, serverVars
<1> QED
  BY <1>2, BootMemory DEF RTyped

LEMMA CrashType == ASSUME RTyped, Crash PROVE RTyped'
<1>1. HandlersTyped' /\ WorkTyped' /\ QueuesTyped'
  BY FreeOK, IdleOK DEF Crash, HandlersTyped, WorkTyped, QueuesTyped
<1>2. Typed'
  BY <1>1 DEF Crash, RTyped, Typed, Sound, ServerTypeOK, UsersTyped, userVars, serverVars
<1>3. boot' \in BootType
  <2>1. boot.crashes + 1 \in Nat
    BY DEF RTyped, BootType
  <2>2. \A n \in Nat : [Up EXCEPT !.phase = "load", !.crashes = n] \in BootType
    BY BootAskType, UpType DEF Up, BootType, Phases
  <2> QED
    BY <2>1, <2>2 DEF Crash
<1> QED
  BY <1>2, <1>3 DEF RTyped

LEMMA UnheardType == ASSUME RTyped, NEW e \in wire, Unheard(e) PROVE RTyped'
BY DEF Unheard, RTyped, Typed, Sound, ServerTypeOK, HandlersTyped, WorkTyped, QueuesTyped,
       UsersTyped, botVars, userVars

\* A step of a bot that may crash: one of a bot that is up, one of a start, a
\* crash, or a webhook call that nobody hears.
LEMMA RestartCases ==
    ASSUME [RestartNext]_bootVars
    PROVE  \/ [Next]_vars /\ boot' = boot
           \/ Crash \/ BootStep
           \/ \E e \in wire : Unheard(e)
BY DEF RestartNext, Next, bootVars

LEMMA RestartTypeStep == ASSUME RTyped, [RestartNext]_bootVars PROVE RTyped'
<1>1. CASE [Next]_vars /\ boot' = boot
  BY <1>1, BotStepType, TimerStepType, WorldStepType, StutterTyped DEF Next, RTyped
<1> QED
  BY <1>1, RestartCases, CrashType, BootStepType, UnheardType

\* The types hold of a bot that dies and is started again, however often.
THEOREM RestartTyped == RestartSpec => []RTyped
<1>1. BootInit => RTyped
  BY InitTyped, UpType DEF BootInit, RTyped
<1>2. RTyped /\ [RestartNext]_bootVars => RTyped'
  BY RestartTypeStep
<1> QED
  BY <1>1, <1>2, PTL DEF RestartSpec

LEMMA UnheardAside == ASSUME NEW e \in wire, Unheard(e) PROVE Aside
BY SameStore DEF Unheard, Aside, KeepsAnswering, botVars, userVars

LEMMA BootStepAside == ASSUME RTyped, BootStep PROVE Aside
BY BootAside DEF Aside, KeepsAnswering, serverVars

\* Steps that no prompt notices, of the bot or of its start.
LEMMA RestartAside ==
    ASSUME RTyped, [RestartNext]_bootVars PROVE Aside \/ PromptStep \/ Crash
BY RestartCases, StepAside, BootStepAside, UnheardAside DEF RTyped

LEMMA CrashFrame ==
    ASSUME Crash
    PROVE  /\ UNCHANGED <<db, keyboard, answers, serverVars>>
           /\ \A h \in Handlers : op'[h].at = "free"
           /\ \A c \in Chats : inbox'[c] = <<>> /\ work'[c] = Idle
BY DEF Crash, Free, userVars

\* The same with crashes: an answer that was on its way when the bot died is
\* never taken for accepted.
THEOREM ResolvedIsTakenAfterCrash == RestartSpec => []ResolvedWasTaken
<1>1. RTyped /\ Taken_ /\ [RestartNext]_bootVars => Taken_'
  <2> SUFFICES ASSUME RTyped, Taken_, [RestartNext]_bootVars PROVE Taken_'
    OBVIOUS
  <2>1. CASE Crash
    BY <2>1, CrashFrame DEF Taken_, ResolvingWasTaken, ResolvedWasTaken
  <2> QED
    BY <2>1, RestartAside, TakenBotStep DEF RTyped
<1>2. Taken_ => ResolvedWasTaken
  BY DEF Taken_
<1> QED
  BY <1>1, <1>2, InitTaken, RestartTyped, PTL DEF RestartSpec, BootInit

LEMMA OnceCrash == ASSUME OnceEach, Crash PROVE OnceEach' /\ LivesOn(db, db') /\ OneAnswer
<1>1. LivesOn(db, db') /\ OneAnswer
  BY CrashFrame, SameStore, SameCalm, AnswersStay
<1>2. NoticesClosed'
  BY CrashFrame, NoNoticeClosed DEF NoticesClosed, Idle
<1>3. OneCall' /\ NotYetRaised'
  BY CrashFrame DEF OnceEach, OneCall, NotYetRaised, Waits, serverVars
<1>4. AnsweringAlone'
  BY CrashFrame DEF AnsweringAlone, Answering
<1> QED
  BY <1>1, <1>2, <1>3, <1>4 DEF OnceEach

LEMMA OnceRestart ==
    ASSUME RTyped, OnceEach, "webhook" \notin Faults, [RestartNext]_bootVars
    PROVE  OnceEach' /\ LivesOn(db, db') /\ OneAnswer
BY RestartAside, OnceAside, OncePrompt, OnceCrash, AsideAlone, PromptAlone DEF RTyped

LEMMA AlwaysOnceAfterCrash ==
    ASSUME "webhook" \notin Faults PROVE RestartSpec => [](RTyped /\ OnceEach)
<1>1. RTyped /\ OnceEach /\ [RestartNext]_bootVars => OnceEach'
  BY OnceRestart
<1> QED
  BY <1>1, InitOnce, RestartTyped, PTL DEF RestartSpec, BootInit

\* A crash at any point does not take a prompt out of its life: a start neither
\* opens, gives back nor closes one.
THEOREM PromptsLiveAfterCrash ==
    ASSUME "webhook" \notin Faults PROVE RestartSpec => ImplementsPromptLife
<1>1. RTyped /\ OnceEach /\ [RestartNext]_bootVars /\ RTyped' =>
         [Life!Next]_([p \in Prompts |-> db.prompt[p].status])
  BY OnceRestart, LifeStep DEF RTyped, Typed
<1>2. RestartSpec => [](RTyped /\ OnceEach)
  BY AlwaysOnceAfterCrash
<1> QED
  BY <1>1, <1>2, LifeInit, PTL DEF RestartSpec, BootInit, ImplementsPromptLife, Life!Spec

\* Nor does a crash let a second handler answer what a first one has in hand.
THEOREM OneAnswerOnlyAfterCrash ==
    ASSUME "webhook" \notin Faults PROVE RestartSpec => OneAnswerAtATime
<1>1. RTyped /\ OnceEach /\ [RestartNext]_bootVars => OneAnswer
  BY OnceRestart
<1>2. RestartSpec => [](RTyped /\ OnceEach)
  BY AlwaysOnceAfterCrash
<1>3. OneAnswer =>
         [\A p \in Prompts : answers'[p] # answers[p] =>
             /\ db.prompt[p].status # "resolved"
             /\ \A g, h \in Handlers :
                   /\ op[g].prompt = p /\ op[g].at \in {"bridge", "revert", "resolve"}
                   /\ op[h].prompt = p /\ op[h].at \in {"bridge", "revert", "resolve"}
                   => g = h]_vars
  BY DEF OneAnswer
<1> QED
  BY <1>1, <1>2, <1>3, PTL DEF RestartSpec, OneAnswerAtATime

-----------------------------------------------------------------------------
(* The rows of bindings, states, sessions and tasks                        *)

\* The watchdog counts one more failed attempt to ask for session s.
Counts(s) ==
    /\ ~Ended(s) /\ db'.session[s].retry = db.session[s].retry + 1
    /\ \E c \in Chats : ReactToFailure(c) /\ work[c].session = s

\* Only the attempts that failed are counted, or counted from the start.
RetryStep ==
    /\ OnlySessions(db, db')
    /\ \E s \in Sessions :
          /\ SetsRetry(db, db', s)
          /\ db'.session[s].retry \in {db.session[s].retry, 0} \/ Counts(s)

\* An accepted event e, of a webhook or of the watchdog, is applied to chat c.
AppliesEvent(c, e, by) ==
    EventStep(c, e, by) /\ Accepts(db, c, e, SourceOf(by)) /\ op' = op

LEMMA SameRows == ASSUME NEW d, NEW e, e = d PROVE OnlyPrompts(d, e)
BY DEF OnlyPrompts, SameBindings, SameStates, SameSessions, SameTasks

LEMMA HandlerRows ==
    ASSUME Typed, NEW h \in Handlers, HandlerStep(h)
    PROVE  OnlyPrompts(db, db') \/ Learn(h) \/ Commit(h)
<1>1. CASE \/ AskStatus(h) \/ Decide(h) \/ LookupByText(h) \/ LookupByButton(h)
           \/ LoadSelect(h) \/ LoadOther(h) \/ LoadRefused(h)
           \/ Call(h) \/ CallFails(h) \/ Bridge(h)
  BY <1>1, SameRows
     DEF AskStatus, Decide, LookupByText, LookupByButton, LoadSelect, LoadOther, LoadRefused,
         Call, CallFails, Bridge
<1>2. CASE Submit(h)
  <2>1. op[h].prompt \in Prompts
    BY <1>2 DEF Typed, HandlersTyped, HandlerOK, Submit
  <2> QED
    BY <1>2, <2>1, SameRows, SubmitPreflightEffect DEF Submit, Typed
<1>3. CASE Revert(h) \/ Resolve(h)
  BY <1>3, CompareAndSetEffect
     DEF Revert, Resolve, SubmitRevert, SubmitResolve, PromptStatus, Typed, Sound
<1> QED
  BY <1>1, <1>2, <1>3 DEF HandlerStep

LEMMA WatchRows ==
    ASSUME Typed, NEW c \in Chats, Watching(c)
    PROVE  \/ OnlyPrompts(db, db') \/ RetryStep
           \/ Conclude(c) /\ AppliesEvent(c, Verdict(work[c]), work[c].by)
<1>0. db \in StoreType
  BY DEF Typed, Sound
<1>1. CASE BeginCandidate(c)
  BY <1>0, <1>1, CompareAndSetEffect DEF BeginCandidate, StartCandidate, ExpirePrompt, PromptStatus
<1>2. CASE AskRemote(c) \/ ShowPrompt(c) \/ CleanKeyboard(c) \/ Say(c) \/ NoticeFails(c) \/ TrackFails(c)
  BY <1>2, SameRows DEF AskRemote, ShowPrompt, CleanKeyboard, Say, NoticeFails, TrackFails, NoticeEnds
<1>3. CASE ReactToFailure(c) \/ TouchSession(c)
  <2>1. work[c].session \in Sessions
    BY <1>3 DEF ReactToFailure, TouchSession, Typed, WorkTyped, WatchOK
  <2>2. CASE ReactToFailure(c)
    <3>1. db' = CountFailure(db, work[c].session)
      BY <2>2 DEF ReactToFailure
    <3> QED
      BY <1>0, <2>1, <2>2, <3>1, CountFailureEffect DEF RetryStep, Counts, Ended
  <2>3. CASE TouchSession(c)
    BY <1>0, <2>1, <2>3, TouchEffect DEF TouchSession, RetryStep
  <2> QED
    BY <1>3, <2>2, <2>3
<1>4. CASE React(c)
  BY <1>0, <1>4, CompareAndSetEffect, SameRows DEF React, CancelPrompt, PromptStatus
<1>5. CASE TrackPromptMessage(c) \/ TrackPromptCleanup(c)
  <2>1. work[c].message \in Nat
    BY DEF Typed, WorkTyped, Work
  <2>2. CASE TrackPromptMessage(c)
    BY <1>0, <2>1, <2>2, TrackMessageEffect
       DEF TrackPromptMessage, Typed, WorkTyped, WatchOK
  <2>3. CASE TrackPromptCleanup(c)
    BY <1>0, <2>3, TrackCleanupEffect
       DEF TrackPromptCleanup, Typed, WorkTyped, WatchOK
  <2> QED
    BY <1>5, <2>2, <2>3
<1>6. CASE Conclude(c)
  <2>1. op' = op
    BY <1>6 DEF Conclude, WatchOnly
  <2> QED
    BY <1>6, <2>1, ConcludeStep, SameRows DEF AppliesEvent
<1> QED
  BY <1>1, <1>2, <1>3, <1>4, <1>5, <1>6 DEF Watching, WatchStep

LEMMA WebhookRows ==
    ASSUME Typed, NEW c \in Chats, ApplyWebhook(c)
    PROVE  OnlyPrompts(db, db') \/ AppliesEvent(c, Head(inbox[c]), "webhook")
BY ApplyWebhookStep, SameRows DEF AppliesEvent, SourceOf

\* Who writes more than a prompt: a status answer, the end of a use case, the
\* count of failed attempts, an event.
RowStep ==
    \/ OnlyPrompts(db, db') \/ RetryStep
    \/ \E h \in Handlers : Learn(h) \/ Commit(h)
    \/ \E c \in Chats : \/ Conclude(c) /\ AppliesEvent(c, Verdict(work[c]), work[c].by)
                        \/ ApplyWebhook(c) /\ AppliesEvent(c, Head(inbox[c]), "webhook")

LEMMA BotRows == ASSUME Typed, BotStep PROVE RowStep
<1>1. CASE \/ \E h \in Handlers, c \in Chats :
                \/ \E kind \in Commands : Begin(h, c, kind)
                \/ \E p \in Prompts : Press(h, c, p)
           \/ \E e \in wire : Arrive(e) \/ ArriveUnknown(e) \/ Lose(e)
  BY <1>1, SameRows DEF Begin, Press, Arrive, ArriveUnknown, Lose, botVars, RowStep
<1>2. CASE \E h \in Handlers : HandlerStep(h)
  BY <1>2, HandlerRows DEF RowStep
<1>3. CASE \E c \in Chats : BeginCandidate(c) \/ ApplyWebhook(c) \/ WatchStep(c)
  BY <1>3, WatchRows, WebhookRows DEF RowStep, Watching
<1> QED
  BY <1>1, <1>2, <1>3 DEF BotStep

LEMMA StepRows == ASSUME Typed, [Next]_vars PROVE RowStep
<1>1. CASE TimerStep \/ WorldStep \/ UNCHANGED vars
  BY <1>1, SameRows DEF TimerStep, BeginSweep, StartSweep, WorldStep, vars, botVars, RowStep
<1> QED
  BY <1>1, BotRows DEF Next

LEMMA BootRows ==
    ASSUME RTyped, BootStep
    PROVE  /\ op' = op /\ UNCHANGED serverVars
           /\ \A s \in Sessions :
                 /\ db'.session[s].token => db.session[s].token
                 /\ db'.session[s].terminal = db.session[s].terminal
                 /\ db'.session[s].watched = db.session[s].watched
<1>0. db \in StoreType
  BY DEF RTyped, Typed, Sound
<1>1. op' = op /\ UNCHANGED serverVars
  BY BootAside DEF serverVars
<1>2. SameSessions(db, db') \/ RestoreTokens
  <2>1. CASE LoadBindings
    BY <1>0, <2>1, MarkHealthyEffect DEF LoadBindings, OnlyStates, SameSessions
  <2>2. CASE Reconcile
    <3>1. PICK k \in boot.todo : db' = Reconciled(db, k, boot.ask.answer, boot.ask.task)
      BY <2>2 DEF Reconcile
    <3>2. Snapshot(k)
      BY DEF RTyped, BootType, Snapshot
    <3>3. boot.ask.task \in Tasks \cup {None}
      BY BootAskType DEF RTyped, Ask
    <3> QED
      BY <1>0, <3>1, <3>2, <3>3, ReconciledEffect
  <2> QED
    BY <2>1, <2>2
       DEF BootStep, AskAtBoot, StartBot, SendBootNotice, TellContinuityLost, StartTimer,
           SameSessions
<1>3. CASE SameSessions(db, db')
  BY <1>1, <1>3 DEF SameSessions
<1>4. CASE RestoreTokens
  BY <1>0, <1>1, <1>4, RestoreEffect DEF RestoreTokens
<1> QED
  BY <1>2, <1>3, <1>4

-----------------------------------------------------------------------------
(* The first cause of an end                                               *)

\* No webhook call of kind k is on its way or waits, and a step makes none.
NoCall(k) ==
    /\ \A e \in wire : e.kind # k
    /\ \A c \in Chats : \A i \in 1..Len(inbox[c]) : inbox[c][i].kind # k
NoNewCall(k) == \A e \in wire' : e \in wire \/ e.kind # k

\* No webhook call says that a run was resumed: the code would take it for the
\* end of the run.
NoResumed == NoCall("resumed")

LEMMA ReportsNamed ==
    ASSUME NEW k, NEW s, NEW token, NEW run, NEW kinds, k \notin kinds,
           wire' = wire \cup Reports(s, token, run, kinds)
    PROVE  NoNewCall(k)
BY DEF Reports, NoNewCall

\* The server makes no call of a kind that it has no reason for.
LEMMA ServerCallNamed ==
    ASSUME NEW k, k \notin ResumeKinds \cup EndKinds \cup {"started"}, NEW s, NEW token,
           ServerAsks(s, token) => k # "needs-input",
           \/ ServerCreate(s) \/ ServerCancel(s) \/ ServerReply(s, token)
           \/ ServerAsks(s, token) \/ ServerRun(s, token) \/ ServerResume(s)
           \/ RunCrashes(s) \/ \E kind \in EndKinds : RunEnds(s, kind)
           \/ UNCHANGED serverVars
    PROVE  NoNewCall(k)
<1>1. CASE wire' = wire
  BY <1>1 DEF NoNewCall
<1>2. CASE ServerAsks(s, token) \/ ServerRun(s, token)
  BY <1>2, ReportsNamed DEF ServerAsks, ServerRun
<1>3. CASE ServerResume(s)
  BY <1>3, ReportsNamed DEF ServerResume
<1>4. CASE \E kind \in EndKinds : RunEnds(s, kind)
  BY <1>4, ReportsNamed DEF RunEnds
<1> QED
  BY <1>1, <1>2, <1>3, <1>4
     DEF ServerCreate, ServerCancel, ServerReply, RunCrashes, serverVars

LEMMA AsksNamed ==
    ASSUME NEW k, k # "needs-input", NEW s, NEW p, RunAsks(s, p) PROVE NoNewCall(k)
BY DEF RunAsks, Reports, NoNewCall

\* A run that stops at a question makes the session wait.
LEMMA AsksWait ==
    ASSUME Typed, NEW s \in Sessions, NEW token, NEW p,
           ServerAsks(s, token) \/ RunAsks(s, p)
    PROVE  remote'[s].status = "needs-attention"
<1>1. remote \in [Sessions -> RemoteSession] /\ remote[s] \in RemoteSession
  BY DEF Typed, ServerTypeOK
<1>2. CASE ServerAsks(s, token)
  BY <1>1, <1>2 DEF ServerAsks
<1>3. CASE RunAsks(s, p)
  <2> DEFINE row == [remote[s] EXCEPT !.status = "needs-attention", !.prompt = p]
  <2>1. row.status = "needs-attention"
    BY <1>1 DEF RemoteSession
  <2>2. remote' = [remote EXCEPT ![s] = row]
    BY <1>3 DEF RunAsks
  <2> HIDE DEF row
  <2> QED
    BY <1>1, <2>1, <2>2
<1> QED
  BY <1>2, <1>3

\* No run stops at a question.
NoneWaits == \A s \in Sessions : remote[s].status # "needs-attention"

LEMMA HandlerNamed ==
    ASSUME Typed, NEW k, k \notin ResumeKinds \cup EndKinds \cup {"started"},
           NoneWaits' \/ k # "needs-input", NEW h \in Handlers, HandlerStep(h)
    PROVE  NoNewCall(k) /\ inbox' = inbox
<1>1. CASE Call(h)
  <2>1. PICK s \in Sessions \cup {None}, reply \in Reply : ServerDoes(h, s, reply)
    BY <1>1 DEF Call
  <2>2. \/ ServerCreate(s) \/ ServerCancel(s) \/ ServerReply(s, op[h].token)
        \/ ServerAsks(s, op[h].token) \/ ServerRun(s, op[h].token) \/ UNCHANGED serverVars
    BY <2>1 DEF ServerDoes
  <2>3. ASSUME ServerAsks(s, op[h].token), s \in Sessions PROVE k # "needs-input"
    BY <2>3, AsksWait DEF NoneWaits
  <2>4. ASSUME ServerAsks(s, op[h].token) PROVE k # "needs-input"
    <3>1. CASE op[h].kind \in {"text", "run"}
      <4>1. op[h].at = "call" /\ s = op[h].session
        BY <1>1, <2>1, <3>1 DEF Call, ServerDoes
      <4>2. s \in Sessions
        BY <3>1, <4>1 DEF Typed, HandlersTyped, HandlerOK
      <4> QED
        BY <2>3, <2>4, <4>2
    <3>2. CASE op[h].kind \notin {"text", "run"}
      <4>1. \/ ServerCreate(s) \/ ServerCancel(s) \/ UNCHANGED serverVars
        BY <2>1, <3>2 DEF ServerDoes
      <4>2. runs' = runs
        BY <4>1 DEF ServerCreate, ServerCancel, serverVars
      <4>3. FreshTask \in runs' /\ FreshTask \notin runs
        BY <2>4, FreshTaskType DEF ServerAsks
      <4> QED
        BY <4>2, <4>3
    <3> QED
      BY <3>1, <3>2
  <2> QED
    BY <1>1, <2>2, <2>4, ServerCallNamed DEF Call
<1>2. CASE Bridge(h)
  <2>1. ServerResume(op[h].session) \/ UNCHANGED serverVars
    BY <1>2 DEF Bridge
  <2>2. NoNewCall(k)
    <3>1. CASE ServerResume(op[h].session)
      BY <3>1, ReportsNamed DEF ServerResume
    <3> QED
      BY <2>1, <3>1 DEF serverVars, NoNewCall
  <2> QED
    BY <1>2, <2>2 DEF Bridge
<1>3. CASE HandlerOnly
  BY <1>3 DEF HandlerOnly, serverVars, NoNewCall
<1> QED
  BY <1>1, <1>2, <1>3
     DEF HandlerStep, AskStatus, Learn, Decide, LookupByText, LookupByButton, LoadSelect,
         LoadOther, LoadRefused, CallFails, Commit, Submit, Revert, Resolve

LEMMA WorldNamed ==
    ASSUME Typed, NEW k, k \notin ResumeKinds \cup EndKinds \cup {"started"},
           NoneWaits' \/ k # "needs-input", WorldStep
    PROVE  NoNewCall(k) /\ inbox' = inbox
<1>1. PICK s \in Sessions :
        \/ \E kind \in EndKinds : RunEnds(s, kind)
        \/ RunCrashes(s)
        \/ \E p \in (Prompts \ asked) \cup {None} : RunAsks(s, p)
        \/ ServerResume(s)
  BY DEF WorldStep, ServerStep, AnsweredAtPc
<1>2. ASSUME \/ RunCrashes(s) \/ ServerResume(s)
             \/ \E kind \in EndKinds : RunEnds(s, kind)
      PROVE  NoNewCall(k)
  <2>1. CASE ServerResume(s)
    BY <2>1, ReportsNamed DEF ServerResume
  <2>2. CASE \E kind \in EndKinds : RunEnds(s, kind)
    BY <2>2, ReportsNamed DEF RunEnds
  <2> QED
    BY <1>2, <2>1, <2>2 DEF RunCrashes, NoNewCall
<1>3. ASSUME NEW p, RunAsks(s, p) PROVE k # "needs-input"
  BY <1>3, AsksWait DEF NoneWaits
<1> QED
  BY <1>1, <1>2, <1>3, AsksNamed DEF WorldStep, botVars

LEMMA NamedStays ==
    ASSUME NEW k, NoCall(k), NoNewCall(k), inbox' = inbox PROVE NoCall(k)'
BY DEF NoCall, NoNewCall

LEMMA NamedArrive == ASSUME Typed, NEW k, NoCall(k), NEW e \in wire, Arrive(e) PROVE NoCall(k)'
<1>1. PICK c \in Chats : inbox' = [inbox EXCEPT ![c] = Append(inbox[c], e)]
  BY DEF Arrive
<1>2. inbox[c] \in Seq(Event) /\ e \in Event
  BY DEF Typed, QueuesTyped, ServerTypeOK
<1>3. \A i \in 1..Len(Append(inbox[c], e)) : Append(inbox[c], e)[i].kind # k
  BY <1>2, AppendProperties DEF NoCall
<1>4. \A x \in Chats : x # c => inbox'[x] = inbox[x]
  BY <1>1 DEF Typed, QueuesTyped
<1>5. inbox'[c] = Append(inbox[c], e)
  BY <1>1 DEF Typed, QueuesTyped
<1>6. wire' \subseteq wire
  BY DEF Arrive, Taken
<1> QED
  BY <1>3, <1>4, <1>5, <1>6 DEF NoCall

LEMMA NamedWebhook ==
    ASSUME Typed, NEW k, NoCall(k), NEW c \in Chats, ApplyWebhook(c)
    PROVE  NoCall(k)' /\ Head(inbox[c]).kind # k
<1>1. inbox[c] \in Seq(Event) /\ inbox[c] # <<>>
  BY DEF Typed, QueuesTyped, ApplyWebhook
<1>2. inbox' = [inbox EXCEPT ![c] = Tail(inbox[c])] /\ wire' = wire
  BY DEF ApplyWebhook, serverVars
<1>3. Len(inbox[c]) \in Nat \ {0}
  BY <1>1, EmptySeq, LenProperties
<1>4. Head(inbox[c]).kind # k
  BY <1>1, <1>3, HeadTailProperties DEF NoCall
<1>5. /\ Len(Tail(inbox[c])) = Len(inbox[c]) - 1
      /\ \A i \in 1..Len(Tail(inbox[c])) : Tail(inbox[c])[i] = inbox[c][i + 1]
  BY <1>1, HeadTailProperties
<1>6. \A i \in 1..Len(Tail(inbox[c])) : Tail(inbox[c])[i].kind # k
  BY <1>3, <1>5 DEF NoCall
<1>7. \A x \in Chats : x # c => inbox'[x] = inbox[x]
  BY <1>2 DEF Typed, QueuesTyped
<1>8. inbox'[c] = Tail(inbox[c])
  BY <1>2 DEF Typed, QueuesTyped
<1> QED
  BY <1>2, <1>4, <1>6, <1>7, <1>8 DEF NoCall

LEMMA NamedBot ==
    ASSUME Typed, NEW k, NoCall(k), k \notin ResumeKinds \cup EndKinds \cup {"started"},
           NoneWaits' \/ k # "needs-input", [Next]_vars
    PROVE  NoCall(k)'
<1>1. CASE wire' \subseteq wire /\ inbox' = inbox
  BY <1>1, NamedStays DEF NoNewCall
<1>2. CASE \E h \in Handlers, c \in Chats :
              \/ \E kind \in Commands : Begin(h, c, kind)
              \/ \E p \in Prompts : Press(h, c, p)
  BY <1>1, <1>2 DEF Begin, Press, HandlerOnly, serverVars
<1>3. CASE \E e \in wire : Arrive(e) \/ ArriveUnknown(e) \/ Lose(e)
  BY <1>1, <1>3, NamedArrive DEF ArriveUnknown, Lose, botVars
<1>4. CASE \E c \in Chats : BeginCandidate(c) \/ ApplyWebhook(c) \/ WatchStep(c)
  BY <1>1, <1>4, NamedWebhook, WatchFrame DEF Watching, serverVars
<1>5. CASE TimerStep \/ UNCHANGED vars
  BY <1>1, <1>5 DEF TimerStep, BeginSweep, StartSweep, serverVars, vars, botVars
<1> QED
  BY <1>2, <1>3, <1>4, <1>5, HandlerNamed, WorldNamed, NamedStays DEF Next, BotStep

LEMMA NamedStep ==
    ASSUME RTyped, NoResumed, "resumed" \notin ResumeKinds, [RestartNext]_bootVars
    PROVE  NoResumed'
<1>1. CASE Crash
  BY <1>1 DEF Crash, NoResumed, NoCall, serverVars
<1>2. CASE BootStep
  BY <1>2, BootAside, NamedStays DEF NoResumed, NoNewCall, serverVars
<1>3. CASE \E e \in wire : Unheard(e)
  BY <1>3, NamedStays DEF Unheard, NoResumed, NoNewCall, botVars
<1> QED
  BY <1>1, <1>2, <1>3, RestartCases, NamedBot, OpenCodeAssumption DEF RTyped, NoResumed

LEMMA InitNamed == Init => NoResumed
BY DEF Init, ServerInit, NoResumed, NoCall

\* The cause of an end stays until an order or an attach of the session.
CauseStays ==
    \A s \in Sessions : Ended(s) =>
        \/ db'.session[s].terminal = db.session[s].terminal
        \/ /\ db'.session[s].terminal = "none"
           /\ \E h \in Handlers : op[h].at = "commit" /\ op[h].session = s

LEMMA SameSessionsCause == ASSUME SameSessions(db, db') PROVE CauseStays
BY DEF SameSessions, CauseStays

\* The row that the end of a use case writes for the session of the order.
LEMMA CommitSessions ==
    ASSUME Typed, NEW h \in Handlers, Commit(h)
    PROVE  /\ op[h].at = "commit"
           /\ \/ SameSessions(db, db')
              \/ /\ op[h].kind = "new" /\ op[h].session \in Sessions
                 /\ SetsSession(db, db', op[h].session, WatchedSession)
              \/ /\ op[h].session \in Sessions
                 /\ \/ SetsSession(db, db', op[h].session, NoSession)
                    \/ SetsSession(db, db', op[h].session,
                                   [db.session[op[h].session] EXCEPT !.terminal = "none"])
<1> DEFINE o == op[h]
<1>1. op[h] \in Handler /\ HandlerOK(op[h]) /\ op[h].at = "commit" /\ op[h].kind \in Orders
  BY DEF Typed, HandlersTyped, HandlerOK, Commit
<1>2. /\ o.chat \in Chats /\ o.reply \in Reply /\ o.mode \in Modes
      /\ o.project \in Projects \cup {None} /\ db \in StoreType
      /\ o.kind # "project" => o.session \in Sessions
      /\ o.kind = "project" => o.project \in Projects
  BY <1>1 DEF HandlerOK, Handler, Typed, Sound
<1>3. CASE o.kind = "project"
  BY <1>1, <1>2, <1>3, SelectCommitEffect DEF Commit
<1>4. CASE o.kind = "session"
  BY <1>1, <1>2, <1>4, AttachCommitEffect DEF Commit
<1>5. CASE o.kind = "new"
  BY <1>1, <1>2, <1>5, CreateCommitEffect DEF Commit
<1>6. CASE o.kind = "text"
  BY <1>1, <1>2, <1>6, ExecuteCommitEffect, ModeOfStatusType DEF Commit, SendCommit
<1>7. CASE o.kind = "run"
  BY <1>1, <1>2, <1>7, ExecuteCommitEffect, ModeOfRunType DEF Commit, RunCommit
<1>8. CASE o.kind = "cancel"
  BY <1>1, <1>2, <1>8, CancelCommitEffect DEF Commit
<1> QED
  BY <1>1, <1>3, <1>4, <1>5, <1>6, <1>7, <1>8 DEF Orders

LEMMA CommitCause == ASSUME Typed, NEW h \in Handlers, Commit(h) PROVE CauseStays
<1>1. db.session \in [Sessions -> Session]
  BY DEF Typed, Sound, StoreType
<1>2. NoSession.terminal = "none" /\ WatchedSession.terminal = "none"
  BY DEF NoSession, WatchedSession
<1>3. \A s \in Sessions : [db.session[s] EXCEPT !.terminal = "none"].terminal = "none"
  BY <1>1 DEF Session
<1>4. CASE \E row : /\ op[h].session \in Sessions /\ row.terminal = "none"
                    /\ SetsSession(db, db', op[h].session, row)
  BY <1>1, <1>4, CommitSessions DEF SetsSession, CauseStays
<1> QED
  BY <1>2, <1>3, <1>4, CommitSessions, SameSessionsCause

LEMMA EventCause ==
    ASSUME Typed, NEW c \in Chats, NEW e, NEW by, AppliesEvent(c, e, by),
           e.session \in Sessions,
           e.kind \in {"started", "completed", "failed", "needs-input"}
    PROVE  CauseStays
<1>1. EventSessions(db, db', e.session, e.kind, SourceOf(by))
  BY DEF AppliesEvent, EventStep
<1>2. e.kind \in {"completed", "failed"} => db.session[e.session].terminal = "none"
  BY DEF AppliesEvent, Accepts, Duplicate, Terminals
<1> QED
  BY <1>1, <1>2 DEF EventSessions, CauseStays, Ended

LEMMA BotCause == ASSUME Typed, NoResumed, [Next]_vars PROVE CauseStays
<1>1. CASE OnlyPrompts(db, db')
  BY <1>1, SameSessionsCause DEF OnlyPrompts
<1>2. CASE RetryStep
  BY <1>2 DEF RetryStep, SetsRetry, CauseStays
<1>3. ASSUME NEW h \in Handlers, Learn(h) PROVE CauseStays
  <2>1. op[h] \in Handler /\ HandlerOK(op[h]) /\ op[h].at = "learn"
    BY <1>3 DEF Typed, HandlersTyped, Learn
  <2>2. op[h].chat \in Chats /\ op[h].session \in Sessions /\ op[h].reply \in Reply
    BY <2>1 DEF HandlerOK, Handler
  <2> QED
    BY <1>3, <2>2, StatusCommitEffect, SameSessionsCause DEF Learn, Typed, Sound
<1>4. ASSUME NEW c \in Chats, Conclude(c), AppliesEvent(c, Verdict(work[c]), work[c].by)
      PROVE  CauseStays
  <2>1. /\ Verdict(work[c]).kind \in {"needs-input", "failed"}
        /\ Verdict(work[c]).session \in Sessions
    BY <1>4 DEF Conclude, Verdict, Typed, WorkTyped, WatchOK
  <2> QED
    BY <1>4, <2>1, EventCause
<1>5. ASSUME NEW c \in Chats, ApplyWebhook(c), AppliesEvent(c, Head(inbox[c]), "webhook")
      PROVE  CauseStays
  <2>1. Head(inbox[c]) \in Event /\ Head(inbox[c]).kind # "resumed"
    BY <1>5, ApplyWebhookStep, NamedWebhook DEF NoResumed
  <2>2. /\ Head(inbox[c]).session \in Sessions
        /\ Head(inbox[c]).kind \in {"started", "completed", "failed", "needs-input"}
    BY <2>1 DEF Event, EventKinds
  <2> QED
    BY <1>5, <2>2, EventCause
<1> QED
  BY <1>1, <1>2, <1>3, <1>4, <1>5, StepRows, CommitCause DEF RowStep

LEMMA RestartCause ==
    ASSUME RTyped, NoResumed, [RestartNext]_bootVars PROVE CauseStays
<1>1. CASE Crash \/ \E e \in wire : Unheard(e)
  BY <1>1, SameSessionsCause DEF Crash, Unheard, botVars, SameSessions
<1>2. CASE BootStep
  BY <1>2, BootRows DEF CauseStays
<1> QED
  BY <1>1, <1>2, RestartCases, BotCause DEF RTyped

\* A webhook and the watchdog that race record one end, and a crash does not
\* re-arm the session: only the commit of an order or of an attach does.  A
\* server that says "resumed" is left out: the code takes that for an end.
THEOREM FirstCauseKept ==
    ASSUME "resumed" \notin ResumeKinds PROVE RestartSpec => FirstCauseStays
<1>1. RTyped /\ NoResumed /\ [RestartNext]_bootVars => NoResumed'
  BY NamedStep
<1>2. RTyped /\ NoResumed /\ [RestartNext]_bootVars => CauseStays
  BY RestartCause
<1>3. CauseStays =>
         [\A s \in Sessions : Ended(s) =>
            \/ db'.session[s].terminal = db.session[s].terminal
            \/ /\ db'.session[s].terminal = "none"
               /\ \E h \in Handlers : op[h].at = "commit" /\ op[h].session = s]_vars
  BY DEF CauseStays
<1> QED
  BY <1>1, <1>2, <1>3, InitNamed, RestartTyped, PTL DEF RestartSpec, BootInit, FirstCauseStays

-----------------------------------------------------------------------------
(* How a handler proceeds                                                  *)

\* The next step o of handler h, with the session and the answer that it has
\* from its chat's binding or from the server.
NextMove(h, o) ==
    /\ op[h].at # "free" /\ o.at \notin {"free", "ask"}
    /\ o.chat = op[h].chat /\ o.kind = op[h].kind
    /\ o.at = "learn" =>
          /\ op[h].at = "ask" /\ o.session = op[h].session
          /\ o.reply = AnswerOf(op[h].session)
    /\ o.at = "decide" => op[h].at \in {"ask", "learn"}
    /\ o.at = "lookup" => op[h].at = "decide"
    /\ o.at = "load" => op[h].at \in {"decide", "lookup"}
    /\ o.at = "call" =>
          \/ op[h].at = "call" /\ o.session = op[h].session /\ o.token = op[h].token
          \/ /\ op[h].at = "load"
             /\ o.kind \in {"text", "run", "cancel"} => o.session = db.binding[o.chat].session
             /\ o.kind \in {"text", "run"} => o.token = RegistrationOf(o.session)
    /\ o.at = "commit" =>
          \/ op[h].at = "load" /\ o.kind = "project" /\ o.session = None
          \/ op[h].at = "call" /\ ServerDoes(h, o.session, o.reply)

Proceeds(h) == op' = [op EXCEPT ![h] = Free] \/ \E o : op' = [op EXCEPT ![h] = o] /\ NextMove(h, o)

LEMMA GoesProceeds ==
    ASSUME Typed, NEW h \in Handlers, op[h].at # "free",
           NEW at \in HandlerSteps \ {"free", "ask", "learn", "lookup", "call", "commit"},
           at = "decide" => op[h].at = "ask", at = "load" => op[h].at = "lookup", Goes(h, at)
    PROVE  Proceeds(h)
<1> DEFINE o == [op[h] EXCEPT !.at = at]
<1>1. op[h] \in Handler
  BY DEF Typed, HandlersTyped
<1>2. o.at = at /\ o.chat = op[h].chat /\ o.kind = op[h].kind
  BY <1>1 DEF Handler
<1>3. op' = [op EXCEPT ![h] = o]
  BY DEF Goes
<1> HIDE DEF o
<1>4. NextMove(h, o)
  BY <1>2 DEF NextMove
<1> QED
  BY <1>3, <1>4 DEF Proceeds

LEMMA FailsProceeds ==
    ASSUME Typed, NEW h \in Handlers, op[h].at \in {"call", "bridge"}, NEW f,
           NEW at \in {"free", "revert"}, Fails(h, f, at)
    PROVE  Proceeds(h)
<1> DEFINE o == [op[h] EXCEPT !.posts = op[h].posts + 1]
<1>1. op[h] \in Handler
  BY DEF Typed, HandlersTyped
<1>2. /\ o.at = op[h].at /\ o.chat = op[h].chat /\ o.kind = op[h].kind
      /\ o.session = op[h].session /\ o.token = op[h].token
  BY <1>1 DEF Handler
<1>3. CASE op' = [op EXCEPT ![h] = o]
  <2> HIDE DEF o
  <2>1. NextMove(h, o)
    BY <1>2 DEF NextMove
  <2> QED
    BY <1>3, <2>1 DEF Proceeds
<1>4. CASE Done(h)
  BY <1>4 DEF Done, Proceeds
<1>5. CASE at = "revert" /\ Goes(h, at)
  BY <1>5, GoesProceeds DEF HandlerSteps
<1>6. \/ op' = [op EXCEPT ![h] = o] \/ Done(h) \/ (at = "revert" /\ Goes(h, at))
  BY DEF Fails
<1> QED
  BY <1>3, <1>4, <1>5, <1>6

LEMMA AskProceeds == ASSUME Typed, NEW h \in Handlers, AskStatus(h) PROVE Proceeds(h)
<1> DEFINE r == AnswerOf(op[h].session)
           o == [op[h] EXCEPT !.reply = r, !.at = "learn"]
<1>1. op[h] \in Handler /\ op[h].at = "ask"
  BY DEF Typed, HandlersTyped, AskStatus
<1>2. CASE Goes(h, "decide")
  BY <1>1, <1>2, GoesProceeds DEF HandlerSteps
<1>3. CASE op' = [op EXCEPT ![h].reply = r, ![h].at = "learn"]
  <2> HIDE DEF r
  <2>1. /\ o.at = "learn" /\ o.chat = op[h].chat /\ o.kind = op[h].kind
        /\ o.session = op[h].session /\ o.reply = r
    BY <1>1 DEF Handler
  <2>2. op' = [op EXCEPT ![h] = o]
    BY <1>1, <1>3 DEF Typed, HandlersTyped, Handler
  <2> HIDE DEF o
  <2>3. NextMove(h, o)
    BY <1>1, <2>1 DEF NextMove, r
  <2> QED
    BY <2>2, <2>3 DEF Proceeds
<1> QED
  BY <1>2, <1>3 DEF AskStatus

LEMMA LearnProceeds == ASSUME Typed, NEW h \in Handlers, Learn(h) PROVE Proceeds(h)
<1> DEFINE r == Free.reply
           o == [op[h] EXCEPT !.at = "decide", !.reply = r]
<1>1. op[h] \in Handler /\ op[h].at = "learn"
  BY DEF Typed, HandlersTyped, Learn
<1>2. op' = [op EXCEPT ![h].at = "decide", ![h].reply = r]
  BY DEF Learn
<1> HIDE DEF r
<1>3. o.at = "decide" /\ o.chat = op[h].chat /\ o.kind = op[h].kind
  BY <1>1 DEF Handler
<1>4. op' = [op EXCEPT ![h] = o]
  BY <1>1, <1>2 DEF Typed, HandlersTyped, Handler
<1> HIDE DEF o
<1>5. NextMove(h, o)
  BY <1>1, <1>3 DEF NextMove
<1> QED
  BY <1>4, <1>5 DEF Proceeds

LEMMA DecideProceeds == ASSUME Typed, NEW h \in Handlers, Decide(h) PROVE Proceeds(h)
<1> DEFINE b == db.binding[op[h].chat]
           next == Route(op[h].kind, b.project, b.session, db.state[op[h].chat].mode)
           o == [op[h] EXCEPT !.at = next, !.project = b.project, !.session = b.session]
<1>1. op[h].at = "decide" /\ op[h].kind \in AllCommands \ {"button"} /\ op[h] \in Handler
  BY DEF Decide, Typed, HandlersTyped, HandlerOK
<1>2. next \in {"free", "load", "lookup"}
  BY <1>1, RouteType
<1>3. Done(h) \/ (next # "free" /\ op' = [op EXCEPT ![h] = o])
  BY DEF Decide
<1> HIDE DEF next, b
<1>4. o.at = next /\ o.chat = op[h].chat /\ o.kind = op[h].kind
  BY <1>1 DEF Handler
<1> HIDE DEF o
<1>5. next # "free" => NextMove(h, o)
  BY <1>1, <1>2, <1>4 DEF NextMove
<1> QED
  BY <1>3, <1>5 DEF Proceeds, Done

LEMMA LookupProceeds ==
    ASSUME Typed, NEW h \in Handlers, LookupByText(h) \/ LookupByButton(h) PROVE Proceeds(h)
<1>1. op[h].at = "lookup" /\ op[h] \in Handler
  BY DEF LookupByText, LookupByButton, Typed, HandlersTyped
<1>2. \/ Done(h) \/ Goes(h, "load") \/ Goes(h, "submit")
      \/ \E p : op' = [op EXCEPT ![h].prompt = p, ![h].at = "submit"]
  BY DEF LookupByText, LookupByButton
<1>3. ASSUME NEW p, op' = [op EXCEPT ![h].prompt = p, ![h].at = "submit"] PROVE Proceeds(h)
  <2> DEFINE o == [op[h] EXCEPT !.prompt = p, !.at = "submit"]
  <2>1. o.at = "submit" /\ o.chat = op[h].chat /\ o.kind = op[h].kind
    BY <1>1 DEF Handler
  <2>2. op' = [op EXCEPT ![h] = o]
    BY <1>1, <1>3 DEF Typed, HandlersTyped, Handler
  <2> HIDE DEF o
  <2>3. NextMove(h, o)
    BY <1>1, <2>1 DEF NextMove
  <2> QED
    BY <2>2, <2>3 DEF Proceeds
<1> QED
  BY <1>1, <1>2, <1>3, GoesProceeds DEF Proceeds, Done, HandlerSteps

LEMMA LoadProceeds ==
    ASSUME Typed, NEW h \in Handlers, LoadSelect(h) \/ LoadOther(h) \/ LoadRefused(h)
    PROVE  Proceeds(h)
<1>1. op[h].at = "load" /\ op[h] \in Handler
  BY DEF LoadSelect, LoadOther, LoadRefused, Typed, HandlersTyped
<1>2. CASE LoadSelect(h)
  <2>1. PICK p \in Projects : op' = [op EXCEPT ![h] =
           [op[h] EXCEPT !.project = p, !.session = None,
                         !.at = IF p \in db.projects THEN "commit" ELSE "call"]]
    BY <1>2 DEF LoadSelect
  <2>2. op[h].kind = "project"
    BY <1>2 DEF LoadSelect
  <2> DEFINE at == IF p \in db.projects THEN "commit" ELSE "call"
  <2>3. at \in {"commit", "call"}
    OBVIOUS
  <2> DEFINE o == [op[h] EXCEPT !.project = p, !.session = None, !.at = at]
  <2>4. op' = [op EXCEPT ![h] = o]
    BY <2>1
  <2> HIDE DEF at
  <2>5. o.at = at /\ o.chat = op[h].chat /\ o.kind = op[h].kind /\ o.session = None
    BY <1>1 DEF Handler
  <2> HIDE DEF o
  <2>6. NextMove(h, o)
    BY <1>1, <2>2, <2>3, <2>5 DEF NextMove
  <2> QED
    BY <2>4, <2>6 DEF Proceeds
<1>3. CASE LoadOther(h)
  <2>1. PICK o \in Handler :
          /\ HandlerOK(o) /\ op' = [op EXCEPT ![h] = o]
          /\ o.at = "call" /\ o.kind = op[h].kind /\ o.chat = op[h].chat
          /\ o.kind \in {"text", "run", "cancel"} => o.session = db.binding[o.chat].session
          /\ o.kind \in {"text", "run"} => o.token = RegistrationOf(o.session)
    BY <1>3, LoadOtherMoves
  <2>2. NextMove(h, o)
    BY <1>1, <2>1 DEF NextMove
  <2> QED
    BY <2>1, <2>2 DEF Proceeds
<1>4. CASE LoadRefused(h)
  BY <1>4 DEF LoadRefused, Done, Proceeds
<1> QED
  BY <1>2, <1>3, <1>4

LEMMA CallProceeds ==
    ASSUME Typed, NEW h \in Handlers, Call(h) \/ CallFails(h) PROVE Proceeds(h)
<1>1. op[h].at = "call" /\ op[h] \in Handler
  BY DEF Call, CallFails, Typed, HandlersTyped
<1>2. CASE CallFails(h)
  BY <1>1, <1>2, FailsProceeds DEF CallFails
<1>3. CASE Call(h)
  <2>1. PICK s \in Sessions \cup {None}, reply \in Reply :
          /\ ServerDoes(h, s, reply)
          /\ \/ op' = [op EXCEPT ![h] =
                       [op[h] EXCEPT !.session = s, !.reply = reply, !.at = "commit"]]
             \/ \E f \in {Timeout, Broken} : Fails(h, f, "free")
    BY <1>3 DEF Call
  <2> DEFINE o == [op[h] EXCEPT !.session = s, !.reply = reply, !.at = "commit"]
  <2>2. /\ o.at = "commit" /\ o.chat = op[h].chat /\ o.kind = op[h].kind
        /\ o.session = s /\ o.reply = reply
    BY <1>1 DEF Handler
  <2>3. op' = [op EXCEPT ![h] = o] \/ \E f \in {Timeout, Broken} : Fails(h, f, "free")
    BY <2>1
  <2> HIDE DEF o
  <2>4. NextMove(h, o)
    BY <1>1, <2>1, <2>2 DEF NextMove
  <2> QED
    BY <1>1, <2>3, <2>4, FailsProceeds DEF Proceeds
<1> QED
  BY <1>2, <1>3

LEMMA SubmitProceeds == ASSUME Typed, NEW h \in Handlers, Submit(h) PROVE Proceeds(h)
<1> DEFINE s == db.prompt[op[h].prompt].session
           o == [op[h] EXCEPT !.at = "bridge", !.session = s]
<1>1. op[h] \in Handler /\ op[h].at = "submit"
  BY DEF Typed, HandlersTyped, Submit
<1>2. Done(h) \/ op' = [op EXCEPT ![h].at = "bridge", ![h].session = s]
  BY DEF Submit
<1> HIDE DEF s
<1>3. o.at = "bridge" /\ o.chat = op[h].chat /\ o.kind = op[h].kind
  BY <1>1 DEF Handler
<1>4. Done(h) \/ op' = [op EXCEPT ![h] = o]
  BY <1>1, <1>2 DEF Typed, HandlersTyped, Handler
<1> HIDE DEF o
<1>5. NextMove(h, o)
  BY <1>1, <1>3 DEF NextMove
<1> QED
  BY <1>4, <1>5 DEF Proceeds, Done

LEMMA BridgeProceeds == ASSUME Typed, NEW h \in Handlers, Bridge(h) PROVE Proceeds(h)
<1>1. op[h].at = "bridge"
  BY DEF Bridge
<1>2. Goes(h, "resolve") \/ \E f : Fails(h, f, "revert")
  BY DEF Bridge
<1> QED
  BY <1>1, <1>2, GoesProceeds, FailsProceeds DEF HandlerSteps

LEMMA HandlerProceeds == ASSUME Typed, NEW h \in Handlers, HandlerStep(h) PROVE Proceeds(h)
<1>1. CASE Commit(h) \/ Revert(h) \/ Resolve(h)
  BY <1>1 DEF Commit, Revert, Resolve, Done, Proceeds
<1> QED
  BY <1>1, AskProceeds, LearnProceeds, DecideProceeds, LookupProceeds, LoadProceeds,
     CallProceeds, SubmitProceeds, BridgeProceeds
     DEF HandlerStep

\* A handler begins with nothing but the ids of its chat.
Begins(h, c) ==
    \E o : /\ op' = [op EXCEPT ![h] = o] /\ o.chat = c
           /\ o.at \in {"ask", "decide", "lookup"}
           /\ o.at = "ask" => o.session = db.binding[c].session
           /\ o.at = "decide" => ~HasSession(db, c)
           /\ o.at = "lookup" => o.kind = "button"

LEMMA HandlerBegins ==
    ASSUME Typed, NEW h \in Handlers, NEW c \in Chats,
           \/ \E kind \in Commands : Begin(h, c, kind)
           \/ \E p \in Prompts : Press(h, c, p)
    PROVE  Begins(h, c) /\ MayBegin(h, c) /\ db' = db /\ HandlerOnly
<1>1. MayBegin(h, c) /\ db' = db /\ HandlerOnly
  BY DEF Begin, Press
<1>2. CASE \E p \in Prompts : Press(h, c, p)
  <2>1. PICK p \in Prompts : op' = [op EXCEPT ![h] =
           [Free EXCEPT !.kind = "button", !.chat = c, !.prompt = p, !.at = "lookup"]]
    BY <1>2 DEF Press
  <2> DEFINE o == [Free EXCEPT !.kind = "button", !.chat = c, !.prompt = p, !.at = "lookup"]
  <2>2. o.at = "lookup" /\ o.chat = c /\ o.kind = "button"
    BY DEF Free
  <2>3. op' = [op EXCEPT ![h] = o]
    BY <2>1
  <2> HIDE DEF o
  <2> QED
    BY <1>1, <2>2, <2>3 DEF Begins
<1>3. CASE \E kind \in Commands : Begin(h, c, kind)
  <2> DEFINE b == db.binding[c]
             at == IF b.project # None /\ b.session # None THEN "ask" ELSE "decide"
  <2>1. PICK kind \in Commands : op' = [op EXCEPT ![h] =
           [Free EXCEPT !.kind = kind, !.chat = c, !.project = b.project,
                        !.session = b.session, !.at = at]]
    BY <1>3 DEF Begin
  <2>2. at \in {"ask", "decide"} /\ (at = "decide" => ~HasSession(db, c))
    BY DEF HasSession, HasProject
  <2> HIDE DEF at, b
  <2> DEFINE o == [Free EXCEPT !.kind = kind, !.chat = c, !.project = b.project,
                               !.session = b.session, !.at = at]
  <2>3. o.at = at /\ o.chat = c /\ o.session = b.session
    BY DEF Free
  <2>4. op' = [op EXCEPT ![h] = o]
    BY <2>1
  <2> HIDE DEF o
  <2> QED
    BY <1>1, <2>2, <2>3, <2>4 DEF Begins, b
<1> QED
  BY <1>1, <1>2, <1>3

\* What happens to the handlers in a step.
HandlersStep ==
    \/ op' = op
    \/ \E h \in Handlers : HandlerStep(h) /\ Proceeds(h)
    \/ \E h \in Handlers, c \in Chats :
          Begins(h, c) /\ MayBegin(h, c) /\ db' = db /\ HandlerOnly

LEMMA StepHandlers == ASSUME Typed, [Next]_vars PROVE HandlersStep
<1>1. CASE BotStep
  <2>1. CASE \E e \in wire : Arrive(e) \/ ArriveUnknown(e) \/ Lose(e)
    BY <2>1 DEF Arrive, ArriveUnknown, Lose, botVars, HandlersStep
  <2>2. CASE \E c \in Chats : BeginCandidate(c) \/ ApplyWebhook(c) \/ WatchStep(c)
    BY <2>2, WatchFrame, ApplyWebhookStep DEF Watching, HandlersStep
  <2>3. CASE \E h \in Handlers : HandlerStep(h)
    BY <2>3, HandlerProceeds DEF HandlersStep
  <2>4. CASE \E h \in Handlers, c \in Chats :
                \/ \E kind \in Commands : Begin(h, c, kind)
                \/ \E p \in Prompts : Press(h, c, p)
    BY <2>4, HandlerBegins DEF HandlersStep
  <2> QED
    BY <1>1, <2>1, <2>2, <2>3, <2>4 DEF BotStep
<1>2. CASE TimerStep \/ WorldStep \/ UNCHANGED vars
  BY <1>2 DEF TimerStep, BeginSweep, StartSweep, WorldStep, vars, botVars, HandlersStep
<1> QED
  BY <1>1, <1>2 DEF Next

-----------------------------------------------------------------------------
(* A watcher token is good for one end                                     *)

\* What exists on the server never becomes unborn again.
BornStays == \A s \in Sessions : remote[s].status # "unborn" => remote'[s].status # "unborn"

LEMMA ServerCallBorn ==
    ASSUME Typed, NEW s, NEW token,
           \/ ServerCreate(s) \/ ServerCancel(s) \/ ServerReply(s, token)
           \/ ServerAsks(s, token) \/ ServerRun(s, token) \/ ServerResume(s)
           \/ RunCrashes(s) \/ \E kind \in EndKinds : RunEnds(s, kind)
           \/ \E p : RunAsks(s, p)
           \/ UNCHANGED serverVars
    PROVE  BornStays
<1>1. remote \in [Sessions -> RemoteSession]
  BY DEF Typed, ServerTypeOK
<1>2. CASE remote' = remote
  BY <1>2 DEF BornStays
<1>3. ASSUME NEW row, row.status # "unborn", remote' = [remote EXCEPT ![s] = row]
      PROVE  BornStays
  BY <1>1, <1>3 DEF BornStays
<1>4. CASE ServerCreate(s) \/ ServerCancel(s)
  BY <1>1, <1>4 DEF ServerCreate, ServerCancel, BornStays, RemoteSession
<1>5. CASE ServerReply(s, token) \/ ServerAsks(s, token) \/ ServerRun(s, token)
  BY <1>1, <1>5 DEF ServerReply, ServerAsks, ServerRun, BornStays
<1>6. CASE ServerResume(s) \/ RunCrashes(s)
  BY <1>1, <1>6 DEF ServerResume, RunCrashes, BornStays, RemoteSession
<1>7. CASE (\E kind \in EndKinds : RunEnds(s, kind)) \/ \E p : RunAsks(s, p)
  BY <1>1, <1>7 DEF RunEnds, RunAsks, BornStays, RemoteSession
<1> QED
  BY <1>2, <1>4, <1>5, <1>6, <1>7 DEF serverVars

LEMMA BotBorn == ASSUME Typed, [Next]_vars PROVE BornStays
<1>0. CASE remote' = remote
  BY <1>0 DEF BornStays
<1>1. ASSUME NEW h \in Handlers, Call(h) PROVE BornStays
  <2>1. PICK s, reply : ServerDoes(h, s, reply)
    BY <1>1 DEF Call
  <2>2. \/ ServerCreate(s) \/ ServerCancel(s) \/ ServerReply(s, op[h].token)
        \/ ServerAsks(s, op[h].token) \/ ServerRun(s, op[h].token) \/ UNCHANGED serverVars
    BY <2>1 DEF ServerDoes
  <2> QED
    BY <2>2, ServerCallBorn
<1>2. ASSUME NEW h \in Handlers, Bridge(h) PROVE BornStays
  BY <1>2, ServerCallBorn DEF Bridge
<1>3. CASE WorldStep
  BY <1>3, ServerCallBorn DEF WorldStep, ServerStep, AnsweredAtPc
<1>4. ASSUME NEW h \in Handlers, HandlerStep(h) PROVE BornStays
  BY <1>0, <1>1, <1>2, <1>4
     DEF HandlerStep, AskStatus, Learn, Decide, LookupByText, LookupByButton, LoadSelect,
         LoadOther, LoadRefused, CallFails, Commit, Submit, Revert, Resolve, HandlerOnly,
         serverVars
<1>5. CASE \E h \in Handlers, c \in Chats :
              \/ \E kind \in Commands : Begin(h, c, kind)
              \/ \E p \in Prompts : Press(h, c, p)
  BY <1>0, <1>5 DEF Begin, Press, HandlerOnly, serverVars
<1>6. CASE \E e \in wire : Arrive(e) \/ ArriveUnknown(e) \/ Lose(e)
  BY <1>0, <1>6 DEF Arrive, ArriveUnknown, Lose
<1>7. CASE \E c \in Chats : BeginCandidate(c) \/ ApplyWebhook(c) \/ WatchStep(c)
  BY <1>0, <1>7, ApplyWebhookStep, WatchFrame DEF Watching, serverVars
<1>8. CASE TimerStep \/ UNCHANGED vars
  BY <1>0, <1>8 DEF TimerStep, BeginSweep, StartSweep, serverVars, vars
<1> QED
  BY <1>3, <1>4, <1>5, <1>6, <1>7, <1>8 DEF Next, BotStep

\* Handler h is about to write the row of a session that it has created.
Minting(h) == op[h].at = "commit" /\ op[h].kind = "new"

\* A session gets its token with its row, once: one that is watched exists on
\* the server, so that no second handler can create it.
MintedOnce ==
    /\ \A s \in Sessions : Watched(s) => remote[s].status # "unborn"
    /\ \A h \in Handlers : Minting(h) =>
          remote[op[h].session].status # "unborn" /\ ~Watched(op[h].session)
    /\ \A g, h \in Handlers :
          Minting(g) /\ Minting(h) /\ op[g].session = op[h].session => g = h

\* Only the commit of a new session gives out a token.
Mints(s) == \E h \in Handlers : Commit(h) /\ Minting(h) /\ op[h].session = s
TokensOnlyMinted ==
    \A s \in Sessions :
        /\ Watched(s)' => Watched(s) \/ Mints(s)
        /\ Token_(s)' => Token_(s) \/ Mints(s)

LEMMA SameSessionsMint == ASSUME SameSessions(db, db') PROVE TokensOnlyMinted
BY DEF SameSessions, TokensOnlyMinted, Watched, Token_

LEMMA BotMints == ASSUME Typed, [Next]_vars PROVE TokensOnlyMinted
<1>0. db.session \in [Sessions -> Session]
  BY DEF Typed, Sound, StoreType
<1>1. CASE OnlyPrompts(db, db')
  BY <1>1, SameSessionsMint DEF OnlyPrompts
<1>2. CASE RetryStep
  BY <1>2 DEF RetryStep, SetsRetry, TokensOnlyMinted, Watched, Token_
<1>3. ASSUME NEW h \in Handlers, Learn(h) PROVE TokensOnlyMinted
  <2>1. op[h] \in Handler /\ HandlerOK(op[h]) /\ op[h].at = "learn"
    BY <1>3 DEF Typed, HandlersTyped, Learn
  <2>2. op[h].chat \in Chats /\ op[h].session \in Sessions /\ op[h].reply \in Reply
    BY <2>1 DEF HandlerOK, Handler
  <2> QED
    BY <1>3, <2>2, StatusCommitEffect, SameSessionsMint DEF Learn, Typed, Sound
<1>4. ASSUME NEW h \in Handlers, Commit(h) PROVE TokensOnlyMinted
  <2> DEFINE s == op[h].session
  <2>1. CASE SameSessions(db, db')
    BY <2>1, SameSessionsMint
  <2>2. CASE op[h].kind = "new" /\ SetsSession(db, db', s, WatchedSession)
    <3>1. Mints(s)
      BY <1>4, <2>2, CommitSessions DEF Mints, Minting
    <3>2. \A u \in Sessions : u # s => db'.session[u] = db.session[u]
      BY <1>0, <2>2 DEF SetsSession
    <3> QED
      BY <3>1, <3>2 DEF TokensOnlyMinted, Watched, Token_
  <2>3. CASE s \in Sessions /\ SetsSession(db, db', s, NoSession)
    BY <1>0, <2>3 DEF SetsSession, NoSession, TokensOnlyMinted, Watched, Token_
  <2>4. CASE /\ s \in Sessions
             /\ SetsSession(db, db', s, [db.session[s] EXCEPT !.terminal = "none"])
    <3>1. /\ [db.session[s] EXCEPT !.terminal = "none"].watched = db.session[s].watched
          /\ [db.session[s] EXCEPT !.terminal = "none"].token = db.session[s].token
      BY <1>0, <2>4 DEF Session
    <3> QED
      BY <1>0, <2>4, <3>1 DEF SetsSession, TokensOnlyMinted, Watched, Token_
  <2> QED
    BY <1>4, <2>1, <2>2, <2>3, <2>4, CommitSessions
<1>5. ASSUME NEW c \in Chats, NEW e, NEW by, AppliesEvent(c, e, by) PROVE TokensOnlyMinted
  BY <1>5 DEF AppliesEvent, EventStep, EventSessions, TokensOnlyMinted, Watched, Token_
<1> QED
  BY <1>1, <1>2, <1>3, <1>4, <1>5, StepRows DEF RowStep

\* The commit of a handler is its last step.
LEMMA CommitEnds == ASSUME Typed, NEW h \in Handlers, Commit(h) PROVE op'[h].at = "free"
BY DEF Commit, Done, Free, Typed, HandlersTyped

\* A handler that will write a new session has just created it, or had before.
LEMMA NewMint ==
    ASSUME Typed, [Next]_vars, NEW h \in Handlers, Minting(h)'
    PROVE  \/ op'[h] = op[h] /\ Minting(h)
           \/ /\ op'[h].session \in Sessions /\ ServerCreate(op'[h].session)
              /\ \A g \in Handlers : g # h => op'[g] = op[g]
<1>0. op \in [Handlers -> Handler]
  BY DEF Typed, HandlersTyped
<1>1. CASE op'[h] = op[h]
  BY <1>1 DEF Minting
<1>2. ASSUME NEW x \in Handlers, NEW c \in Chats, Begins(x, c), op'[h] # op[h] PROVE FALSE
  BY <1>0, <1>2 DEF Begins, Minting
<1>3. ASSUME NEW x \in Handlers, Proceeds(x), op'[h] # op[h]
      PROVE  /\ op'[h].session \in Sessions /\ ServerCreate(op'[h].session)
             /\ \A g \in Handlers : g # h => op'[g] = op[g]
  <2>1. x = h /\ \A g \in Handlers : g # h => op'[g] = op[g]
    BY <1>0, <1>3 DEF Proceeds
  <2>2. PICK o : op' = [op EXCEPT ![h] = o] /\ NextMove(h, o)
    BY <1>0, <1>3, <2>1 DEF Proceeds, Minting, Free
  <2>3. op'[h] = o /\ o.at = "commit" /\ o.kind = "new"
    BY <1>0, <2>2 DEF Minting
  <2>4. ServerDoes(h, o.session, o.reply) /\ op[h].kind = "new"
    BY <2>2, <2>3 DEF NextMove
  <2>5. o.session \in Sessions /\ ServerCreate(o.session)
    BY <2>4 DEF ServerDoes
  <2> QED
    BY <2>1, <2>3, <2>5
<1> QED
  BY <1>1, <1>2, <1>3, StepHandlers DEF HandlersStep

LEMMA MintStep == ASSUME Typed, MintedOnce, [Next]_vars PROVE MintedOnce'
<1>0. TokensOnlyMinted /\ BornStays
  BY BotMints, BotBorn
<1>1. \A h \in Handlers : Minting(h) => op[h].session \in Sessions
  BY DEF Typed, HandlersTyped, HandlerOK, Minting
<1>2. \A s \in Sessions : Watched(s)' => remote'[s].status # "unborn"
  BY <1>0 DEF MintedOnce, TokensOnlyMinted, BornStays, Mints
<1>3. ASSUME NEW h \in Handlers, Minting(h)'
      PROVE  (remote[op[h].session].status # "unborn" /\ ~Watched(op[h].session))'
  <2>1. CASE op'[h] = op[h] /\ Minting(h)
    <3>1. ~Mints(op[h].session)
      BY <1>3, <2>1, CommitEnds DEF MintedOnce, Mints, Minting
    <3> QED
      BY <1>0, <1>1, <2>1, <3>1 DEF MintedOnce, BornStays, TokensOnlyMinted, Watched
  <2>2. CASE op'[h].session \in Sessions /\ ServerCreate(op'[h].session)
    <3> DEFINE s == op'[h].session
    <3>1. remote[s].status = "unborn" /\ remote'[s].status = "idle"
      BY <2>2 DEF ServerCreate, Typed, ServerTypeOK, RemoteSession
    <3>2. ~Watched(s) /\ ~Mints(s)
      BY <2>2, <3>1 DEF MintedOnce, Mints
    <3> QED
      BY <1>0, <2>2, <3>1, <3>2 DEF TokensOnlyMinted, Watched
  <2> QED
    BY <1>3, <2>1, <2>2, NewMint
<1>4. ASSUME NEW g \in Handlers, NEW h \in Handlers, Minting(g)', Minting(h)',
             op'[g].session = op'[h].session, g # h
      PROVE  FALSE
  <2>1. ASSUME NEW x \in Handlers, NEW y \in Handlers, x # y, Minting(y)',
               op'[x].session = op'[y].session,
               op'[x].session \in Sessions, ServerCreate(op'[x].session),
               \A z \in Handlers : z # x => op'[z] = op[z]
        PROVE  FALSE
    <3>1. op[y].session = op'[x].session /\ Minting(y)
      BY <2>1 DEF Minting
    <3> QED
      BY <2>1, <3>1 DEF MintedOnce, ServerCreate
  <2>2. op'[g] = op[g] /\ Minting(g) /\ op'[h] = op[h] /\ Minting(h)
    BY <1>4, <2>1, NewMint
  <2> QED
    BY <1>4, <2>2 DEF MintedOnce
<1> QED
  BY <1>2, <1>3, <1>4 DEF MintedOnce

\* No token comes back.
NoRevival == \A s \in Sessions : Watched(s) /\ ~Token_(s) => ~db'.session[s].token

LEMMA BotRevives == ASSUME Typed, MintedOnce, [Next]_vars PROVE NoRevival
BY BotMints DEF TokensOnlyMinted, Mints, MintedOnce, NoRevival, Token_

LEMMA RestartMint ==
    ASSUME RTyped, MintedOnce, [RestartNext]_bootVars PROVE MintedOnce' /\ NoRevival
<1>1. CASE Crash
  <2>1. \A h \in Handlers : ~Minting(h)'
    BY <1>1, CrashFrame DEF Minting
  <2> QED
    BY <1>1, <2>1 DEF Crash, MintedOnce, NoRevival, Watched, Token_, serverVars
<1>2. CASE BootStep
  <2>1. MintedOnce'
    <3>1. \A s \in Sessions : Watched(s)' = Watched(s)
      BY <1>2, BootRows DEF Watched
    <3>2. \A h \in Handlers : Minting(h) => op[h].session \in Sessions
      BY DEF RTyped, Typed, HandlersTyped, HandlerOK, Minting
    <3> QED
      BY <1>2, <3>1, <3>2, BootRows DEF MintedOnce, Minting, serverVars
  <2> QED
    BY <1>2, <2>1, BootRows DEF NoRevival, Token_
<1>3. CASE \E e \in wire : Unheard(e)
  BY <1>3 DEF Unheard, botVars, MintedOnce, NoRevival, Watched, Token_, Minting
<1> QED
  BY <1>1, <1>2, <1>3, RestartCases, MintStep, BotRevives DEF RTyped

LEMMA InitMint == Init => MintedOnce
BY DEF Init, EmptyStore, NoSession, Free, MintedOnce, Minting, Watched

\* A token that an end has used up, or a restart has cut, never authorises a
\* webhook again: tokens are minted with the rows of new sessions, and no row
\* that is watched is minted a second time, whoever crashes in between.
THEOREM TokensSpent == RestartSpec => TokenNeverRevived
<1>1. RTyped /\ MintedOnce /\ [RestartNext]_bootVars => MintedOnce'
  BY RestartMint
<1>2. RTyped /\ MintedOnce /\ [RestartNext]_bootVars => NoRevival
  BY RestartMint
<1>3. NoRevival =>
         [\A s \in Sessions : Watched(s) /\ ~Token_(s) => ~db'.session[s].token]_vars
  BY DEF NoRevival
<1> QED
  BY <1>1, <1>2, <1>3, InitMint, RestartTyped, PTL DEF RestartSpec, BootInit, TokenNeverRevived

-----------------------------------------------------------------------------
(* A chat with no session is idle                                          *)

\* What the end of a use case writes, by the kind of the order.
Selects(h) ==
    /\ op[h].kind = "project" /\ SameTasks(db, db') /\ SameSessions(db, db')
    /\ \E p : SetsBinding(db, db', op[h].chat, [project |-> p, session |-> None])
    /\ SetsState(db, db', op[h].chat, IdleState)
Binds(h) ==
    /\ op[h].kind \in {"session", "new"} /\ SameTasks(db, db')
    /\ \E p : SetsBinding(db, db', op[h].chat, [project |-> p, session |-> op[h].session])
    /\ SetsState(db, db', op[h].chat, StateOfReply(op[h].reply))
    /\ op[h].kind = "session" => SetsSession(db, db', op[h].session, NoSession)
    /\ op[h].kind = "new" => SetsSession(db, db', op[h].session, WatchedSession)
Executes(h) ==
    /\ op[h].kind \in {"text", "run"} /\ SameBindings(db, db')
    /\ \E mode : /\ SetsState(db, db', op[h].chat, [mode |-> mode, task |-> op[h].reply.task])
                 /\ op[h].reply.status = "running" => mode = "task-running"
    /\ KeepsTasksBut(db, db', op[h].reply.task)
    /\ HasTaskOf(db', op[h].reply.task, op[h].session)
    /\ SetsSession(db, db', op[h].session, [db.session[op[h].session] EXCEPT !.terminal = "none"])
Cancels(h) ==
    /\ op[h].kind = "cancel" /\ SameBindings(db, db') /\ KeepsTasks(db, db')
    /\ SameSessions(db, db') /\ ~InProgress(db', TaskOf(op[h].chat))
    /\ SetsState(db, db', op[h].chat, [mode |-> "session-linked", task |-> None])

LEMMA CommitRows ==
    ASSUME Typed, NEW h \in Handlers, Commit(h)
    PROVE  /\ op[h].at = "commit" /\ op[h].chat \in Chats /\ op[h].reply \in Reply
           /\ op[h].kind # "project" => op[h].session \in Sessions
           /\ Selects(h) \/ Binds(h) \/ Executes(h) \/ Cancels(h)
<1> DEFINE o == op[h]
<1>1. op[h] \in Handler /\ HandlerOK(op[h]) /\ op[h].at = "commit" /\ op[h].kind \in Orders
  BY DEF Typed, HandlersTyped, HandlerOK, Commit
<1>2. /\ o.chat \in Chats /\ o.reply \in Reply /\ o.mode \in Modes
      /\ o.project \in Projects \cup {None} /\ db \in StoreType
      /\ o.kind # "project" => o.session \in Sessions
      /\ o.kind = "project" => o.project \in Projects
  BY <1>1 DEF HandlerOK, Handler, Typed, Sound
<1>3. CASE o.kind = "project"
  BY <1>1, <1>2, <1>3, SelectCommitEffect DEF Commit, Selects
<1>4. CASE o.kind = "session"
  BY <1>1, <1>2, <1>4, AttachCommitEffect DEF Commit, Binds
<1>5. CASE o.kind = "new"
  BY <1>1, <1>2, <1>5, CreateCommitEffect DEF Commit, Binds
<1>6. CASE o.kind = "text"
  <2> DEFINE mode == ModeOfStatus(o.reply.status)
  <2>1. mode \in Modes /\ (o.reply.status = "running" => mode = "task-running")
    BY ModeOfStatusType
  <2>2. db' = ExecuteCommit(db, o.chat, o.session, o.reply, mode)
    BY <1>6 DEF Commit, SendCommit
  <2> HIDE DEF mode
  <2> QED
    BY <1>1, <1>2, <1>6, <2>1, <2>2, ExecuteCommitEffect DEF Executes
<1>7. CASE o.kind = "run"
  <2> DEFINE mode == ModeOfRun(o.reply.status, o.mode)
  <2>1. mode \in Modes /\ (o.reply.status = "running" => mode = "task-running")
    BY <1>2, ModeOfRunType, ModeOfStatusType DEF ModeOfRun
  <2>2. db' = ExecuteCommit(db, o.chat, o.session, o.reply, mode)
    BY <1>7 DEF Commit, RunCommit
  <2> HIDE DEF mode
  <2> QED
    BY <1>1, <1>2, <1>7, <2>1, <2>2, ExecuteCommitEffect DEF Executes
<1>8. CASE o.kind = "cancel"
  BY <1>1, <1>2, <1>8, CancelCommitEffect DEF Commit, Cancels, TaskOf
<1> QED
  BY <1>1, <1>2, <1>3, <1>4, <1>5, <1>6, <1>7, <1>8 DEF Orders

LEMMA LearnRows ==
    ASSUME Typed, NEW h \in Handlers, Learn(h)
    PROVE  /\ op[h].at = "learn" /\ op[h].chat \in Chats /\ op[h].session \in Sessions
           /\ op[h].reply \in Reply /\ SameBindings(db, db') /\ SameSessions(db, db')
           /\ SetsState(db, db', op[h].chat, StateOfReply(op[h].reply))
           /\ KeepsTasksBut(db, db', op[h].reply.task)
           /\ HasTaskOf(db', op[h].reply.task, op[h].session)
           /\ op[h].reply.status # "running" =>
                 ~InProgress(db', TaskOf(op[h].chat)) /\ ~InProgress(db', op[h].reply.task)
<1>1. op[h] \in Handler /\ HandlerOK(op[h]) /\ op[h].at = "learn"
  BY DEF Typed, HandlersTyped, Learn
<1>2. op[h].chat \in Chats /\ op[h].session \in Sessions /\ op[h].reply \in Reply
  BY <1>1 DEF HandlerOK, Handler
<1> QED
  BY <1>1, <1>2, StatusCommitEffect DEF Learn, Typed, Sound, TaskOf

\* The lock of ChatLock, as the handlers see it: one at a time for a chat.
LockHeld ==
    /\ \A h \in Handlers : op[h].at = "free" => op[h] = Free
    /\ \A g, h \in Handlers : g # h /\ op[g].at # "free" => op[g].chat # op[h].chat

\* What a handler has read of its chat's binding still holds.
ReadsHold ==
    \A h \in Handlers :
        \/ op[h].at \in {"ask", "learn"}
        \/ op[h].at \in {"call", "commit"} /\ op[h].kind \in {"text", "run", "cancel"}
        => db.binding[op[h].chat].session = op[h].session

LEMMA LockStep == ASSUME Typed, LockHeld, LockEnabled, [Next]_vars PROVE LockHeld'
<1>0. op \in [Handlers -> Handler]
  BY DEF Typed, HandlersTyped
<1>1. Free.at = "free" /\ Free.chat = None
  BY DEF Free
<1>2. \A h \in Handlers : op[h].at # "free" => op[h].chat \in Chats /\ op[h].chat # None
  BY NoneIsNoId DEF Typed, HandlersTyped, HandlerOK
<1>3. ASSUME NEW x \in Handlers, Proceeds(x), op[x].at # "free" PROVE LockHeld'
  <2>1. CASE op' = [op EXCEPT ![x] = Free]
    BY <1>0, <1>1, <1>2, <2>1 DEF LockHeld
  <2>2. ASSUME NEW o, op' = [op EXCEPT ![x] = o], NextMove(x, o) PROVE LockHeld'
    BY <1>0, <1>2, <1>3, <2>2 DEF LockHeld, NextMove
  <2> QED
    BY <1>3, <2>1, <2>2 DEF Proceeds
<1>4. ASSUME NEW x \in Handlers, NEW c \in Chats, Begins(x, c), MayBegin(x, c) PROVE LockHeld'
  <2>1. PICK o : op' = [op EXCEPT ![x] = o] /\ o.chat = c /\ o.at \in {"ask", "decide", "lookup"}
    BY <1>4 DEF Begins
  <2>2. op[x] = Free /\ \A g \in Handlers : op[g].chat # c
    BY <1>4 DEF MayBegin
  <2> QED
    BY <1>0, <2>1, <2>2 DEF LockHeld
<1>5. ASSUME NEW x \in Handlers, HandlerStep(x) PROVE op[x].at # "free"
  BY <1>5 DEF HandlerStep, AskStatus, Learn, Decide, LookupByText, LookupByButton, LoadSelect,
     LoadOther, LoadRefused, Call, CallFails, Commit, Submit, Bridge, Revert, Resolve
<1> QED
  BY <1>3, <1>4, <1>5, StepHandlers DEF HandlersStep, LockHeld

LEMMA InitLock == Init => LockHeld
BY DEF Init, LockHeld, Free

\* The binding of a chat changes at the end of a use case of its own.
LEMMA BindingStep ==
    ASSUME Typed, [Next]_vars
    PROVE  \/ SameBindings(db, db')
           \/ \E h \in Handlers : Commit(h) /\ \A c \in Chats :
                 c # op[h].chat => db'.binding[c] = db.binding[c]
<1>1. db.binding \in [Chats -> Binding]
  BY DEF Typed, Sound, StoreType
<1>2. ASSUME NEW h \in Handlers, Commit(h)
      PROVE  \/ SameBindings(db, db')
             \/ \A c \in Chats : c # op[h].chat => db'.binding[c] = db.binding[c]
  BY <1>1, <1>2, CommitRows DEF Selects, Binds, Executes, Cancels, SetsBinding
<1> QED
  BY <1>2, StepRows, LearnRows
     DEF RowStep, OnlyPrompts, RetryStep, OnlySessions, AppliesEvent, EventStep

LEMMA ReadsStep ==
    ASSUME Typed, LockHeld, ReadsHold, LockEnabled, [Next]_vars PROVE ReadsHold'
<1>0. op \in [Handlers -> Handler]
  BY DEF Typed, HandlersTyped
<1> DEFINE Reads(o) == \/ o.at \in {"ask", "learn"}
                       \/ o.at \in {"call", "commit"} /\ o.kind \in {"text", "run", "cancel"}
<1>1. ASSUME NEW h \in Handlers, Reads(op'[h])
      PROVE  db.binding[op'[h].chat].session = op'[h].session
  <2>1. CASE op'[h] = op[h]
    BY <1>1, <2>1 DEF ReadsHold
  <2>2. ASSUME NEW x \in Handlers, NEW c \in Chats, Begins(x, c), op'[h] # op[h]
        PROVE  db.binding[op'[h].chat].session = op'[h].session
    BY <1>0, <1>1, <2>2 DEF Begins
  <2>3. ASSUME NEW x \in Handlers, Proceeds(x), op'[h] # op[h]
        PROVE  db.binding[op'[h].chat].session = op'[h].session
    <3>1. PICK o : op' = [op EXCEPT ![h] = o] /\ NextMove(h, o)
      BY <1>0, <1>1, <2>3 DEF Proceeds, Free
    <3>2. op'[h] = o
      BY <1>0, <3>1
    <3>3. CASE o.at = "learn"
      BY <3>1, <3>2, <3>3 DEF NextMove, ReadsHold
    <3>4. CASE o.at = "call"
      BY <1>1, <3>1, <3>2, <3>4 DEF NextMove, ReadsHold
    <3>5. CASE o.at = "commit"
      <4>1. op[h].at = "call" /\ ServerDoes(h, o.session, o.reply)
        BY <1>1, <3>1, <3>2, <3>5 DEF NextMove
      <4>2. o.session = op[h].session /\ o.chat = op[h].chat /\ o.kind = op[h].kind
        BY <1>1, <3>1, <3>2, <3>5, <4>1 DEF NextMove, ServerDoes
      <4> QED
        BY <1>1, <3>2, <3>5, <4>1, <4>2 DEF ReadsHold
    <3> QED
      BY <1>1, <3>1, <3>2, <3>3, <3>4, <3>5 DEF NextMove
  <2> QED
    BY <2>1, <2>2, <2>3, StepHandlers DEF HandlersStep
<1>2. CASE SameBindings(db, db')
  BY <1>1, <1>2 DEF ReadsHold, SameBindings
<1>3. ASSUME NEW x \in Handlers, Commit(x),
             \A c \in Chats : c # op[x].chat => db'.binding[c] = db.binding[c]
      PROVE  ReadsHold'
  <2>1. op[x].at = "commit" /\ op' = [op EXCEPT ![x] = Free]
    BY <1>3 DEF Commit, Done
  <2>2. \A h \in Handlers : h # x => op'[h] = op[h]
    BY <1>0, <2>1
  <2>3. op'[x].at = "free"
    BY <1>0, <2>1 DEF Free
  <2>4. \A h \in Handlers : h # x => op[h].chat # op[x].chat
    BY <2>1 DEF LockHeld
  <2>5. ASSUME NEW h \in Handlers, Reads(op'[h])
        PROVE  db'.binding[op'[h].chat].session = op'[h].session
    <3>1. h # x /\ op[h].at # "free"
      BY <2>2, <2>3, <2>5
    <3>2. op[h].chat \in Chats /\ op[h].chat # op[x].chat /\ op'[h] = op[h]
      BY <2>2, <2>4, <3>1 DEF Typed, HandlersTyped, HandlerOK
    <3> QED
      BY <1>1, <1>3, <2>5, <3>2
  <2> QED
    BY <2>5 DEF ReadsHold
<1> QED
  BY <1>2, <1>3, BindingStep

LEMMA InitReads == Init => ReadsHold
BY DEF Init, ReadsHold, Free

LEMMA UnboundStep ==
    ASSUME Typed, ReadsHold, UnboundIsIdle, [Next]_vars PROVE UnboundIsIdle'
<1>0. /\ db.binding \in [Chats -> Binding] /\ db.state \in [Chats -> State]
      /\ None \notin Sessions
  BY NoneIsNoId DEF Typed, Sound, StoreType
<1>1. CASE SameBindings(db, db') /\ SameStates(db, db')
  BY <1>1 DEF SameBindings, SameStates, UnboundIsIdle, Session_
<1>2. ASSUME NEW c \in Chats, NEW row, SetsState(db, db', c, row), SameBindings(db, db'),
             db.binding[c].session \in Sessions
      PROVE  UnboundIsIdle'
  BY <1>0, <1>2 DEF SetsState, SameBindings, UnboundIsIdle, Session_
<1>3. ASSUME NEW h \in Handlers, Learn(h) PROVE UnboundIsIdle'
  BY <1>2, <1>3, LearnRows DEF ReadsHold
<1>4. ASSUME NEW h \in Handlers, Commit(h) PROVE UnboundIsIdle'
  <2>1. /\ op[h].at = "commit" /\ op[h].chat \in Chats
        /\ op[h].kind # "project" => op[h].session \in Sessions
        /\ Selects(h) \/ Binds(h) \/ Executes(h) \/ Cancels(h)
    BY <1>4, CommitRows
  <2>2. CASE Selects(h)
    BY <1>0, <2>1, <2>2 DEF Selects, SetsBinding, SetsState, UnboundIsIdle, Session_
  <2>3. CASE Binds(h)
    BY <1>0, <2>1, <2>3 DEF Binds, SetsBinding, SetsState, UnboundIsIdle, Session_
  <2>4. CASE Executes(h)
    BY <1>2, <2>1, <2>4 DEF Executes, ReadsHold
  <2>5. CASE Cancels(h)
    BY <1>2, <2>1, <2>5 DEF Cancels, ReadsHold
  <2> QED
    BY <2>1, <2>2, <2>3, <2>4, <2>5
<1>5. ASSUME NEW c \in Chats, NEW e, NEW by, AppliesEvent(c, e, by), e.session \in Sessions
      PROVE  UnboundIsIdle'
  <2>1. /\ SameBindings(db, db') /\ (SameStates(db, db') \/ FreesState(db, db', c))
        /\ db.binding[c].session \in Sessions
    BY <1>5 DEF AppliesEvent, EventStep, Accepts, Bound
  <2> QED
    BY <1>1, <1>2, <2>1 DEF FreesState
<1>6. ASSUME NEW c \in Chats, Conclude(c) PROVE Verdict(work[c]).session \in Sessions
  BY <1>6 DEF Conclude, Verdict, Typed, WorkTyped, WatchOK
<1>7. ASSUME NEW c \in Chats, ApplyWebhook(c) PROVE Head(inbox[c]).session \in Sessions
  BY <1>7, ApplyWebhookStep DEF Event
<1> QED
  BY <1>1, <1>3, <1>4, <1>5, <1>6, <1>7, StepRows
     DEF RowStep, OnlyPrompts, RetryStep, OnlySessions

\* The invariant of handlers that hold the lock of their chat.
Exclusive == LockHeld /\ ReadsHold /\ UnboundIsIdle

LEMMA InitUnbound == Init => UnboundIsIdle
BY DEF Init, EmptyStore, UnboundIsIdle, Session_

LEMMA AlwaysExclusive == ASSUME LockEnabled PROVE Spec => []Exclusive
<1>1. Typed /\ Exclusive /\ [Next]_vars => Exclusive'
  BY LockStep, ReadsStep, UnboundStep DEF Exclusive
<1>2. Init => Exclusive
  BY InitLock, InitReads, InitUnbound DEF Exclusive
<1> QED
  BY <1>1, <1>2, AlwaysTyped, PTL DEF Spec

\* With the chat's lock a chat that has lost its session is idle: a handler
\* writes a mode or a task for the session that it read in the beginning, and
\* an event of the watcher for the session that the chat has when it is applied.
THEOREM UnboundChatsIdle == ASSUME LockEnabled PROVE Spec => []UnboundIsIdle
BY AlwaysExclusive, PTL DEF Exclusive

-----------------------------------------------------------------------------
(* A chat with a task runs                                                 *)

\* An answer with a task is that of a run.
AnswersPlain ==
    \A h \in Handlers :
        op[h].at = "commit" /\ op[h].kind \in {"text", "run"} =>
            op[h].reply.status = "running" \/ op[h].reply.task = None

LEMMA PlainStep ==
    ASSUME Typed, AnswersPlain, "unknown" \notin MessageReplies, [Next]_vars
    PROVE  AnswersPlain'
<1>0. op \in [Handlers -> Handler]
  BY DEF Typed, HandlersTyped
<1>1. ASSUME NEW h \in Handlers, op'[h].at = "commit", op'[h].kind \in {"text", "run"},
             op'[h] # op[h]
      PROVE  op'[h].reply.status = "running" \/ op'[h].reply.task = None
  <2>1. ASSUME NEW x \in Handlers, NEW c \in Chats, Begins(x, c) PROVE FALSE
    BY <1>0, <1>1, <2>1 DEF Begins
  <2>2. ASSUME NEW x \in Handlers, Proceeds(x)
        PROVE  op'[h].reply.status = "running" \/ op'[h].reply.task = None
    <3>1. PICK o : op' = [op EXCEPT ![h] = o] /\ NextMove(h, o)
      BY <1>0, <1>1, <2>2 DEF Proceeds, Free
    <3>2. op'[h] = o
      BY <1>0, <3>1
    <3>3. ServerDoes(h, o.session, o.reply) /\ op[h].kind \in {"text", "run"}
      BY <1>1, <3>1, <3>2 DEF NextMove
    <3>4. o.reply.status \in {"running", "needs-attention", "idle"}
      BY <3>3, SessionControlAssumption DEF ServerDoes
    <3> QED
      BY <3>2, <3>3, <3>4 DEF ServerDoes
  <2> QED
    BY <1>1, <2>1, <2>2, StepHandlers DEF HandlersStep
<1> QED
  BY <1>1 DEF AnswersPlain

LEMMA RunningStep ==
    ASSUME Typed, AnswersPlain, TaskOnlyWhileRunning, [Next]_vars PROVE TaskOnlyWhileRunning'
<1>0. db.state \in [Chats -> State]
  BY DEF Typed, Sound, StoreType
<1>1. CASE SameStates(db, db')
  BY <1>1 DEF SameStates, TaskOnlyWhileRunning, TaskOf, ModeOf
<1>2. ASSUME NEW c \in Chats, NEW row, SetsState(db, db', c, row),
             row.task = None \/ row.mode = "task-running"
      PROVE  TaskOnlyWhileRunning'
  BY <1>0, <1>2 DEF SetsState, TaskOnlyWhileRunning, TaskOf, ModeOf
<1>3. ASSUME NEW r \in Reply
      PROVE  StateOfReply(r).task = None \/ StateOfReply(r).mode = "task-running"
  BY StateOfReplyType
<1>4. ASSUME NEW h \in Handlers, Learn(h) PROVE TaskOnlyWhileRunning'
  BY <1>2, <1>3, <1>4, LearnRows
<1>5. ASSUME NEW h \in Handlers, Commit(h) PROVE TaskOnlyWhileRunning'
  <2>1. /\ op[h].at = "commit" /\ op[h].chat \in Chats /\ op[h].reply \in Reply
        /\ Selects(h) \/ Binds(h) \/ Executes(h) \/ Cancels(h)
    BY <1>5, CommitRows
  <2>2. CASE Selects(h)
    BY <1>2, <2>1, <2>2 DEF Selects, IdleState
  <2>3. CASE Binds(h)
    BY <1>2, <1>3, <2>1, <2>3 DEF Binds
  <2>4. CASE Executes(h)
    <3>1. PICK mode :
             /\ SetsState(db, db', op[h].chat, [mode |-> mode, task |-> op[h].reply.task])
             /\ op[h].reply.status = "running" => mode = "task-running"
      BY <2>4 DEF Executes
    <3>2. op[h].reply.status = "running" \/ op[h].reply.task = None
      BY <2>1, <2>4 DEF Executes, AnswersPlain
    <3> QED
      BY <1>2, <2>1, <3>1, <3>2
  <2>5. CASE Cancels(h)
    BY <1>2, <2>1, <2>5 DEF Cancels
  <2> QED
    BY <2>1, <2>2, <2>3, <2>4, <2>5
<1>6. ASSUME NEW c \in Chats, NEW e, NEW by, AppliesEvent(c, e, by)
      PROVE  TaskOnlyWhileRunning'
  <2>1. SameStates(db, db') \/ FreesState(db, db', c)
    BY <1>6 DEF AppliesEvent, EventStep
  <2> QED
    BY <1>1, <1>2, <2>1 DEF FreesState
<1> QED
  BY <1>1, <1>4, <1>5, <1>6, StepRows DEF RowStep, OnlyPrompts, RetryStep, OnlySessions

LEMMA InitRunning == Init => AnswersPlain /\ TaskOnlyWhileRunning
BY DEF Init, EmptyStore, IdleState, Free, AnswersPlain, TaskOnlyWhileRunning, TaskOf

\* When the server answers an order with a status that the bot knows, a chat
\* that has a task is running it, so that a busy check on the mode and one on
\* the task agree.  It needs no lock.
THEOREM TasksRun == ASSUME "unknown" \notin MessageReplies PROVE Spec => []TaskOnlyWhileRunning
<1>1. Typed /\ AnswersPlain /\ TaskOnlyWhileRunning /\ [Next]_vars
      => AnswersPlain' /\ TaskOnlyWhileRunning'
  BY PlainStep, RunningStep
<1> QED
  BY <1>1, InitRunning, AlwaysTyped, PTL DEF Spec

-----------------------------------------------------------------------------
(* The task of a chat is one of its session                                *)

\* Somewhere it is written that task t is a task of session s: on the server,
\* in the hands of a handler, in a row of the task or in a chat's state.
OnServer(t, s) == remote[s].task = t
InHand(t, s) ==
    \E h \in Handlers :
        op[h].at \in {"learn", "commit"} /\ op[h].reply.task = t /\ op[h].session = s
InRow(t, s) == db.task[t].status # "none" /\ db.task[t].session = s
InChat(t, s) == \E c \in Chats : TaskOf(c) = t /\ Session_(c) = s
Claim(t, s) == OnServer(t, s) \/ InHand(t, s) \/ InRow(t, s) \/ InChat(t, s)

\* Such a task was given out by the server, and to one session.
OneHome ==
    \A t \in Tasks, s \in Sessions : Claim(t, s) =>
        t \in runs /\ \A u \in Sessions : Claim(t, u) => u = s

\* The rows of tasks name their sessions.
RowsNamed ==
    \A t \in Tasks : IF db.task[t].status = "none" THEN db.task[t].session = None
                     ELSE db.task[t].session \in Sessions

\* Task t was given out in this step, to session s.
NewRun(t, s) ==
    /\ t \notin runs /\ t \in runs' /\ remote'[s].task = t
    /\ \A u \in Sessions : u # s => remote'[u] = remote[u]

ServerClaims ==
    /\ runs \subseteq runs'
    /\ \A t \in Tasks, s \in Sessions : OnServer(t, s)' => OnServer(t, s) \/ NewRun(t, s)

LEMMA ServerCallClaims ==
    ASSUME Typed, NEW s \in Sessions, NEW token,
           \/ ServerCreate(s) \/ ServerCancel(s) \/ ServerReply(s, token)
           \/ ServerAsks(s, token) \/ ServerRun(s, token) \/ ServerResume(s)
           \/ RunCrashes(s) \/ \E kind \in EndKinds : RunEnds(s, kind)
           \/ \E p : RunAsks(s, p)
           \/ UNCHANGED serverVars
    PROVE  ServerClaims
<1>1. remote \in [Sessions -> RemoteSession] /\ None \notin Tasks /\ remote[s] \in RemoteSession
  BY NoneIsNoId DEF Typed, ServerTypeOK
<1>2. CASE remote' = remote /\ runs' = runs
  BY <1>2 DEF ServerClaims, OnServer
<1>3. ASSUME NEW row, runs' = runs, remote' = [remote EXCEPT ![s] = row],
             row.task = None \/ row.task = remote[s].task
      PROVE  ServerClaims
  BY <1>1, <1>3 DEF ServerClaims, OnServer
<1>4. ASSUME NEW row, remote' = [remote EXCEPT ![s] = row], row.task = FreshTask,
             runs' = runs \cup {FreshTask}, Tasks \ runs # {}
      PROVE  ServerClaims
  <2>1. FreshTask \in Tasks /\ FreshTask \notin runs
    BY <1>4, FreshTaskType
  <2>2. \A u \in Sessions : u # s => remote'[u] = remote[u]
    BY <1>1, <1>4
  <2>3. remote'[s].task = FreshTask /\ NewRun(FreshTask, s)
    BY <1>1, <1>4, <2>1, <2>2 DEF NewRun
  <2> QED
    BY <1>4, <2>2, <2>3 DEF ServerClaims, OnServer
<1>5. CASE ServerRun(s, token) \/ ServerAsks(s, token)
  <2> DEFINE row(status) == [status |-> status, task |-> FreshTask, token |-> token,
                             prompt |-> None]
  <2>1. \A status : row(status).task = FreshTask
    OBVIOUS
  <2>2. /\ runs' = runs \cup {FreshTask} /\ Tasks \ runs # {}
        /\ \/ remote' = [remote EXCEPT ![s] = row("running")]
           \/ remote' = [remote EXCEPT ![s] = row("needs-attention")]
    BY <1>5 DEF ServerRun, ServerAsks
  <2> HIDE DEF row
  <2> QED
    BY <1>4, <2>1, <2>2
<1>6. CASE ServerReply(s, token)
  <2> DEFINE row == [status |-> "idle", task |-> None, token |-> token, prompt |-> None]
  <2>1. row.task = None
    OBVIOUS
  <2>2. runs' = runs /\ remote' = [remote EXCEPT ![s] = row]
    BY <1>6 DEF ServerReply
  <2> HIDE DEF row
  <2> QED
    BY <1>3, <2>1, <2>2
<1>7. CASE RunCrashes(s) \/ \E kind \in EndKinds : RunEnds(s, kind)
  <2> DEFINE row(status) == [remote[s] EXCEPT !.status = status]
  <2>1. \A status : row(status).task = remote[s].task
    BY <1>1 DEF RemoteSession
  <2>2. /\ runs' = runs
        /\ \/ remote' = [remote EXCEPT ![s] = row("gone")]
           \/ remote' = [remote EXCEPT ![s] = row("completed")]
    BY <1>7 DEF RunCrashes, RunEnds
  <2> HIDE DEF row
  <2> QED
    BY <1>3, <2>1, <2>2
<1>8. CASE ServerResume(s) \/ \E p : RunAsks(s, p)
  <2> DEFINE row(status, p) == [remote[s] EXCEPT !.status = status, !.prompt = p]
  <2>1. \A status, p : row(status, p).task = remote[s].task
    BY <1>1 DEF RemoteSession
  <2>2. /\ runs' = runs
        /\ \/ remote' = [remote EXCEPT ![s] = row("running", None)]
           \/ \E p : remote' = [remote EXCEPT ![s] = row("needs-attention", p)]
    BY <1>8 DEF ServerResume, RunAsks
  <2> HIDE DEF row
  <2> QED
    BY <1>3, <2>1, <2>2
<1>9. CASE ServerCreate(s) \/ ServerCancel(s)
  <2> DEFINE new == [remote[s] EXCEPT !.status = "idle", !.token = "own"]
             stopped == [remote[s] EXCEPT !.status = "idle", !.task = None, !.prompt = None]
  <2>1. new.task = remote[s].task /\ stopped.task = None
    BY <1>1 DEF RemoteSession
  <2>2. /\ runs' = runs
        /\ \/ remote' = [remote EXCEPT ![s] = new]
           \/ remote' = [remote EXCEPT ![s] = stopped]
    BY <1>9 DEF ServerCreate, ServerCancel
  <2> HIDE DEF new, stopped
  <2> QED
    BY <1>3, <2>1, <2>2
<1> QED
  BY <1>2, <1>5, <1>6, <1>7, <1>8, <1>9 DEF serverVars

LEMMA StepClaims == ASSUME Typed, [Next]_vars PROVE ServerClaims
<1>0. CASE remote' = remote /\ runs' = runs
  BY <1>0 DEF ServerClaims, OnServer
<1>1. ASSUME NEW h \in Handlers, Call(h) PROVE ServerClaims
  <2>1. PICK s, reply : ServerDoes(h, s, reply)
    BY <1>1 DEF Call
  <2>2. \/ ServerCreate(s) \/ ServerCancel(s) \/ ServerReply(s, op[h].token)
        \/ ServerAsks(s, op[h].token) \/ ServerRun(s, op[h].token) \/ UNCHANGED serverVars
    BY <2>1 DEF ServerDoes
  <2>3. s \in Sessions \/ UNCHANGED serverVars
    BY <1>1, <2>1 DEF ServerDoes, Call, Typed, HandlersTyped, HandlerOK
  <2> QED
    BY <1>0, <2>2, <2>3, ServerCallClaims DEF serverVars
<1>2. ASSUME NEW h \in Handlers, Bridge(h) PROVE ServerClaims
  <2>1. op[h].session \in Sessions
    BY <1>2 DEF Bridge, Typed, HandlersTyped, HandlerOK, Answering
  <2> QED
    BY <1>2, <2>1, ServerCallClaims DEF Bridge
<1>3. CASE WorldStep
  BY <1>3, ServerCallClaims DEF WorldStep, ServerStep, AnsweredAtPc
<1>4. ASSUME NEW h \in Handlers, HandlerStep(h) PROVE ServerClaims
  BY <1>0, <1>1, <1>2, <1>4
     DEF HandlerStep, AskStatus, Learn, Decide, LookupByText, LookupByButton, LoadSelect,
         LoadOther, LoadRefused, CallFails, Commit, Submit, Revert, Resolve, HandlerOnly,
         serverVars
<1>5. CASE \E h \in Handlers, c \in Chats :
              \/ \E kind \in Commands : Begin(h, c, kind)
              \/ \E p \in Prompts : Press(h, c, p)
  BY <1>0, <1>5 DEF Begin, Press, HandlerOnly, serverVars
<1>6. CASE \E e \in wire : Arrive(e) \/ ArriveUnknown(e) \/ Lose(e)
  BY <1>0, <1>6 DEF Arrive, ArriveUnknown, Lose
<1>7. CASE \E c \in Chats : BeginCandidate(c) \/ ApplyWebhook(c) \/ WatchStep(c)
  BY <1>0, <1>7, ApplyWebhookStep, WatchFrame DEF Watching, serverVars
<1>8. CASE TimerStep \/ UNCHANGED vars
  BY <1>0, <1>8 DEF TimerStep, BeginSweep, StartSweep, serverVars, vars
<1> QED
  BY <1>3, <1>4, <1>5, <1>6, <1>7, <1>8 DEF Next, BotStep

\* What a call answers is on the server, or given out by the call.
LEMMA AnswerClaims ==
    ASSUME Typed, NEW h \in Handlers, NEW s \in Sessions, NEW r, ServerDoes(h, s, r), r.task \in Tasks
    PROVE  OnServer(r.task, s) \/ NewRun(r.task, s)
<1>1. remote \in [Sessions -> RemoteSession] /\ None \notin Tasks /\ s # None
  BY NoneIsNoId DEF Typed, ServerTypeOK
<1>2. CASE r = AnswerOf(s)
  BY <1>1, <1>2 DEF AnswerOf, OnServer
<1>3. CASE ServerRun(s, op[h].token) /\ r.task = FreshTask
  <2>1. FreshTask \notin runs
    BY <1>3, FreshTaskType DEF ServerRun
  <2> QED
    BY <1>1, <1>3, <2>1 DEF ServerRun, NewRun
<1>4. r.task # None /\ Free.reply.task = None
  BY <1>1 DEF Free
<1> QED
  BY <1>1, <1>2, <1>3, <1>4 DEF ServerDoes

LEMMA HandClaims ==
    ASSUME Typed, [Next]_vars, NEW t \in Tasks, NEW s \in Sessions, InHand(t, s)'
    PROVE  Claim(t, s) \/ NewRun(t, s)
<1>0. op \in [Handlers -> Handler] /\ None \notin Sessions
  BY NoneIsNoId DEF Typed, HandlersTyped
<1>1. PICK h \in Handlers :
         op'[h].at \in {"learn", "commit"} /\ op'[h].reply.task = t /\ op'[h].session = s
  BY DEF InHand
<1>2. CASE op'[h] = op[h]
  BY <1>1, <1>2 DEF Claim, InHand
<1>3. ASSUME NEW x \in Handlers, NEW c \in Chats, Begins(x, c), op'[h] # op[h] PROVE FALSE
  BY <1>0, <1>1, <1>3 DEF Begins
<1>4. ASSUME NEW x \in Handlers, Proceeds(x), op'[h] # op[h]
      PROVE  Claim(t, s) \/ NewRun(t, s)
  <2>1. PICK o : op' = [op EXCEPT ![h] = o] /\ NextMove(h, o)
    BY <1>0, <1>1, <1>4 DEF Proceeds, Free
  <2>2. op'[h] = o
    BY <1>0, <2>1
  <2>3. CASE o.at = "learn"
    <3>1. o.reply = AnswerOf(s)
      BY <1>1, <2>1, <2>2, <2>3 DEF NextMove
    <3> QED
      BY <1>1, <2>2, <3>1, NoneIsNoId DEF AnswerOf, Claim, OnServer
  <2>4. CASE o.at = "commit" /\ op[h].at = "call" /\ ServerDoes(h, o.session, o.reply)
    BY <1>1, <2>2, <2>4, AnswerClaims DEF Claim
  <2>5. o.session # None
    BY <1>0, <1>1, <2>2
  <2> QED
    BY <1>1, <2>1, <2>2, <2>3, <2>4, <2>5 DEF NextMove
<1> QED
  BY <1>2, <1>3, <1>4, StepHandlers DEF HandlersStep

\* What is in a row of a task or in the state of a chat was in a handler's hands.
LEMMA ChatClaims ==
    ASSUME Typed, ReadsHold, [Next]_vars, NEW t \in Tasks, NEW s \in Sessions, InChat(t, s)'
    PROVE  Claim(t, s)
<1>0. /\ db.binding \in [Chats -> Binding] /\ db.state \in [Chats -> State]
      /\ None \notin Sessions /\ None \notin Tasks
  BY NoneIsNoId DEF Typed, Sound, StoreType
<1>1. PICK c \in Chats : db'.state[c].task = t /\ db'.binding[c].session = s
  BY DEF InChat, TaskOf, Session_
<1>2. CASE db'.state[c] = db.state[c] /\ db'.binding[c] = db.binding[c]
  BY <1>1, <1>2 DEF Claim, InChat, TaskOf, Session_
<1>3. ASSUME NEW x \in Chats, NEW row, SetsState(db, db', x, row), SameBindings(db, db'),
             row.task = None
      PROVE  Claim(t, s)
  BY <1>0, <1>1, <1>2, <1>3 DEF SetsState, SameBindings
<1>4. ASSUME NEW h \in Handlers, op[h].at \in {"learn", "commit"}, NEW row,
             SetsState(db, db', op[h].chat, row), row.task \in {None, op[h].reply.task},
             \/ SameBindings(db, db') /\ db.binding[op[h].chat].session = op[h].session
             \/ \E p : SetsBinding(db, db', op[h].chat, [project |-> p, session |-> op[h].session])
      PROVE  Claim(t, s)
  <2>1. CASE c = op[h].chat
    <3>1. db'.state[c] = row /\ row.task = t /\ op[h].reply.task = t
      BY <1>0, <1>1, <1>4, <2>1 DEF SetsState
    <3>2. op[h].session = s
      <4>1. CASE SameBindings(db, db') /\ db.binding[op[h].chat].session = op[h].session
        BY <1>1, <2>1, <4>1 DEF SameBindings
      <4>2. ASSUME NEW p, SetsBinding(db, db', c, [project |-> p, session |-> op[h].session])
            PROVE  op[h].session = s
        <5>1. db'.binding[c] = [project |-> p, session |-> op[h].session]
          BY <1>0, <4>2 DEF SetsBinding
        <5> QED
          BY <1>1, <5>1
      <4> QED
        BY <1>4, <2>1, <4>1, <4>2
    <3> QED
      BY <1>4, <3>1, <3>2 DEF Claim, InHand
  <2>2. CASE c # op[h].chat
    BY <1>0, <1>2, <1>4, <2>2 DEF SetsState, SetsBinding, SameBindings
  <2> QED
    BY <2>1, <2>2
<1>5. ASSUME NEW h \in Handlers PROVE StateOfReply(op[h].reply).task \in {None, op[h].reply.task}
  BY DEF StateOfReply
<1>6. ASSUME NEW h \in Handlers, Learn(h) PROVE Claim(t, s)
  BY <1>4, <1>5, <1>6, LearnRows DEF ReadsHold
<1>7. ASSUME NEW h \in Handlers, Commit(h) PROVE Claim(t, s)
  <2>1. /\ op[h].at = "commit" /\ op[h].chat \in Chats
        /\ Selects(h) \/ Binds(h) \/ Executes(h) \/ Cancels(h)
    BY <1>7, CommitRows
  <2>2. CASE Selects(h)
    BY <1>0, <1>1, <1>2, <2>1, <2>2 DEF Selects, SetsBinding, SetsState
  <2>3. CASE Binds(h)
    BY <1>4, <1>5, <2>1, <2>3 DEF Binds
  <2>4. CASE Executes(h)
    <3>1. PICK mode :
             SetsState(db, db', op[h].chat, [mode |-> mode, task |-> op[h].reply.task])
      BY <2>4 DEF Executes
    <3> QED
      BY <1>4, <2>1, <2>4, <3>1 DEF Executes, ReadsHold
  <2>5. CASE Cancels(h)
    BY <1>3, <2>1, <2>5 DEF Cancels
  <2> QED
    BY <2>1, <2>2, <2>3, <2>4, <2>5
<1>8. ASSUME NEW x \in Chats, NEW e, NEW by, AppliesEvent(x, e, by) PROVE Claim(t, s)
  <2>1. SameBindings(db, db') /\ (SameStates(db, db') \/ FreesState(db, db', x))
    BY <1>8 DEF AppliesEvent, EventStep
  <2> QED
    BY <1>2, <1>3, <2>1 DEF FreesState, SameBindings, SameStates
<1> QED
  BY <1>2, <1>6, <1>7, <1>8, StepRows
     DEF RowStep, OnlyPrompts, RetryStep, OnlySessions, SameBindings, SameStates

\* Who writes a row of a task: a handler, for the task in its hands.
TaskStep ==
    \/ KeepsTasks(db, db')
    \/ \E h \in Handlers :
          /\ op[h].at \in {"learn", "commit"} /\ op[h].session \in Sessions
          /\ KeepsTasksBut(db, db', op[h].reply.task)
          /\ HasTaskOf(db', op[h].reply.task, op[h].session)

LEMMA SameTasksKept == ASSUME SameTasks(db, db') PROVE KeepsTasks(db, db')
BY DEF SameTasks, KeepsTasks, KeepsTasksBut, InProgress

LEMMA StepTasks == ASSUME Typed, [Next]_vars PROVE TaskStep
<1>1. ASSUME NEW h \in Handlers, Commit(h) PROVE TaskStep
  BY <1>1, CommitRows, SameTasksKept DEF Selects, Binds, Executes, Cancels, TaskStep
<1>2. ASSUME NEW h \in Handlers, Learn(h) PROVE TaskStep
  BY <1>2, LearnRows DEF TaskStep
<1>3. ASSUME NEW c \in Chats, NEW e, NEW by, AppliesEvent(c, e, by) PROVE TaskStep
  BY <1>3 DEF AppliesEvent, EventStep, TaskStep
<1> QED
  BY <1>1, <1>2, <1>3, StepRows, SameTasksKept
     DEF RowStep, OnlyPrompts, RetryStep, OnlySessions, TaskStep

LEMMA RowClaims ==
    ASSUME Typed, RowsNamed, [Next]_vars
    PROVE  /\ RowsNamed'
           /\ \A t \in Tasks, s \in Sessions : InRow(t, s)' => Claim(t, s)
<1>0. None \notin Sessions /\ None \notin Tasks
  BY NoneIsNoId
<1>1. CASE KeepsTasks(db, db')
  BY <1>0, <1>1 DEF KeepsTasks, KeepsTasksBut, RowsNamed, InRow, Claim
<1>2. ASSUME NEW h \in Handlers, op[h].at \in {"learn", "commit"}, op[h].session \in Sessions,
             KeepsTasksBut(db, db', op[h].reply.task),
             HasTaskOf(db', op[h].reply.task, op[h].session)
      PROVE  /\ RowsNamed'
             /\ \A t \in Tasks, s \in Sessions : InRow(t, s)' => Claim(t, s)
  BY <1>0, <1>2 DEF KeepsTasksBut, HasTaskOf, RowsNamed, InRow, InHand, Claim
<1> QED
  BY <1>1, <1>2, StepTasks DEF TaskStep

\* No step gives a task to a session, but the server's when it gives it out.
LEMMA ClaimStep ==
    ASSUME Typed, ReadsHold, RowsNamed, [Next]_vars, NEW t \in Tasks, NEW s \in Sessions,
           Claim(t, s)'
    PROVE  Claim(t, s) \/ NewRun(t, s)
<1>1. OnServer(t, s)' => Claim(t, s) \/ NewRun(t, s)
  BY StepClaims DEF ServerClaims, Claim
<1>2. InHand(t, s)' => Claim(t, s) \/ NewRun(t, s)
  BY HandClaims
<1>3. InRow(t, s)' => Claim(t, s)
  BY RowClaims
<1>4. InChat(t, s)' => Claim(t, s)
  BY ChatClaims
<1> QED
  BY <1>1, <1>2, <1>3, <1>4 DEF Claim

LEMMA HomeStep ==
    ASSUME Typed, ReadsHold, RowsNamed, OneHome, [Next]_vars PROVE OneHome'
<1>1. runs \subseteq runs'
  BY StepClaims DEF ServerClaims
<1>2. ASSUME NEW t \in Tasks, NEW s \in Sessions, NEW u \in Sessions, Claim(t, s)', Claim(t, u)'
      PROVE  t \in runs' /\ u = s
  <2>1. (Claim(t, s) \/ NewRun(t, s)) /\ (Claim(t, u) \/ NewRun(t, u))
    BY <1>2, ClaimStep
  <2>2. Claim(t, s) \/ Claim(t, u) => t \in runs
    BY DEF OneHome
  <2>3. CASE Claim(t, s) /\ Claim(t, u)
    BY <1>1, <2>2, <2>3 DEF OneHome
  <2>4. CASE NewRun(t, s) /\ NewRun(t, u)
    BY <2>2, <2>4 DEF NewRun, Claim, OnServer
  <2> QED
    BY <2>1, <2>2, <2>3, <2>4 DEF NewRun
<1> QED
  BY <1>2 DEF OneHome

LEMMA InitHome == Init => OneHome /\ RowsNamed
<1> SUFFICES ASSUME Init PROVE OneHome /\ RowsNamed
  OBVIOUS
<1>1. None \notin Tasks
  BY NoneIsNoId
<1>2. ASSUME NEW t \in Tasks, NEW s \in Sessions PROVE ~Claim(t, s)
  <2>1. ~OnServer(t, s)
    BY <1>1 DEF Init, ServerInit, OnServer
  <2>2. ~InHand(t, s)
    BY DEF Init, Free, InHand
  <2>3. ~InRow(t, s) /\ ~InChat(t, s)
    BY <1>1 DEF Init, EmptyStore, IdleState, InRow, InChat, TaskOf
  <2> QED
    BY <2>1, <2>2, <2>3 DEF Claim
<1>3. RowsNamed
  BY DEF Init, EmptyStore, RowsNamed
<1> QED
  BY <1>2, <1>3 DEF OneHome

\* With the chat's lock the task of a chat is never one of another session,
\* whichever sessions the chat is linked to in turn and however late an answer
\* comes: an answer is written for the session that was asked.
THEOREM TasksOfBoundSessions == ASSUME LockEnabled PROVE Spec => []TaskOfBoundSession
<1>1. Typed /\ Exclusive /\ OneHome /\ RowsNamed /\ [Next]_vars => OneHome' /\ RowsNamed'
  BY HomeStep, RowClaims DEF Exclusive
<1>2. Typed /\ Exclusive /\ OneHome /\ RowsNamed => TaskOfBoundSession
  <2> SUFFICES ASSUME Typed, Exclusive, OneHome, RowsNamed, NEW c \in Chats, TaskOf(c) \in Tasks
               PROVE  db.task[TaskOf(c)].session \in {None, Session_(c)}
    BY DEF TaskOfBoundSession
  <2>1. Session_(c) \in Sessions
    <3>1. Session_(c) \in Sessions \cup {None}
      BY DEF Typed, Sound, StoreType, Binding, Session_
    <3>2. Session_(c) # None
      BY NoneIsNoId DEF Exclusive, UnboundIsIdle, IdleState, TaskOf
    <3> QED
      BY <3>1, <3>2
  <2>2. Claim(TaskOf(c), Session_(c))
    BY DEF Claim, InChat
  <2>3. CASE db.task[TaskOf(c)].status = "none"
    BY <2>3 DEF RowsNamed
  <2>4. CASE db.task[TaskOf(c)].status # "none"
    <3> DEFINE u == db.task[TaskOf(c)].session
    <3>1. u \in Sessions /\ Claim(TaskOf(c), u)
      BY <2>4 DEF RowsNamed, Claim, InRow
    <3> QED
      BY <2>1, <2>2, <3>1 DEF OneHome
  <2> QED
    BY <2>3, <2>4
<1> QED
  BY <1>1, <1>2, InitHome, AlwaysTyped, AlwaysExclusive, PTL DEF Spec

-----------------------------------------------------------------------------
(* The attempts to ask for a session                                       *)

\* No two chats are linked to one session.
Unshared == \A c, d \in Chats : Session_(c) # None /\ Session_(c) = Session_(d) => c = d

\* Chat c asks for session s with n attempts on record when it was listed: the
\* row has no more, nobody is about to mint it, and no other chat is watched.
FreshRow(c, s, n) ==
    /\ db.session[s].retry <= n
    /\ remote[s].status # "unborn"
    /\ \A h \in Handlers : Minting(h) => op[h].session # s
    /\ Watched(s) => \A d \in Chats : Session_(d) = s => d = c

\* What a step does to the number of failed attempts.
LEMMA RetryRows ==
    ASSUME Typed, [Next]_vars, NEW s \in Sessions
    PROVE  \/ db'.session[s].retry \in {db.session[s].retry, 0}
           \/ Counts(s)
<1>0. db.session \in [Sessions -> Session]
  BY DEF Typed, Sound, StoreType
<1>1. ASSUME NEW h \in Handlers, Commit(h)
      PROVE  db'.session[s].retry \in {db.session[s].retry, 0}
  <2>1. NoSession.retry = 0 /\ WatchedSession.retry = 0
    BY DEF NoSession, WatchedSession
  <2>2. \A u \in Sessions : [db.session[u] EXCEPT !.terminal = "none"].retry = db.session[u].retry
    BY <1>0 DEF Session
  <2>3. CASE SameSessions(db, db')
    BY <2>3 DEF SameSessions
  <2>4. ASSUME NEW row, SetsSession(db, db', op[h].session, row), op[h].session \in Sessions,
               row.retry \in {db.session[op[h].session].retry, 0}
        PROVE  db'.session[s].retry \in {db.session[s].retry, 0}
    BY <1>0, <2>4 DEF SetsSession
  <2> QED
    BY <1>1, <2>1, <2>2, <2>3, <2>4, CommitSessions
<1>2. ASSUME NEW c \in Chats, NEW e, NEW by, AppliesEvent(c, e, by)
      PROVE  db'.session[s].retry \in {db.session[s].retry, 0}
  BY <1>2 DEF AppliesEvent, EventStep, EventSessions
<1>3. CASE OnlyPrompts(db, db') \/ \E h \in Handlers : Learn(h)
  BY <1>3, LearnRows DEF OnlyPrompts, SameSessions
<1>4. CASE RetryStep
  BY <1>4 DEF RetryStep, SetsRetry
<1> QED
  BY <1>1, <1>2, <1>3, <1>4, StepRows DEF RowStep

\* A session whose end is recorded has no failed attempts.
EndedUncounted == \A s \in Sessions : Ended(s) => db.session[s].retry = 0

LEMMA EndedStep == ASSUME Typed, EndedUncounted, [Next]_vars PROVE EndedUncounted'
<1> SUFFICES ASSUME NEW s \in Sessions, Ended(s)' PROVE db'.session[s].retry = 0
  BY DEF EndedUncounted
<1>0. db.session \in [Sessions -> Session]
  BY DEF Typed, Sound, StoreType
<1>1. CASE Ended(s)
  BY <1>1, RetryRows DEF EndedUncounted, Counts
<1>2. CASE ~Ended(s)
  <2>1. db'.session # db.session
    BY <1>2 DEF Ended
  <2>2. ~OnlyPrompts(db, db') /\ ~RetryStep /\ \A h \in Handlers : ~Learn(h)
    BY <1>2, <2>1, LearnRows DEF Ended, OnlyPrompts, SameSessions, RetryStep, SetsRetry
  <2>3. ASSUME NEW h \in Handlers, Commit(h) PROVE FALSE
    <3>1. NoSession.terminal = "none" /\ WatchedSession.terminal = "none"
      BY DEF NoSession, WatchedSession
    <3>2. \A u \in Sessions : [db.session[u] EXCEPT !.terminal = "none"].terminal = "none"
      BY <1>0 DEF Session
    <3>3. ASSUME NEW row, SetsSession(db, db', op[h].session, row), row.terminal = "none"
          PROVE  FALSE
      BY <1>0, <1>2, <3>3 DEF SetsSession, Ended
    <3> QED
      BY <2>1, <2>3, <3>1, <3>2, <3>3, CommitSessions DEF SameSessions
  <2>4. PICK c \in Chats : \E e, by : AppliesEvent(c, e, by)
    BY <2>2, <2>3, StepRows DEF RowStep
  <2> QED
    BY <1>2, <2>4 DEF AppliesEvent, EventStep, EventSessions, Ended
<1> QED
  BY <1>1, <1>2

\* Chat c goes from no session or another one to session s only by an order
\* that writes the row of s.
LEMMA LinkStep ==
    ASSUME Typed, [Next]_vars, NEW c \in Chats, NEW s \in Sessions,
           Session_(c)' = s, Session_(c) # s
    PROVE  \E h \in Handlers :
              /\ Commit(h) /\ op[h].session = s /\ op[h].chat = c
              /\ \/ op[h].kind = "session" /\ SetsSession(db, db', s, NoSession)
                 \/ Minting(h) /\ SetsSession(db, db', s, WatchedSession)
<1>1. db.binding \in [Chats -> Binding]
  BY DEF Typed, Sound, StoreType
<1>2. ~SameBindings(db, db')
  BY DEF SameBindings, Session_
<1>3. PICK h \in Handlers : /\ Commit(h)
                            /\ \A d \in Chats : d # op[h].chat => db'.binding[d] = db.binding[d]
  BY <1>2, BindingStep
<1>4. op[h].chat = c
  BY <1>3 DEF Session_
<1>5. op[h].at = "commit" /\ (Selects(h) \/ Binds(h))
  BY <1>2, <1>3, CommitRows DEF Executes, Cancels
<1>6. s # None
  BY NoneIsNoId
<1>7. ASSUME NEW p, NEW u, SetsBinding(db, db', op[h].chat, [project |-> p, session |-> u])
      PROVE  u = s
  BY <1>1, <1>4, <1>7 DEF SetsBinding, Session_
<1>8. Binds(h) /\ op[h].session = s
  BY <1>5, <1>6, <1>7 DEF Selects, Binds
<1> QED
  BY <1>3, <1>4, <1>5, <1>8 DEF Binds, Minting

LEMMA FreshStep ==
    ASSUME Typed, [Next]_vars, NEW c \in Chats, NEW s \in Sessions, NEW n \in Nat,
           FreshRow(c, s, n), ~Counts(s)
    PROVE  FreshRow(c, s, n)'
<1>0. db.session[s] \in Session /\ db.session \in [Sessions -> Session]
  BY DEF Typed, Sound, StoreType
<1>1. db'.session[s].retry <= n
  BY <1>0, RetryRows DEF FreshRow, Session
<1>2. remote'[s].status # "unborn"
  BY BotBorn DEF BornStays, FreshRow
<1>3. ASSUME NEW h \in Handlers, Minting(h)', op'[h].session = s PROVE FALSE
  <2>1. ServerCreate(s)
    BY <1>3, NewMint DEF FreshRow
  <2> QED
    BY <2>1 DEF FreshRow, ServerCreate
<1>4. ASSUME Watched(s)', NEW d \in Chats, Session_(d)' = s PROVE d = c
  <2>1. Watched(s)
    BY <1>4, BotMints DEF TokensOnlyMinted, Mints, FreshRow
  <2>2. Session_(d) = s
    <3> SUFFICES ASSUME Session_(d) # s PROVE FALSE
      OBVIOUS
    <3>1. PICK h \in Handlers :
              /\ op[h].session = s
              /\ Minting(h) \/ SetsSession(db, db', s, NoSession)
      BY <1>4, LinkStep
    <3>2. db'.session[s] = NoSession
      BY <1>0, <3>1 DEF FreshRow, SetsSession
    <3> QED
      BY <1>4, <3>2 DEF Watched, NoSession
  <2> QED
    BY <2>1, <2>2 DEF FreshRow
<1> QED
  BY <1>1, <1>2, <1>3, <1>4 DEF FreshRow

\* The steps of a sweep's work on a chat, and those of them at which the server
\* is being asked.
Probing == {"ask", "failed", "react", "touch", "conclude"}
Asking(c) == work[c].at \in {"ask", "failed"}

\* Chat c is being asked for on behalf of sweep v, for the candidate k.
Starts(c, v, k) ==
    /\ k \in sweep[v] /\ k.chat = c /\ StartCandidate(v, k)
    /\ work'[c].by = v /\ work'[c].session = k.session /\ work'[c].retry = k.retry

\* The work on chat c goes on for the same sweep and the same session.
GoesOn(c) ==
    /\ work[c].at \in Probing
    /\ work'[c].by = work[c].by /\ work'[c].session = work[c].session
    /\ work'[c].retry = work[c].retry
    /\ Asking(c)' => Asking(c)

LEMMA ContinueWork ==
    ASSUME Typed, NEW c \in Chats, NEW at, Continue(c, at)
    PROVE  /\ work'[c].at = at
           /\ at # "free" => /\ work'[c].by = work[c].by
                             /\ work'[c].session = work[c].session
                             /\ work'[c].retry = work[c].retry
<1>1. CASE at = "free"
  BY <1>1 DEF Continue, Idle, Typed, WorkTyped
<1>2. CASE at # "free"
  <2>1. work' = [work EXCEPT ![c] = [work[c] EXCEPT !.at = at]]
    BY <1>2 DEF Continue
  <2> QED
    BY <1>2, <2>1 DEF Typed, WorkTyped, Work
<1> QED
  BY <1>1, <1>2

\* An event leaves a notice to be sent, or no work.
LEMMA AfterWork ==
    ASSUME Typed, NEW c \in Chats, NEW e, NEW by, EventStep(c, e, by)
    PROVE  work'[c].at \notin Probing
<1>1. PICK n : NoticeOf(db', n, e.prompt) /\ work' = [work EXCEPT ![c] = After(by, e.session, n)]
  BY DEF EventStep
<1>2. work'[c] = After(by, e.session, n)
  BY <1>1 DEF Typed, WorkTyped
<1>3. CASE n.kind = "none"
  BY <1>2, <1>3 DEF After, Idle, Probing
<1>4. CASE n.kind # "none"
  <2>1. FirstOf(n) \in {"free", "show", "clean", "say"}
    BY <1>1, FirstOfType DEF NoticeOf, NoticeOK
  <2>2. work'[c].at = FirstOf(n)
    BY <1>2, <1>4 DEF After, Idle
  <2> QED
    BY <2>1, <2>2 DEF Probing
<1> QED
  BY <1>3, <1>4

LEMMA WatchWork ==
    ASSUME Typed, NEW c \in Chats, Watching(c) \/ ApplyWebhook(c)
    PROVE  \/ work'[c].at \notin Probing
           \/ GoesOn(c)
           \/ \E v \in Sweeps : \E k : Starts(c, v, k)
<1>1. CASE BeginCandidate(c)
  <2>1. PICK v \in Sweeps : \E k \in sweep[v] : k.chat = c /\ StartCandidate(v, k)
    BY <1>1 DEF BeginCandidate
  <2>2. PICK k \in sweep[v] : k.chat = c /\ StartCandidate(v, k)
    BY <2>1
  <2>3. work' = [work EXCEPT ![c] = [Idle EXCEPT !.by = v, !.at = "ask",
                                        !.session = k.session, !.retry = k.retry]]
    BY <2>2 DEF StartCandidate
  <2>4. work'[c].by = v /\ work'[c].session = k.session /\ work'[c].retry = k.retry
    BY <2>3 DEF Typed, WorkTyped, Idle
  <2> QED
    BY <2>2, <2>4 DEF Starts
<1>2. CASE AskRemote(c)
  <2>1. PICK at, answer : work' = [work EXCEPT ![c].at = at, ![c].answer = answer]
    BY <1>2 DEF AskRemote
  <2>2. /\ work'[c].by = work[c].by /\ work'[c].session = work[c].session
        /\ work'[c].retry = work[c].retry
    BY <2>1 DEF Typed, WorkTyped, Work
  <2> QED
    BY <1>2, <2>2 DEF GoesOn, Asking, Probing, AskRemote
<1>3. CASE Conclude(c)
  BY <1>3, ConcludeStep, ContinueWork, AfterWork DEF Probing
<1>4. CASE ApplyWebhook(c)
  BY <1>4, ApplyWebhookStep, ContinueWork, AfterWork DEF Probing
<1>5. CASE ReactToFailure(c) \/ React(c) \/ TouchSession(c)
  <2>1. \E at \in {"free", "touch", "conclude"} : Continue(c, at)
    BY <1>5 DEF ReactToFailure, React, TouchSession
  <2>2. work[c].at \in Probing
    BY <1>5 DEF ReactToFailure, React, TouchSession, Probing
  <2> QED
    BY <2>1, <2>2, ContinueWork DEF GoesOn, Asking, Probing
<1>6. CASE \/ TrackPromptMessage(c) \/ CleanKeyboard(c)
           \/ TrackPromptCleanup(c) \/ Say(c) \/ NoticeFails(c) \/ TrackFails(c)
  <2>1. \E at \in {"free", "track", "clean", "untrack", "say"} : Continue(c, at)
    BY <1>6 DEF TrackPromptMessage, CleanKeyboard, TrackPromptCleanup, Say,
                NoticeFails, TrackFails, NoticeEnds, AfterTrack, AfterUntrack
  <2> QED
    BY <2>1, ContinueWork DEF Probing
<1>7. CASE ShowPrompt(c)
  BY <1>7, ShowKeeps DEF Probing
<1> QED
  BY <1>1, <1>2, <1>3, <1>4, <1>5, <1>6, <1>7 DEF Watching, WatchStep

\* Only the watcher's steps on a chat move its work.
LEMMA StepWork ==
    ASSUME Typed, [Next]_vars
    PROVE  work' = work \/ \E c \in Chats : Watching(c) \/ ApplyWebhook(c)
<1>1. CASE BotStep
  <2>1. ASSUME NEW h \in Handlers, HandlerStep(h) PROVE work' = work
    BY <2>1 DEF HandlerStep, AskStatus, Learn, Decide, LookupByText, LookupByButton, LoadSelect,
                LoadOther, LoadRefused, Call, CallFails, Commit, Submit, Bridge, Revert, Resolve,
                HandlerOnly
  <2>2. CASE \/ \E h \in Handlers, c \in Chats :
                  \/ \E kind \in Commands : Begin(h, c, kind)
                  \/ \E p \in Prompts : Press(h, c, p)
             \/ \E e \in wire : Arrive(e) \/ ArriveUnknown(e) \/ Lose(e)
    BY <2>2 DEF Begin, Press, HandlerOnly, Arrive, ArriveUnknown, Lose, botVars
  <2> QED
    BY <1>1, <2>1, <2>2 DEF BotStep, Watching
<1>2. CASE TimerStep \/ WorldStep \/ UNCHANGED vars
  BY <1>2 DEF TimerStep, BeginSweep, StartSweep, WorldStep, vars, botVars
<1> QED
  BY <1>1, <1>2 DEF Next

\* What a sweep has still to look at gets less, unless the sweep starts.
LEMMA StepSweeps ==
    ASSUME Typed, [Next]_vars, NEW w \in Sweeps
    PROVE  \/ sweep'[w] \subseteq sweep[w]
           \/ /\ ~Sweeping(w) /\ sweep'[w] \subseteq Candidates
              /\ UNCHANGED <<db, op, inbox, work, serverVars>>
<1>0. sweep \in [Sweeps -> SUBSET Candidate]
  BY DEF Typed, QueuesTyped
<1>1. CASE BotStep
  <2>1. ASSUME NEW h \in Handlers, HandlerStep(h) PROVE sweep' = sweep
    BY <2>1 DEF HandlerStep, AskStatus, Learn, Decide, LookupByText, LookupByButton, LoadSelect,
                LoadOther, LoadRefused, Call, CallFails, Commit, Submit, Bridge, Revert, Resolve,
                HandlerOnly
  <2>2. CASE \/ \E h \in Handlers, c \in Chats :
                  \/ \E kind \in Commands : Begin(h, c, kind)
                  \/ \E p \in Prompts : Press(h, c, p)
             \/ \E e \in wire : Arrive(e) \/ ArriveUnknown(e) \/ Lose(e)
    BY <2>2 DEF Begin, Press, HandlerOnly, Arrive, ArriveUnknown, Lose, botVars
  <2>3. ASSUME NEW c \in Chats, BeginCandidate(c) PROVE sweep'[w] \subseteq sweep[w]
    BY <1>0, <2>3 DEF BeginCandidate, StartCandidate
  <2>4. ASSUME NEW c \in Chats, WatchStep(c) PROVE sweep'[w] \subseteq sweep[w]
    BY <1>0, <2>4 DEF WatchStep, WatchOnly, AskRemote, ReactToFailure, React, TouchSession,
                Conclude, ShowPrompt, TrackPromptMessage, CleanKeyboard, TrackPromptCleanup,
                Say, NoticeFails, TrackFails, NoticeEnds
  <2>5. ASSUME NEW c \in Chats, ApplyWebhook(c) PROVE sweep'[w] \subseteq sweep[w]
    BY <2>5 DEF ApplyWebhook
  <2> QED
    BY <1>1, <2>1, <2>2, <2>3, <2>4, <2>5 DEF BotStep
<1>2. CASE TimerStep
  <2>1. PICK v \in Sweeps : \E listed : StartSweep(v, listed)
    BY <1>2 DEF TimerStep, BeginSweep
  <2>2. PICK listed : StartSweep(v, listed)
    BY <2>1
  <2> QED
    BY <1>0, <2>2 DEF StartSweep
<1>3. CASE WorldStep \/ UNCHANGED vars
  BY <1>3 DEF WorldStep, vars, botVars
<1> QED
  BY <1>1, <1>2, <1>3 DEF Next

\* A session that is about to be given up is given up.
LEMMA ConcludeWaits ==
    ASSUME Typed, [Next]_vars, NEW c \in Chats, work[c].at = "conclude"
    PROVE  Conclude(c) \/ work'[c] = work[c]
<1>1. CASE Watching(c) \/ ApplyWebhook(c)
  <2>1. work[c] # Idle
    BY DEF Idle
  <2>2. ~BeginCandidate(c) /\ ~ApplyWebhook(c)
    BY <2>1 DEF BeginCandidate, StartCandidate, ApplyWebhook
  <2>3. ~AskRemote(c) /\ ~ReactToFailure(c) /\ ~React(c) /\ ~TouchSession(c)
    BY DEF AskRemote, ReactToFailure, React, TouchSession
  <2>4. ~ShowPrompt(c) /\ ~TrackPromptMessage(c) /\ ~CleanKeyboard(c) /\ ~TrackPromptCleanup(c)
    BY DEF ShowPrompt, TrackPromptMessage, CleanKeyboard, TrackPromptCleanup
  <2>5. ~Say(c) /\ ~NoticeFails(c) /\ ~TrackFails(c)
    BY DEF Say, NoticeFails, TrackFails, NoticeEnds
  <2> QED
    BY <1>1, <2>2, <2>3, <2>4, <2>5 DEF Watching, WatchStep
<1>2. ASSUME NEW d \in Chats, d # c, Watching(d) \/ ApplyWebhook(d) PROVE work'[c] = work[c]
  BY <1>2, WatchFrame, ApplyWebhookStep
<1>3. CASE work' = work
  BY <1>3
<1> QED
  BY <1>1, <1>2, <1>3, StepWork

\* Sweeps do not overlap: at most one chat is being asked for, what it and the
\* candidates of the sweep know of their sessions is fresh, and no session is
\* asked for twice.
OneByOne == \A c, d \in Chats : Asking(c) /\ Asking(d) => c = d
OnBehalf == \A c \in Chats : work[c].at \in Probing => work[c].by \in Sweeps
ListedFresh ==
    \A v \in Sweeps : \A k \in sweep[v] :
        /\ FreshRow(k.chat, k.session, k.retry)
        /\ \A l \in sweep[v] : l.session = k.session => l = k
AskedFresh ==
    \A c \in Chats : Asking(c) =>
        /\ FreshRow(c, work[c].session, work[c].retry)
        /\ \A v \in Sweeps : \A k \in sweep[v] : k.session # work[c].session
Counting == EndedUncounted /\ OneByOne /\ OnBehalf /\ ListedFresh /\ AskedFresh

\* One sweep at a time.
Alone == \A v, w \in Sweeps : v = w

\* What a chat's work becomes in a step of the whole.
LEMMA StepProbes ==
    ASSUME Typed, [Next]_vars, NEW c \in Chats, work'[c].at \in Probing
    PROVE  \/ work'[c] = work[c]
           \/ GoesOn(c)
           \/ \E v \in Sweeps : \E k : Starts(c, v, k)
<1>1. ASSUME NEW d \in Chats, d # c, Watching(d) \/ ApplyWebhook(d) PROVE work'[c] = work[c]
  BY <1>1, WatchFrame, ApplyWebhookStep
<1> QED
  BY <1>1, StepWork, WatchWork

LEMMA BehalfStep == ASSUME Typed, OnBehalf, [Next]_vars PROVE OnBehalf'
BY StepProbes DEF OnBehalf, GoesOn, Starts

\* A chat that is being asked for was before, or its turn has come and no other
\* chat is being asked for.
LEMMA AskingStep ==
    ASSUME Typed, OnBehalf, Alone, [Next]_vars, NEW c \in Chats, Asking(c)'
    PROVE  \/ /\ Asking(c) /\ work'[c].session = work[c].session
              /\ work'[c].retry = work[c].retry /\ work'[c].by = work[c].by
           \/ /\ \E v \in Sweeps : \E k : Starts(c, v, k)
              /\ \A d \in Chats : ~Asking(d)
<1>1. work'[c].at \in Probing
  BY DEF Asking, Probing
<1>2. CASE work'[c] = work[c] \/ GoesOn(c)
  BY <1>2 DEF Asking, GoesOn
<1>3. ASSUME NEW v \in Sweeps, NEW k, Starts(c, v, k) PROVE \A d \in Chats : ~Asking(d)
  BY <1>3 DEF Starts, StartCandidate, OnBehalf, Alone, Asking, Probing
<1> QED
  BY <1>1, <1>2, <1>3, StepProbes

LEMMA OneByOneStep ==
    ASSUME Typed, OnBehalf, OneByOne, Alone, [Next]_vars PROVE OneByOne'
<1>1. ASSUME NEW c \in Chats, NEW d \in Chats, Asking(c)', Asking(d)', c # d PROVE FALSE
  <2>1. ASSUME NEW x \in Chats, NEW y \in Chats, x # y, Asking(y)',
               NEW v \in Sweeps, NEW k, Starts(x, v, k)
        PROVE  Asking(y)
    <3>1. k \in Candidate
      BY <2>1 DEF Starts, Typed, QueuesTyped
    <3>2. work'[y] = work[y]
      BY <2>1, <3>1 DEF Starts, StartCandidate, Typed, WorkTyped
    <3> QED
      BY <2>1, <3>2 DEF Asking
  <2> QED
    BY <1>1, <2>1, AskingStep DEF OneByOne
<1> QED
  BY <1>1 DEF OneByOne

\* A failed attempt that is counted ends the asking.
LEMMA CountedAlone ==
    ASSUME Typed, NEW s \in Sessions, Counts(s)
    PROVE  \E x \in Chats : /\ ReactToFailure(x) /\ work[x].session = s
                            /\ Asking(x) /\ ~Asking(x)'
<1>1. PICK x \in Chats : ReactToFailure(x) /\ work[x].session = s
  BY DEF Counts
<1>2. \E at \in {"free", "conclude"} : Continue(x, at)
  BY <1>1 DEF ReactToFailure
<1>3. Asking(x) /\ ~Asking(x)'
  BY <1>1, <1>2, ContinueWork DEF ReactToFailure, Asking
<1> QED
  BY <1>1, <1>3

\* A candidate knows its session when it is listed.
LEMMA CandidateFresh ==
    ASSUME Typed, MintedOnce, Unshared, NEW k \in Candidates
    PROVE  /\ k \in Candidate
           /\ FreshRow(k.chat, k.session, k.retry)
           /\ k.session = Session_(k.chat)
<1>1. PICK c \in Chats : /\ IsCandidate(db, c)
                         /\ k = [chat |-> c, session |-> db.binding[c].session,
                                 retry |-> db.session[db.binding[c].session].retry]
  BY DEF Candidates
<1>2. k \in Candidate
  BY CandidateType DEF Typed
<1>3. /\ k.chat = c /\ k.session = Session_(c) /\ k.retry = db.session[k.session].retry
      /\ k.session \in Sessions /\ Watched(k.session)
  BY <1>1, <1>2 DEF Candidate, IsCandidate, Session_, Watched
<1>4. db.session[k.session].retry <= k.retry
  BY <1>2, <1>3 DEF Candidate
<1>5. k.session # None
  BY <1>3, NoneIsNoId
<1> QED
  BY <1>2, <1>3, <1>4, <1>5 DEF FreshRow, MintedOnce, Unshared

LEMMA ListedStep ==
    ASSUME Typed, MintedOnce, Unshared, Counting, [Next]_vars PROVE ListedFresh'
<1> SUFFICES ASSUME NEW v \in Sweeps, NEW k \in sweep'[v]
             PROVE  /\ FreshRow(k.chat, k.session, k.retry)'
                    /\ \A l \in sweep'[v] : l.session = k.session => l = k
  BY DEF ListedFresh
<1>1. CASE sweep'[v] \subseteq sweep[v]
  <2>1. k \in sweep[v] /\ k \in Candidate
    BY <1>1 DEF Typed, QueuesTyped
  <2>2. k.chat \in Chats /\ k.session \in Sessions /\ k.retry \in Nat
    BY <2>1, StoreAssumption DEF Candidate
  <2>3. ~Counts(k.session)
    BY <2>1, <2>2, CountedAlone DEF Counting, AskedFresh
  <2>4. FreshRow(k.chat, k.session, k.retry)
    BY <2>1 DEF Counting, ListedFresh
  <2>5. FreshRow(k.chat, k.session, k.retry)'
    BY <2>2, <2>3, <2>4, FreshStep
  <2> QED
    BY <1>1, <2>1, <2>5 DEF Counting, ListedFresh
<1>2. CASE sweep'[v] \subseteq Candidates /\ UNCHANGED <<db, op, inbox, work, serverVars>>
  <2>1. FreshRow(k.chat, k.session, k.retry) /\ k.session = Session_(k.chat)
    BY <1>2, CandidateFresh
  <2>2. FreshRow(k.chat, k.session, k.retry)'
    BY <1>2, <2>1 DEF FreshRow, Minting, Watched, Session_, serverVars
  <2>3. ASSUME NEW l \in sweep'[v], l.session = k.session PROVE l = k
    <3>1. l \in Candidates /\ k \in Candidates
      BY <1>2
    <3>2. l.session = Session_(l.chat) /\ l.chat \in Chats /\ k.chat \in Chats
          /\ k.session \in Sessions
      BY <3>1, CandidateFresh DEF Candidate
    <3>3. l.chat = k.chat
      BY <2>1, <2>3, <3>2, NoneIsNoId DEF Unshared
    <3> QED
      BY <3>1, <3>3 DEF Candidates
  <2> QED
    BY <2>2, <2>3
<1> QED
  BY <1>1, <1>2, StepSweeps

LEMMA AskedStep ==
    ASSUME Typed, Alone, Counting, [Next]_vars PROVE AskedFresh'
<1> SUFFICES ASSUME NEW c \in Chats, Asking(c)',
                    NEW s, NEW n, s = work'[c].session, n = work'[c].retry
             PROVE  /\ FreshRow(c, s, n)'
                    /\ \A v \in Sweeps : \A k \in sweep'[v] : k.session # s
  BY DEF AskedFresh
<1>1. OnBehalf /\ OneByOne
  BY DEF Counting
<1>2. CASE Asking(c) /\ s = work[c].session /\ n = work[c].retry /\ work'[c].by = work[c].by
  <2>1. work[c] \in Work /\ s \in Sessions
    BY <1>2 DEF Typed, WorkTyped, WatchOK, Asking
  <2>2. n \in Nat
    BY <1>2, <2>1, StoreAssumption DEF Work
  <2>3. ~Counts(s)
    BY <1>1, <1>2, <2>1, CountedAlone DEF OneByOne
  <2>4. FreshRow(c, s, n) /\ \A v \in Sweeps : \A k \in sweep[v] : k.session # s
    BY <1>2 DEF Counting, AskedFresh
  <2>5. FreshRow(c, s, n)'
    BY <2>1, <2>2, <2>3, <2>4, FreshStep
  <2>6. ASSUME NEW v \in Sweeps PROVE sweep'[v] \subseteq sweep[v]
    <3>1. work[c].by = v
      BY <1>1, <1>2 DEF OnBehalf, Alone, Asking, Probing
    <3> QED
      BY <3>1, StepSweeps DEF Sweeping
  <2> QED
    BY <2>4, <2>5, <2>6
<1>3. ASSUME NEW v \in Sweeps, NEW k, Starts(c, v, k), \A d \in Chats : ~Asking(d)
      PROVE  FreshRow(c, s, n)' /\ \A w \in Sweeps : \A l \in sweep'[w] : l.session # s
  <2>1. /\ k \in sweep[v] /\ k.chat = c /\ k.session = s
        /\ k.retry = n /\ sweep' = [sweep EXCEPT ![v] = @ \ {k}]
    BY <1>3 DEF Starts, StartCandidate
  <2>2. k \in Candidate /\ sweep \in [Sweeps -> SUBSET Candidate]
    BY <2>1 DEF Typed, QueuesTyped
  <2>3. k.session \in Sessions /\ k.retry \in Nat
    BY <2>2, StoreAssumption DEF Candidate
  <2>4. ~Counts(k.session)
    BY <1>3, <2>3, CountedAlone
  <2>5. FreshRow(c, k.session, k.retry)
        /\ \A l \in sweep[v] : l.session = k.session => l = k
    BY <2>1 DEF Counting, ListedFresh
  <2>6. FreshRow(c, k.session, k.retry)'
    BY <2>3, <2>4, <2>5, FreshStep
  <2>7. ASSUME NEW w \in Sweeps, NEW l \in sweep'[w] PROVE l.session # k.session
    <3>1. w = v
      BY DEF Alone
    <3>2. l \in sweep[v] /\ l # k
      BY <2>1, <2>2, <2>7, <3>1
    <3> QED
      BY <2>5, <3>2
  <2> QED
    BY <2>1, <2>6, <2>7
<1> QED
  BY <1>1, <1>2, <1>3, AskingStep

LEMMA CountingStep ==
    ASSUME Typed, MintedOnce, Unshared, Alone, Counting, [Next]_vars PROVE Counting'
BY EndedStep, OneByOneStep, BehalfStep, ListedStep, AskedStep DEF Counting

\* The session that is given up is written over: no attempt is left on record.
LEMMA GivenUp ==
    ASSUME Typed, OnBehalf, NEW c \in Chats, Conclude(c), IsCandidate(db, c),
           work[c].session = Session_(c)
    PROVE  db'.session[Session_(c)].retry = 0
<1> DEFINE e == Verdict(work[c])
<1>1. work[c].session \in Sessions /\ work[c].at = "conclude"
  BY DEF Conclude, Typed, WorkTyped, WatchOK
<1>2. work[c].by \in Sweeps
  BY <1>1 DEF OnBehalf, Probing
<1>3. SourceOf(work[c].by) = "watchdog"
  BY <1>2, SessionControlAssumption DEF SourceOf
<1>4. e.session = work[c].session /\ e.prompt = None
  BY DEF Verdict
<1>5. Accepts(db, c, e, "watchdog")
  BY <1>4 DEF Accepts, Duplicate, Bound, IsCandidate, Session_
<1>6. Mutate(c, e, work[c].by)
  BY DEF Conclude, Verdict
<1> HIDE DEF e
<1>7. Mutates(c, e, work[c].by)
  BY <1>3, <1>5, <1>6 DEF Mutate, Mutates, SourceOf, After
<1>8. EventStep(c, e, work[c].by)
  BY <1>1, <1>4, <1>7, MutatesEffect DEF Typed
<1> QED
  BY <1>1, <1>4, <1>8 DEF EventStep, EventSessions

LEMMA AttemptsStep ==
    ASSUME Typed, Unshared, Counting, AttemptsBounded, [Next]_vars PROVE AttemptsBounded'
<1> SUFFICES ASSUME NEW c \in Chats, IsCandidate(db, c)'
             PROVE  \/ db'.session[Session_(c)'].retry < MaxRetry
                    \/ work'[c].session = Session_(c)' /\ work'[c].at = "conclude"
  BY DEF AttemptsBounded
<1> DEFINE s == Session_(c)'
<1>0. db.session \in [Sessions -> Session] /\ db'.binding \in [Chats -> Binding]
  <2>1. Typed'
    BY BotStepType, TimerStepType, WorldStepType, StutterTyped DEF Next
  <2> QED
    BY <2>1 DEF Typed, Sound, StoreType
<1>1. /\ s # None /\ s \in Sessions /\ db'.session[s].watched
      /\ db'.session[s].terminal = "none"
  BY <1>0 DEF IsCandidate, Session_, Binding
<1>2. MaxRetry \in Nat \ {0} /\ db.session[s].retry \in Nat /\ db.session[s].retry <= MaxRetry
  BY <1>0, <1>1, StoreAssumption DEF Session
<1> HIDE DEF s
<1>3. CASE Counts(s)
  <2>1. PICK x \in Chats : ReactToFailure(x) /\ work[x].session = s /\ Asking(x)
    BY <1>1, <1>3, CountedAlone
  <2>2. FreshRow(x, s, work[x].retry)
    BY <2>1 DEF Counting, AskedFresh
  <2>3. Watched(s)
    BY <1>1, <2>2, BotMints DEF TokensOnlyMinted, Mints, FreshRow, Watched
  <2>4. Session_(c) = s
    <3>1. SameBindings(db, db')
      BY <1>1, <2>1, CountFailureEffect DEF ReactToFailure, Typed, Sound, OnlySessions
    <3> QED
      BY <3>1 DEF SameBindings, Session_, s
  <2>5. x = c
    BY <2>2, <2>3, <2>4 DEF FreshRow
  <2>6. db'.session[s].retry <= work[c].retry + 1 /\ work[c].retry \in Nat
    BY <1>2, <1>3, <2>2, <2>5 DEF Counts, FreshRow, Typed, WorkTyped, Work
  <2>7. CASE Continue(c, "conclude")
    BY <2>1, <2>5, <2>7, ContinueWork DEF s
  <2>8. CASE work[c].retry + 1 < MaxRetry
    BY <1>2, <1>3, <2>6, <2>8 DEF Counts, s
  <2> QED
    BY <2>1, <2>5, <2>7, <2>8 DEF ReactToFailure
<1>4. CASE db'.session[s].retry = 0
  BY <1>2, <1>4 DEF s
<1>5. CASE db'.session[s].retry = db.session[s].retry /\ Session_(c) # s
  <2>1. PICK h \in Handlers :
            \/ SetsSession(db, db', s, NoSession)
            \/ SetsSession(db, db', s, WatchedSession)
    BY <1>1, <1>5, LinkStep DEF s
  <2>2. db'.session[s] = NoSession \/ db'.session[s] = WatchedSession
    BY <1>0, <1>1, <2>1 DEF SetsSession
  <2>3. NoSession.retry = 0 /\ WatchedSession.retry = 0
    BY DEF NoSession, WatchedSession
  <2>4. db'.session[s].retry = 0
    BY <2>2, <2>3
  <2> QED
    BY <1>4, <2>4
<1>6. CASE /\ db'.session[s].retry = db.session[s].retry /\ Session_(c) = s
           /\ IsCandidate(db, c)
  <2>1. CASE db.session[s].retry < MaxRetry
    BY <1>6, <2>1 DEF s
  <2>2. CASE work[c].session = s /\ work[c].at = "conclude"
    <3>1. CASE Conclude(c)
      BY <1>4, <1>6, <2>2, <3>1, GivenUp DEF Counting
    <3>2. CASE work'[c] = work[c]
      BY <2>2, <3>2 DEF s
    <3> QED
      BY <2>2, <3>1, <3>2, ConcludeWaits
  <2> QED
    BY <1>6, <2>1, <2>2 DEF AttemptsBounded
<1>7. CASE /\ db'.session[s].retry = db.session[s].retry /\ Session_(c) = s
           /\ ~IsCandidate(db, c)
  <2>1. CASE Ended(s)
    BY <1>1, <1>4, <1>7, <2>1 DEF Counting, EndedUncounted
  <2>2. CASE ~Watched(s)
    <3>1. PICK h \in Handlers : Commit(h) /\ Minting(h) /\ op[h].session = s
      BY <1>1, <2>2, BotMints DEF TokensOnlyMinted, Mints, Watched
    <3>2. SetsSession(db, db', s, WatchedSession)
      BY <3>1, CommitRows DEF Minting, Selects, Binds, Executes, Cancels
    <3>3. db'.session[s] = WatchedSession
      BY <1>0, <1>1, <3>2 DEF SetsSession
    <3>4. WatchedSession.retry = 0
      BY DEF NoSession, WatchedSession
    <3>5. db'.session[s].retry = 0
      BY <3>3, <3>4
    <3> QED
      BY <1>4, <3>5
  <2> QED
    BY <1>1, <1>7, <2>1, <2>2 DEF IsCandidate, Ended, Watched, Session_
<1> QED
  BY <1>1, <1>3, <1>4, <1>5, <1>6, <1>7, RetryRows

LEMMA InitCounting == Init => Counting /\ AttemptsBounded
<1> SUFFICES ASSUME Init PROVE Counting /\ AttemptsBounded
  OBVIOUS
<1>1. /\ \A c \in Chats : Session_(c) = None
      /\ \A s \in Sessions : db.session[s].retry = 0
      /\ \A c \in Chats : work[c].at = "free"
      /\ \A v \in Sweeps : sweep[v] = {}
  BY DEF Init, EmptyStore, NoSession, Idle, Session_
<1>2. AttemptsBounded
  BY <1>1 DEF AttemptsBounded, IsCandidate, Session_
<1> QED
  BY <1>1, <1>2 DEF Counting, EndedUncounted, OneByOne, OnBehalf, ListedFresh, AskedFresh,
                    Asking, Probing

\* A server that cannot be reached is asked MaxRetry times at most: where no
\* sweep overlaps another and no two chats are linked to one session, a session
\* that the watchdog still follows has attempts left, or is being given up.
\* Two sweeps, or two chats of one session, would each count on the number that
\* the row had when the session was listed.
THEOREM AttemptsAreBounded ==
    ASSUME \A v, w \in Sweeps : v = w
    PROVE  Spec /\ []Unshared => []AttemptsBounded
<1>0. Alone
  BY DEF Alone
<1>1. Init => Counting /\ AttemptsBounded
  BY InitCounting
<1>2. /\ Typed /\ MintedOnce /\ Unshared /\ Counting /\ AttemptsBounded
      /\ [Next]_vars
      => Counting' /\ AttemptsBounded'
  BY <1>0, CountingStep, AttemptsStep
<1>3. Typed /\ MintedOnce /\ [Next]_vars => MintedOnce'
  BY MintStep
<1> QED
  BY <1>1, <1>2, <1>3, InitMint, AlwaysTyped, PTL DEF Spec
-----------------------------------------------------------------------------
(* The tasks in progress                                                   *)

Waiting == {"running", "needs-attention"}

\* A session keeps the task of its last run, and starts none.
RunKept(s) ==
    /\ remote'[s].task = remote[s].task
    /\ remote'[s].status \in Waiting => remote[s].status \in Waiting

\* A message, a command or a cancellation reaches session s: another run, or none.
RunSet(s) ==
    /\ \A u \in Sessions : u # s => RunKept(u)
    /\ remote'[s].status \in Waiting => remote'[s].task \in Tasks

LEMMA RunSetEffect ==
    ASSUME Typed, NEW s \in Sessions, NEW token,
           \/ ServerCancel(s) \/ ServerReply(s, token)
           \/ ServerAsks(s, token) \/ ServerRun(s, token)
    PROVE  RunSet(s) /\ (ServerCancel(s) => remote'[s].task = None)
<1>1. remote \in [Sessions -> RemoteSession] /\ remote[s] \in RemoteSession
  BY DEF Typed, ServerTypeOK
<1>2. ASSUME NEW row, remote' = [remote EXCEPT ![s] = row],
             row.status \in Waiting => row.task \in Tasks
      PROVE  RunSet(s) /\ remote'[s] = row
  BY <1>1, <1>2 DEF RunSet, RunKept
<1>3. CASE ServerCancel(s)
  <2> DEFINE row == [remote[s] EXCEPT !.status = "idle", !.task = None, !.prompt = None]
  <2>1. row.status = "idle" /\ row.task = None
    BY <1>1 DEF RemoteSession
  <2>2. remote' = [remote EXCEPT ![s] = row]
    BY <1>3 DEF ServerCancel
  <2> HIDE DEF row
  <2> QED
    BY <1>2, <2>1, <2>2 DEF Waiting
<1>4. CASE ~ServerCancel(s)
  <2> DEFINE row(status, task) == [status |-> status, task |-> task, token |-> token,
                                   prompt |-> None]
  <2>1. \A status, task : row(status, task).status = status /\ row(status, task).task = task
    OBVIOUS
  <2>2. \/ remote' = [remote EXCEPT ![s] = row("idle", None)]
        \/ /\ Tasks \ runs # {}
           /\ \/ remote' = [remote EXCEPT ![s] = row("running", FreshTask)]
              \/ remote' = [remote EXCEPT ![s] = row("needs-attention", FreshTask)]
    BY <1>4 DEF ServerRun, ServerAsks, ServerReply
  <2> HIDE DEF row
  <2>3. Tasks \ runs # {} => FreshTask \in Tasks
    BY FreshTaskType
  <2> QED
    BY <1>2, <1>4, <2>1, <2>2, <2>3 DEF Waiting
<1> QED
  BY <1>3, <1>4

LEMMA RunKeptEffect ==
    ASSUME Typed, NEW s \in Sessions,
           \/ ServerCreate(s) \/ ServerResume(s) \/ RunCrashes(s)
           \/ \E kind \in EndKinds : RunEnds(s, kind)
           \/ \E p : RunAsks(s, p)
    PROVE  \A u \in Sessions : RunKept(u)
<1>1. remote \in [Sessions -> RemoteSession] /\ remote[s] \in RemoteSession
  BY DEF Typed, ServerTypeOK
<1>2. ASSUME NEW row, remote' = [remote EXCEPT ![s] = row], row.task = remote[s].task,
             row.status \in Waiting => remote[s].status \in Waiting
      PROVE  \A u \in Sessions : RunKept(u)
  BY <1>1, <1>2 DEF RunKept
<1>3. CASE RunCrashes(s) \/ \E kind \in EndKinds : RunEnds(s, kind)
  <2> DEFINE row(status) == [remote[s] EXCEPT !.status = status]
  <2>1. \A status : row(status).task = remote[s].task /\ row(status).status = status
    BY <1>1 DEF RemoteSession
  <2>2. \/ remote' = [remote EXCEPT ![s] = row("gone")]
        \/ remote' = [remote EXCEPT ![s] = row("completed")]
    BY <1>3 DEF RunCrashes, RunEnds
  <2> HIDE DEF row
  <2> QED
    BY <1>2, <2>1, <2>2 DEF Waiting
<1>4. CASE ServerResume(s) \/ \E p : RunAsks(s, p)
  <2> DEFINE row(status, p) == [remote[s] EXCEPT !.status = status, !.prompt = p]
  <2>1. \A status, p : row(status, p).task = remote[s].task
    BY <1>1 DEF RemoteSession
  <2>2. /\ remote[s].status \in Waiting
        /\ \/ remote' = [remote EXCEPT ![s] = row("running", None)]
           \/ \E p : remote' = [remote EXCEPT ![s] = row("needs-attention", p)]
    BY <1>4 DEF ServerResume, RunAsks, Waiting
  <2> HIDE DEF row
  <2> QED
    BY <1>2, <2>1, <2>2
<1>5. CASE ServerCreate(s)
  <2> DEFINE row == [remote[s] EXCEPT !.status = "idle", !.token = "own"]
  <2>1. row.task = remote[s].task /\ row.status = "idle"
    BY <1>1 DEF RemoteSession
  <2>2. remote' = [remote EXCEPT ![s] = row]
    BY <1>5 DEF ServerCreate
  <2> HIDE DEF row
  <2> QED
    BY <1>2, <2>1, <2>2 DEF Waiting
<1> QED
  BY <1>3, <1>4, <1>5

\* Handler h has an order for session s on its way.
Addresses(h, s) ==
    op[h].at = "call" /\ op[h].kind \in {"text", "run", "cancel"} /\ op[h].session = s

\* The runs of the sessions are set by the orders of handlers alone.
RunStep ==
    \/ \A s \in Sessions : RunKept(s)
    \/ \E h \in Handlers, s \in Sessions :
          /\ Call(h) /\ Addresses(h, s) /\ RunSet(s)
          /\ op[h].kind = "cancel" => remote'[s].task = None

LEMMA StepRuns == ASSUME Typed, [Next]_vars PROVE RunStep
<1>0. CASE remote' = remote
  BY <1>0 DEF RunStep, RunKept
<1>1. ASSUME NEW h \in Handlers, Call(h) PROVE RunStep
  <2>1. PICK s, reply : ServerDoes(h, s, reply)
    BY <1>1 DEF Call
  <2>2. CASE op[h].kind = "project" \/ op[h].kind = "session"
    BY <1>0, <2>1, <2>2 DEF ServerDoes, serverVars
  <2>3. CASE op[h].kind = "new"
    BY <2>1, <2>3, RunKeptEffect DEF ServerDoes, RunStep
  <2>4. CASE op[h].kind \in {"text", "run", "cancel"}
    <3>1. /\ op[h].at = "call" /\ s = op[h].session
          /\ \/ op[h].kind = "cancel" /\ ServerCancel(s)
             \/ /\ op[h].kind # "cancel"
                /\ \/ ServerReply(s, op[h].token) \/ ServerAsks(s, op[h].token)
                   \/ ServerRun(s, op[h].token)
      BY <1>1, <2>1, <2>4 DEF ServerDoes, Call
    <3>2. s \in Sessions
      BY <2>4, <3>1 DEF Typed, HandlersTyped, HandlerOK
    <3> QED
      BY <1>1, <2>4, <3>1, <3>2, RunSetEffect DEF RunStep, Addresses
  <2> QED
    BY <2>1, <2>2, <2>3, <2>4 DEF ServerDoes
<1>2. ASSUME NEW h \in Handlers, Bridge(h) PROVE RunStep
  <2>1. op[h].session \in Sessions
    BY <1>2 DEF Bridge, Typed, HandlersTyped, HandlerOK, Answering
  <2> QED
    BY <1>0, <1>2, <2>1, RunKeptEffect DEF Bridge, RunStep, serverVars
<1>3. CASE WorldStep
  BY <1>3, RunKeptEffect DEF WorldStep, ServerStep, AnsweredAtPc, RunStep
<1>4. ASSUME NEW h \in Handlers, HandlerStep(h) PROVE RunStep
  BY <1>0, <1>1, <1>2, <1>4
     DEF HandlerStep, AskStatus, Learn, Decide, LookupByText, LookupByButton, LoadSelect,
         LoadOther, LoadRefused, CallFails, Commit, Submit, Revert, Resolve, HandlerOnly,
         serverVars
<1>5. CASE \E h \in Handlers, c \in Chats :
              \/ \E kind \in Commands : Begin(h, c, kind)
              \/ \E p \in Prompts : Press(h, c, p)
  BY <1>0, <1>5 DEF Begin, Press, HandlerOnly, serverVars
<1>6. CASE \E e \in wire : Arrive(e) \/ ArriveUnknown(e) \/ Lose(e)
  BY <1>0, <1>6 DEF Arrive, ArriveUnknown, Lose
<1>7. CASE \E c \in Chats : BeginCandidate(c) \/ ApplyWebhook(c) \/ WatchStep(c)
  BY <1>0, <1>7, ApplyWebhookStep, WatchFrame DEF Watching, serverVars
<1>8. CASE TimerStep \/ UNCHANGED vars
  BY <1>0, <1>8 DEF TimerStep, BeginSweep, StartSweep, serverVars, vars
<1> QED
  BY <1>3, <1>4, <1>5, <1>6, <1>7, <1>8 DEF Next, BotStep

\* A task in progress is the task of a chat of its session.
Homed ==
    \A t \in Tasks : InProgress(db, t) =>
        \E c \in Chats : TaskOf(c) = t /\ Session_(c) = db.task[t].session

\* A chat that is being given something new to do has no task in progress.
Clear ==
    \A h \in Handlers :
        op[h].at \in {"call", "commit"} /\ op[h].kind # "cancel" =>
            ~InProgress(db, TaskOf(op[h].chat))

\* A run that the server knows of has a task id.
RunsNamed == \A s \in Sessions : remote[s].status \in Waiting => remote[s].task \in Tasks

\* Handler h is about to put the task of a run into the state of its chat: it is
\* the last run of the session.
Brings(h) ==
    \/ op[h].at = "learn" /\ op[h].reply.status = "running"
    \/ op[h].at = "commit" /\ op[h].kind \in {"text", "run"} /\ op[h].reply.task # None
HasLastRun(h) == op[h].reply.task \in Tasks /\ OnServer(op[h].reply.task, op[h].session)
BringsLatest == \A h \in Handlers : Brings(h) => HasLastRun(h)

\* The task in progress of a chat is the last run of its session, unless the
\* session was cancelled or has answered at once since.
Agrees ==
    \A c \in Chats : InProgress(db, TaskOf(c)) => remote[Session_(c)].task \in {TaskOf(c), None}

Accounted == Homed /\ Clear /\ RunsNamed /\ BringsLatest /\ Agrees
Grounds == Typed /\ Exclusive /\ OneHome /\ RowsNamed /\ Unshared

\* What a step does to the tasks in progress: nothing that matters, or chat c
\* gives its task up, or it gets the task t that its session runs.
Elsewhere(c) ==
    \A d \in Chats : d # c => db'.state[d] = db.state[d] /\ db'.binding[d] = db.binding[d]
Stays(u) == InProgress(db, u) /\ db'.task[u].session = db.task[u].session
NoneMoves ==
    /\ SameBindings(db, db') /\ SameStates(db, db')
    /\ \A u \in Tasks : InProgress(db', u) => Stays(u)
GivesUp(c) ==
    /\ Elsewhere(c) /\ remote' = remote
    /\ \A u \in Tasks : InProgress(db', u) =>
          Stays(u) /\ u # TaskOf(c) /\ u # db'.state[c].task
GetsTask(c, t, s) ==
    /\ Elsewhere(c) /\ remote' = remote
    /\ db'.state[c].task = t /\ db.binding[c].session = s /\ db'.binding[c].session = s
    /\ OnServer(t, s) /\ db'.task[t].session = s
    /\ \A u \in Tasks : InProgress(db', u) /\ u # t => Stays(u) /\ u # TaskOf(c)
    /\ \A h \in Handlers : op[h].chat = c => op'[h].at \notin {"call", "commit"}
DbStep ==
    \/ NoneMoves
    \/ \E c \in Chats : GivesUp(c)
    \/ \E c \in Chats, t \in Tasks, s \in Sessions : GetsTask(c, t, s)

LEMMA LearnDb ==
    ASSUME Grounds, Accounted, [Next]_vars, NEW h \in Handlers, Learn(h) PROVE DbStep
<1> DEFINE c == op[h].chat
           s == op[h].session
           r == op[h].reply
<1>0. /\ db.state \in [Chats -> State] /\ op \in [Handlers -> Handler] /\ None \notin Tasks
      /\ db.binding \in [Chats -> Binding]
  BY NoneIsNoId DEF Grounds, Typed, Sound, StoreType, HandlersTyped
<1>1. /\ op[h].at = "learn" /\ c \in Chats /\ s \in Sessions /\ r \in Reply
      /\ SameBindings(db, db') /\ SetsState(db, db', c, StateOfReply(r))
      /\ KeepsTasksBut(db, db', r.task) /\ HasTaskOf(db', r.task, s)
      /\ r.status # "running" => ~InProgress(db', TaskOf(c)) /\ ~InProgress(db', r.task)
  BY LearnRows DEF Grounds
<1>2. remote' = remote /\ op' = [op EXCEPT ![h] = [op[h] EXCEPT !.at = "decide", !.reply = Free.reply]]
  BY DEF Learn, HandlerOnly, serverVars
<1>3. Elsewhere(c) /\ db'.state[c] = StateOfReply(r)
  BY <1>0, <1>1 DEF Elsewhere, SetsState, SameBindings
<1>4. \A u \in Tasks : InProgress(db', u) /\ u # r.task => Stays(u)
  BY <1>1 DEF KeepsTasksBut, Stays
<1>5. CASE r.status # "running"
  <2>1. db'.state[c].task = None
    BY <1>1, <1>3, <1>5, StateOfReplyType
  <2> QED
    BY <1>0, <1>1, <1>2, <1>3, <1>4, <1>5, <2>1 DEF DbStep, GivesUp
<1>6. CASE r.status = "running"
  <2>1. r.task \in Tasks /\ OnServer(r.task, s)
    BY <1>1, <1>6 DEF Accounted, BringsLatest, Brings, HasLastRun
  <2>2. db'.state[c].task = r.task
    BY <1>1, <1>3, <1>6, StateOfReplyType
  <2>3. db.binding[c].session = s /\ db'.binding[c].session = s /\ db'.task[r.task].session = s
    BY <1>1, <2>1 DEF Grounds, Exclusive, ReadsHold, SameBindings, HasTaskOf
  <2>4. ASSUME NEW u \in Tasks, InProgress(db', u), u # r.task PROVE Stays(u) /\ u # TaskOf(c)
    <3>1. Stays(u)
      BY <1>4, <2>4
    <3>2. u = TaskOf(c) => remote[s].task \in {u, None}
      BY <1>1, <2>3, <3>1 DEF Accounted, Agrees, Session_, Stays
    <3> QED
      BY <1>0, <2>1, <2>4, <3>1, <3>2 DEF OnServer
  <2>5. ASSUME NEW g \in Handlers, op[g].chat = c PROVE op'[g].at \notin {"call", "commit"}
    <3>1. g = h
      BY <1>1, <2>5 DEF Grounds, Exclusive, LockHeld
    <3> QED
      BY <1>0, <1>2, <3>1 DEF Handler
  <2>6. GetsTask(c, r.task, s)
    BY <1>2, <1>3, <2>1, <2>2, <2>3, <2>4, <2>5 DEF GetsTask
  <2> QED
    BY <1>1, <2>1, <2>6 DEF DbStep
<1> QED
  BY <1>5, <1>6

LEMMA CommitDb ==
    ASSUME Grounds, Unshared', Accounted, [Next]_vars, NEW h \in Handlers, Commit(h)
    PROVE  DbStep
<1> DEFINE c == op[h].chat
           s == op[h].session
           r == op[h].reply
<1>0. /\ db.state \in [Chats -> State] /\ op \in [Handlers -> Handler] /\ None \notin Tasks
      /\ db.binding \in [Chats -> Binding]
  BY NoneIsNoId DEF Grounds, Typed, Sound, StoreType, HandlersTyped
<1>1. /\ op[h].at = "commit" /\ c \in Chats /\ r \in Reply
      /\ op[h].kind # "project" => s \in Sessions
      /\ Selects(h) \/ Binds(h) \/ Executes(h) \/ Cancels(h)
  BY CommitRows DEF Grounds
<1>2. remote' = remote /\ op' = [op EXCEPT ![h] = Free]
  BY DEF Commit, HandlerOnly, serverVars, Done
<1>3. op[h].kind # "cancel" => ~InProgress(db, TaskOf(c))
  BY <1>1 DEF Accounted, Clear
<1>4. CASE Selects(h)
  <2>1. Elsewhere(c) /\ db'.state[c].task = None
    BY <1>0, <1>1, <1>4 DEF Selects, Elsewhere, SetsBinding, SetsState, IdleState
  <2>2. ASSUME NEW u \in Tasks, InProgress(db', u) PROVE Stays(u)
    BY <1>4, <2>2 DEF Selects, SameTasks, Stays, InProgress
  <2> QED
    BY <1>0, <1>1, <1>2, <1>3, <1>4, <2>1, <2>2 DEF Selects, DbStep, GivesUp, Stays
<1>5. CASE Cancels(h)
  <2>1. Elsewhere(c) /\ db'.state[c].task = None
    BY <1>0, <1>1, <1>5 DEF Cancels, Elsewhere, SameBindings, SetsState
  <2>2. ASSUME NEW u \in Tasks, InProgress(db', u) PROVE Stays(u)
    BY <1>0, <1>5, <2>2 DEF Cancels, KeepsTasks, KeepsTasksBut, Stays
  <2> QED
    BY <1>0, <1>1, <1>2, <1>5, <2>1, <2>2 DEF Cancels, DbStep, GivesUp
<1>6. CASE Binds(h)
  <2>1. PICK p : SetsBinding(db, db', c, [project |-> p, session |-> s])
    BY <1>6 DEF Binds
  <2>2. /\ Elsewhere(c) /\ db'.state[c] = StateOfReply(r) /\ db'.binding[c].session = s
    BY <1>0, <1>1, <1>6, <2>1 DEF Binds, Elsewhere, SetsBinding, SetsState
  <2>3. ASSUME NEW u \in Tasks, InProgress(db', u) PROVE Stays(u)
    BY <1>6, <2>3 DEF Binds, SameTasks, Stays, InProgress
  <2>4. s \in Sessions /\ op[h].kind # "cancel"
    BY <1>1, <1>6 DEF Binds
  <2>5. ASSUME NEW u \in Tasks, Stays(u), u = db'.state[c].task PROVE FALSE
    <3>1. r.task = u
      BY <1>0, <1>1, <2>2, <2>5, StateOfReplyType
    <3>2. PICK d \in Chats : TaskOf(d) = u /\ Session_(d) = db.task[u].session
      BY <2>5 DEF Accounted, Homed, Stays
    <3>3. Claim(u, s)
      BY <1>1, <3>1 DEF Claim, InHand
    <3>4. InRow(u, db.task[u].session) /\ db.task[u].session \in Sessions
      BY <2>5 DEF Grounds, RowsNamed, InRow, Stays, InProgress
    <3>5. Session_(d) = s
      BY <2>4, <3>2, <3>3, <3>4 DEF Grounds, OneHome, Claim
    <3>6. d # c
      BY <1>3, <2>4, <2>5, <3>2 DEF Stays
    <3>7. db'.binding[d].session = s
      BY <2>2, <3>5, <3>6 DEF Elsewhere, Session_
    <3> QED
      BY <1>1, <2>2, <2>4, <3>6, <3>7, NoneIsNoId DEF Unshared, Session_
  <2> QED
    BY <1>1, <1>2, <1>3, <2>2, <2>3, <2>4, <2>5 DEF DbStep, GivesUp, Stays
<1>7. CASE Executes(h)
  <2>0. s \in Sessions /\ op[h].kind # "cancel" /\ op[h].kind \in {"text", "run"}
    BY <1>1, <1>7 DEF Executes
  <2>1. PICK mode : SetsState(db, db', c, [mode |-> mode, task |-> r.task])
    BY <1>7 DEF Executes
  <2>2. Elsewhere(c) /\ db'.state[c].task = r.task /\ SameBindings(db, db')
    BY <1>0, <1>1, <1>7, <2>1 DEF Executes, Elsewhere, SetsState, SameBindings
  <2>3. \A u \in Tasks : InProgress(db', u) /\ u # r.task => Stays(u)
    BY <1>7 DEF Executes, KeepsTasksBut, Stays
  <2>4. CASE r.task = None
    BY <1>0, <1>1, <1>2, <1>3, <2>0, <2>2, <2>3, <2>4 DEF DbStep, GivesUp, Stays
  <2>5. CASE r.task # None
    <3>1. r.task \in Tasks /\ OnServer(r.task, s)
      BY <1>1, <2>0, <2>5 DEF Accounted, BringsLatest, Brings, HasLastRun
    <3>2. db.binding[c].session = s /\ db'.binding[c].session = s /\ db'.task[r.task].session = s
      BY <1>1, <1>7, <2>0, <2>2, <3>1
         DEF Grounds, Exclusive, ReadsHold, SameBindings, HasTaskOf, Executes
    <3>3. ASSUME NEW g \in Handlers, op[g].chat = c PROVE op'[g].at \notin {"call", "commit"}
      <4>1. g = h
        BY <1>1, <3>3 DEF Grounds, Exclusive, LockHeld
      <4> QED
        BY <1>0, <1>2, <4>1 DEF Free
    <3>4. GetsTask(c, r.task, s)
      BY <1>2, <1>3, <2>0, <2>2, <2>3, <3>1, <3>2, <3>3 DEF GetsTask, Stays
    <3> QED
      BY <1>1, <2>0, <3>1, <3>4 DEF DbStep
  <2> QED
    BY <2>4, <2>5
<1> QED
  BY <1>1, <1>4, <1>5, <1>6, <1>7

LEMMA EventDb ==
    ASSUME Grounds, NEW c \in Chats, NEW e, NEW by, AppliesEvent(c, e, by), remote' = remote
    PROVE  DbStep
<1>0. db.state \in [Chats -> State] /\ None \notin Tasks
  BY NoneIsNoId DEF Grounds, Typed, Sound, StoreType
<1>1. /\ SameBindings(db, db') /\ KeepsTasks(db, db')
      /\ SameStates(db, db') \/ FreesState(db, db', c)
  BY DEF AppliesEvent, EventStep
<1>2. ASSUME NEW u \in Tasks, InProgress(db', u) PROVE Stays(u)
  BY <1>0, <1>1, <1>2 DEF KeepsTasks, KeepsTasksBut, Stays
<1>3. CASE FreesState(db, db', c)
  <2>1. Elsewhere(c) /\ db'.state[c].task = None /\ ~InProgress(db', TaskOf(c))
    BY <1>0, <1>1, <1>3 DEF FreesState, Elsewhere, SetsState, SameBindings, TaskOf
  <2> QED
    BY <1>0, <1>2, <2>1 DEF DbStep, GivesUp
<1>4. CASE SameStates(db, db')
  <2> QED
    BY <1>1, <1>2, <1>4 DEF DbStep, NoneMoves
<1> QED
  BY <1>1, <1>3, <1>4

LEMMA StepDb == ASSUME Grounds, Unshared', Accounted, [Next]_vars PROVE DbStep
<1>1. CASE OnlyPrompts(db, db') \/ RetryStep
  <2>1. SameBindings(db, db') /\ SameStates(db, db') /\ SameTasks(db, db')
    BY <1>1 DEF OnlyPrompts, RetryStep, OnlySessions
  <2>2. \A u \in Tasks : InProgress(db', u) => Stays(u)
    BY <2>1 DEF SameTasks, InProgress, Stays
  <2> QED
    BY <2>1, <2>2 DEF DbStep, NoneMoves
<1>2. ASSUME NEW c \in Chats, Conclude(c) PROVE remote' = remote
  BY <1>2 DEF Conclude, WatchOnly, serverVars
<1>3. ASSUME NEW c \in Chats, ApplyWebhook(c) PROVE remote' = remote
  BY <1>3 DEF ApplyWebhook, serverVars
<1>4. ASSUME NEW c \in Chats, Conclude(c), AppliesEvent(c, Verdict(work[c]), work[c].by)
      PROVE  DbStep
  BY <1>2, <1>4, EventDb
<1>5. ASSUME NEW c \in Chats, ApplyWebhook(c), AppliesEvent(c, Head(inbox[c]), "webhook")
      PROVE  DbStep
  BY <1>3, <1>5, EventDb
<1>6. ASSUME NEW h \in Handlers, Learn(h) \/ Commit(h) PROVE DbStep
  BY <1>6, LearnDb, CommitDb
<1>7. RowStep
  BY StepRows DEF Grounds
<1> QED
  BY <1>1, <1>4, <1>5, <1>6, <1>7, Zenon DEF RowStep

LEMMA HomedStep == ASSUME Grounds, Accounted, DbStep PROVE Homed'
<1>0. Homed
  BY DEF Accounted
<1>1. CASE NoneMoves
  BY <1>0, <1>1 DEF NoneMoves, Homed, Stays, SameBindings, SameStates, TaskOf, Session_
<1>2. ASSUME NEW c \in Chats, GivesUp(c) PROVE Homed'
  <2>1. ASSUME NEW t \in Tasks, InProgress(db', t)
        PROVE  \E d \in Chats : db'.state[d].task = t /\ db'.binding[d].session = db'.task[t].session
    <3>1. Stays(t) /\ t # TaskOf(c)
      BY <1>2, <2>1 DEF GivesUp
    <3>2. PICK d \in Chats : TaskOf(d) = t /\ Session_(d) = db.task[t].session
      BY <1>0, <3>1 DEF Homed, Stays
    <3> QED
      BY <1>2, <3>1, <3>2 DEF GivesUp, Elsewhere, Stays, TaskOf, Session_
  <2> QED
    BY <2>1 DEF Homed, TaskOf, Session_
<1>3. ASSUME NEW c \in Chats, NEW x \in Tasks, NEW s \in Sessions, GetsTask(c, x, s) PROVE Homed'
  <2>1. ASSUME NEW t \in Tasks, InProgress(db', t)
        PROVE  \E d \in Chats : db'.state[d].task = t /\ db'.binding[d].session = db'.task[t].session
    <3>1. CASE t = x
      BY <1>3, <3>1 DEF GetsTask
    <3>2. CASE t # x
      <4>1. Stays(t) /\ t # TaskOf(c)
        BY <1>3, <2>1, <3>2 DEF GetsTask
      <4>2. PICK d \in Chats : TaskOf(d) = t /\ Session_(d) = db.task[t].session
        BY <1>0, <4>1 DEF Homed, Stays
      <4> QED
        BY <1>3, <4>1, <4>2 DEF GetsTask, Elsewhere, Stays, TaskOf, Session_
    <3> QED
      BY <3>1, <3>2
  <2> QED
    BY <2>1 DEF Homed, TaskOf, Session_
<1> QED
  BY <1>1, <1>2, <1>3 DEF DbStep

\* A chat with a task is linked to a session.
LEMMA TaskHasSession ==
    ASSUME Grounds, NEW c \in Chats, TaskOf(c) \in Tasks PROVE Session_(c) \in Sessions
<1>1. Session_(c) \in Sessions \cup {None}
  BY DEF Grounds, Typed, Sound, StoreType, Binding, Session_
<1>2. Session_(c) # None
  BY NoneIsNoId DEF Grounds, Exclusive, UnboundIsIdle, IdleState, TaskOf
<1> QED
  BY <1>1, <1>2

\* The chats of an order that is on its way and of a task that the session runs
\* are the same.
LEMMA OneChat ==
    ASSUME Grounds, NEW c \in Chats, NEW d \in Chats, NEW t \in Tasks, NEW s \in Sessions,
           OnServer(t, s), Session_(c) = s, TaskOf(d) = t
    PROVE  d = c
<1>1. Session_(d) \in Sessions
  BY TaskHasSession DEF Grounds
<1>2. Claim(t, s) /\ Claim(t, Session_(d))
  BY DEF Claim, InChat
<1>3. Session_(d) = s
  BY <1>1, <1>2 DEF Grounds, OneHome
<1> QED
  BY <1>1, <1>3, NoneIsNoId DEF Grounds, Unshared

\* What the handlers do, when the store does as in DbStep.
LEMMA AgreesStep ==
    ASSUME Grounds, Accounted, [Next]_vars, DbStep PROVE Agrees'
<1>0. Agrees
  BY DEF Accounted
<1>1. ASSUME NEW c \in Chats, remote' = remote,
             db'.state[c] = db.state[c], db'.binding[c] = db.binding[c],
             InProgress(db', TaskOf(c)) => InProgress(db, TaskOf(c)),
             InProgress(db', db'.state[c].task)
      PROVE  remote'[db'.binding[c].session].task \in {db'.state[c].task, None}
  BY <1>0, <1>1 DEF Agrees, TaskOf, Session_
<1>2. ASSUME NEW c \in Chats, GivesUp(c) PROVE Agrees'
  <2>1. ASSUME NEW d \in Chats, InProgress(db', db'.state[d].task)
        PROVE  remote'[db'.binding[d].session].task \in {db'.state[d].task, None}
    <3>1. db'.state[d].task \in Tasks
      BY <2>1 DEF InProgress
    <3>2. d # c /\ Stays(db'.state[d].task)
      BY <1>2, <2>1, <3>1 DEF GivesUp
    <3> QED
      BY <1>1, <1>2, <2>1, <3>2 DEF GivesUp, Elsewhere, Stays, TaskOf
  <2> QED
    BY <2>1 DEF Agrees, TaskOf, Session_
<1>3. ASSUME NEW c \in Chats, NEW t \in Tasks, NEW s \in Sessions, GetsTask(c, t, s)
      PROVE  Agrees'
  <2>1. ASSUME NEW d \in Chats, InProgress(db', db'.state[d].task)
        PROVE  remote'[db'.binding[d].session].task \in {db'.state[d].task, None}
    <3>1. CASE d = c
      BY <1>3, <3>1 DEF GetsTask, OnServer
    <3>2. CASE d # c
      <4>1. db'.state[d] = db.state[d] /\ db'.binding[d] = db.binding[d] /\ TaskOf(d) \in Tasks
        BY <1>3, <2>1, <3>2 DEF GetsTask, Elsewhere, InProgress, TaskOf
      <4>2. TaskOf(d) # t
        BY <1>3, <3>2, OneChat DEF GetsTask, Session_
      <4>3. InProgress(db, TaskOf(d))
        BY <1>3, <2>1, <4>1, <4>2 DEF GetsTask, Stays, TaskOf
      <4> QED
        BY <1>1, <1>3, <2>1, <4>1, <4>3 DEF GetsTask
    <3> QED
      BY <3>1, <3>2
  <2> QED
    BY <2>1 DEF Agrees, TaskOf, Session_
<1>4. CASE NoneMoves
  <2>1. ASSUME NEW d \in Chats, InProgress(db', db'.state[d].task)
        PROVE  remote'[db'.binding[d].session].task \in {db'.state[d].task, None}
    <3>1. /\ db'.state[d] = db.state[d] /\ db'.binding[d] = db.binding[d]
          /\ TaskOf(d) \in Tasks /\ InProgress(db, TaskOf(d))
      BY <1>4, <2>1 DEF NoneMoves, SameStates, SameBindings, InProgress, Stays, TaskOf
    <3>2. remote[Session_(d)].task \in {TaskOf(d), None} /\ Session_(d) \in Sessions
      BY <1>0, <3>1, TaskHasSession DEF Agrees
    <3>3. CASE RunKept(Session_(d))
      BY <3>1, <3>2, <3>3 DEF RunKept, TaskOf, Session_
    <3>4. ASSUME NEW h \in Handlers, Addresses(h, Session_(d)),
                 op[h].kind = "cancel" => remote'[Session_(d)].task = None
          PROVE  remote'[db'.binding[d].session].task = None
      <4>1. op[h].chat \in Chats
        BY <3>4 DEF Addresses, Grounds, Typed, HandlersTyped, HandlerOK
      <4>2. Session_(op[h].chat) = Session_(d)
        BY <3>4 DEF Addresses, Grounds, Exclusive, ReadsHold, Session_
      <4>3. op[h].chat = d
        BY <3>2, <4>1, <4>2, NoneIsNoId DEF Grounds, Unshared
      <4>4. op[h].kind = "cancel"
        BY <3>1, <3>4, <4>3 DEF Accounted, Clear, Addresses
      <4> QED
        BY <3>1, <3>4, <4>4 DEF Session_
    <3>5. RunStep
      BY StepRuns DEF Grounds
    <3> QED
      BY <3>2, <3>3, <3>4, <3>5 DEF RunStep, RunSet
  <2> QED
    BY <2>1 DEF Agrees, TaskOf, Session_
<1> QED
  BY <1>2, <1>3, <1>4 DEF DbStep

LEMMA NamedRunsStep == ASSUME Grounds, RunsNamed, [Next]_vars PROVE RunsNamed'
<1>1. RunStep
  BY StepRuns DEF Grounds
<1> QED
  BY <1>1 DEF RunStep, RunKept, RunSet, RunsNamed

LEMMA NextTyped == ASSUME Typed, [Next]_vars PROVE Typed'
BY BotStepType, TimerStepType, WorldStepType, StutterTyped DEF Next

LEMMA NotBusy == ASSUME NEW c \in Chats, ~Busy(db, c) PROVE ~InProgress(db, TaskOf(c))
<1> SUFFICES ASSUME InProgress(db, TaskOf(c)) PROVE FALSE
  OBVIOUS
<1>1. ContextTasks(db, c) = {TaskOf(c)}
  BY DEF ContextTasks, InProgress, TaskOf
<1> QED
  BY <1>1 DEF Busy

\* An order sets out from a chat that is not busy.
LEMMA NewOrder ==
    ASSUME Typed, [Next]_vars, NEW h \in Handlers, op'[h] # op[h],
           op'[h].at \in {"call", "commit"}, op'[h].kind # "cancel"
    PROVE  /\ op'[h].chat = op[h].chat /\ op'[h].kind = op[h].kind
           /\ op[h].at = "call" \/ ~Busy(db, op[h].chat)
<1>0. op \in [Handlers -> Handler]
  BY DEF Typed, HandlersTyped
<1>1. ASSUME NEW x \in Handlers, NEW c \in Chats, Begins(x, c) PROVE FALSE
  BY <1>0, <1>1 DEF Begins
<1>2. ASSUME NEW x \in Handlers, Proceeds(x), HandlerStep(x)
      PROVE  /\ op'[h].chat = op[h].chat /\ op'[h].kind = op[h].kind
             /\ op[h].at = "call" \/ ~Busy(db, op[h].chat)
  <2>1. x = h
    BY <1>0, <1>2 DEF Proceeds
  <2>2. PICK o : op' = [op EXCEPT ![h] = o] /\ NextMove(h, o)
    BY <1>0, <1>2, <2>1 DEF Proceeds, Free
  <2>3. op'[h] = o
    BY <1>0, <2>2
  <2>4. o.chat = op[h].chat /\ o.kind = op[h].kind /\ op[h].at \in {"load", "call"}
    BY <2>2, <2>3 DEF NextMove
  <2>5. CASE op[h].at = "load"
    <3>1. LoadSelect(h) \/ LoadOther(h) \/ LoadRefused(h)
      BY <1>2, <2>1, <2>5
         DEF HandlerStep, AskStatus, Learn, Decide, LookupByText, LookupByButton, Call, CallFails,
             Commit, Submit, Bridge, Revert, Resolve
    <3>2. ~LoadRefused(h)
      BY <1>0 DEF LoadRefused, Done, Free
    <3>3. Admitted(op[h].kind, op[h].chat)
      BY <3>1, <3>2 DEF LoadSelect, LoadOther
    <3>4. op[h].kind \in Orders \ {"cancel"}
      BY <2>3, <2>4, <2>5 DEF Typed, HandlersTyped, HandlerOK
    <3> QED
      BY <2>3, <2>4, <3>3, <3>4
         DEF Admitted, Orders, MaySelect, MayAttach, MayCreate, MaySend, MayRun
  <2> QED
    BY <2>3, <2>4, <2>5
<1> QED
  BY <1>1, <1>2, StepHandlers DEF HandlersStep

LEMMA ClearStep == ASSUME Grounds, Accounted, [Next]_vars, DbStep PROVE Clear'
<1>1. ASSUME NEW h \in Handlers, op[h].chat \in Chats, op'[h].at \in {"call", "commit"},
             ~InProgress(db, TaskOf(op[h].chat))
      PROVE  ~InProgress(db', db'.state[op[h].chat].task)
  <2> DEFINE d == op[h].chat
  <2>1. CASE NoneMoves
    BY <1>1, <2>1 DEF NoneMoves, SameStates, Stays, TaskOf, InProgress
  <2>2. ASSUME NEW c \in Chats, GivesUp(c) PROVE ~InProgress(db', db'.state[d].task)
    BY <1>1, <2>2 DEF GivesUp, Elsewhere, Stays, TaskOf, InProgress
  <2>3. ASSUME NEW c \in Chats, NEW t \in Tasks, NEW s \in Sessions, GetsTask(c, t, s)
        PROVE  ~InProgress(db', db'.state[d].task)
    <3>1. d # c
      BY <1>1, <2>3 DEF GetsTask
    <3>2. TaskOf(d) # t
      BY <1>1, <2>3, <3>1, OneChat DEF GetsTask, Session_
    <3>3. db'.state[d].task = TaskOf(d)
      BY <1>1, <2>3, <3>1 DEF GetsTask, Elsewhere, TaskOf
    <3> QED
      BY <1>1, <2>3, <3>2, <3>3 DEF GetsTask, Stays, InProgress
  <2> QED
    BY <2>1, <2>2, <2>3 DEF DbStep
<1>2. ASSUME NEW h \in Handlers, op'[h].at \in {"call", "commit"}, op'[h].kind # "cancel"
      PROVE  ~InProgress(db', db'.state[op'[h].chat].task)
  <2>1. /\ op'[h].chat = op[h].chat
        /\ \/ op[h].at \in {"call", "commit"} /\ op[h].kind # "cancel"
           \/ ~Busy(db, op[h].chat)
    BY <1>2, NewOrder DEF Grounds
  <2>2. op[h].chat \in Chats
    <3>1. Typed'
      BY NextTyped DEF Grounds
    <3>2. op'[h].at # "free" => op'[h].chat \in Chats
      BY <3>1 DEF Typed, HandlersTyped, HandlerOK
    <3> QED
      BY <1>2, <2>1, <3>2
  <2>3. ~InProgress(db, TaskOf(op[h].chat))
    BY <2>1, <2>2, NotBusy DEF Accounted, Clear
  <2> QED
    BY <1>1, <1>2, <2>1, <2>2, <2>3
<1> QED
  BY <1>2 DEF Clear, TaskOf

LEMMA BringsStep ==
    ASSUME Grounds, RunsNamed, BringsLatest, [Next]_vars PROVE BringsLatest'
<1>0. op \in [Handlers -> Handler] /\ remote \in [Sessions -> RemoteSession]
  BY DEF Grounds, Typed, HandlersTyped, ServerTypeOK
<1>1. ASSUME NEW h \in Handlers, Brings(h), op'[h] = op[h] PROVE HasLastRun(h)'
  <2> DEFINE s == op[h].session
  <2>1. op[h].reply.task \in Tasks /\ remote[s].task = op[h].reply.task
    BY <1>1 DEF BringsLatest, HasLastRun, OnServer
  <2>2. s \in Sessions /\ op[h].chat \in Chats /\ Session_(op[h].chat) = s
    BY <1>1 DEF Brings, Grounds, Typed, HandlersTyped, HandlerOK, Exclusive, ReadsHold, Session_
  <2>3. ASSUME NEW g \in Handlers, Addresses(g, s) PROVE FALSE
    <3>1. op[g].chat \in Chats /\ Session_(op[g].chat) = s
      BY <2>3 DEF Addresses, Grounds, Typed, HandlersTyped, HandlerOK, Exclusive, ReadsHold, Session_
    <3>2. op[g].chat = op[h].chat
      BY <2>2, <3>1, NoneIsNoId DEF Grounds, Unshared
    <3> QED
      BY <1>1, <2>3, <3>2 DEF Brings, Addresses, Grounds, Exclusive, LockHeld
  <2>4. remote'[s].task = remote[s].task
    <3>1. RunStep
      BY StepRuns DEF Grounds
    <3> QED
      BY <2>2, <2>3, <3>1 DEF RunStep, RunKept, RunSet
  <2> QED
    BY <1>1, <2>1, <2>4 DEF HasLastRun, OnServer
<1>2. ASSUME NEW h \in Handlers, Brings(h)', op'[h] # op[h] PROVE HasLastRun(h)'
  <2>1. op'[h].at \in {"learn", "commit"}
    BY <1>2 DEF Brings
  <2>2. ASSUME NEW x \in Handlers, NEW c \in Chats, Begins(x, c) PROVE FALSE
    BY <1>0, <1>2, <2>1, <2>2 DEF Begins
  <2>3. ASSUME NEW x \in Handlers, Proceeds(x), HandlerStep(x) PROVE HasLastRun(h)'
    <3>1. x = h
      BY <1>0, <1>2, <2>3 DEF Proceeds
    <3>2. PICK o : op' = [op EXCEPT ![h] = o] /\ NextMove(h, o)
      BY <1>0, <2>1, <2>3, <3>1 DEF Proceeds, Free
    <3>3. op'[h] = o
      BY <1>0, <3>2
    <3>4. CASE o.at = "learn"
      <4>1. op[h].at = "ask" /\ o.session = op[h].session /\ o.reply = AnswerOf(op[h].session)
        BY <3>2, <3>4 DEF NextMove
      <4>2. AskStatus(h)
        BY <2>3, <3>1, <4>1
           DEF HandlerStep, Learn, Decide, LookupByText, LookupByButton, LoadSelect, LoadOther,
               LoadRefused, Call, CallFails, Commit, Submit, Bridge, Revert, Resolve
      <4>3. remote' = remote
        BY <4>2 DEF AskStatus, HandlerOnly, serverVars
      <4>4. op[h].session \in Sessions
        BY <4>1 DEF Grounds, Typed, HandlersTyped, HandlerOK
      <4>5. o.reply.status = "running"
        BY <1>2, <3>3, <3>4 DEF Brings
      <4>6. remote[op[h].session].status = "running" /\ o.reply.task = remote[op[h].session].task
        BY <4>1, <4>5 DEF AnswerOf
      <4> QED
        BY <3>3, <4>1, <4>3, <4>4, <4>6 DEF HasLastRun, OnServer, RunsNamed, Waiting
    <3>5. CASE o.at = "commit"
      <4>1. op[h].kind \in {"text", "run"} /\ o.reply.task # None
        BY <1>2, <3>2, <3>3, <3>5 DEF Brings, NextMove
      <4>2. ServerDoes(h, o.session, o.reply)
        BY <3>2, <3>5, <4>1 DEF NextMove
      <4>3. o.session = op[h].session /\ o.reply.task = FreshTask /\ ServerRun(o.session, op[h].token)
        BY <4>1, <4>2 DEF ServerDoes
      <4>4. op[h].session \in Sessions
        BY <3>2, <3>5, <4>1 DEF NextMove, Grounds, Typed, HandlersTyped, HandlerOK
      <4>5. FreshTask \in Tasks /\ remote'[o.session].task = FreshTask
        BY <1>0, <4>3, <4>4, FreshTaskType DEF ServerRun
      <4> QED
        BY <3>3, <4>3, <4>5 DEF HasLastRun, OnServer
    <3> QED
      BY <2>1, <3>3, <3>4, <3>5
  <2> QED
    BY <1>2, <2>2, <2>3, StepHandlers DEF HandlersStep, Grounds
<1> QED
  BY <1>1, <1>2 DEF BringsLatest, Brings

LEMMA InitAccounted == Init => Accounted
<1> SUFFICES ASSUME Init PROVE Accounted
  OBVIOUS
<1>1. \A t \in Tasks : ~InProgress(db, t)
  BY DEF Init, EmptyStore, InProgress
<1>2. Homed /\ Agrees /\ Clear
  BY <1>1 DEF Homed, Agrees, Clear, InProgress
<1>3. \A h \in Handlers : op[h].at = "free"
  BY DEF Init, Free
<1>4. RunsNamed
  BY DEF Init, ServerInit, RunsNamed, Waiting
<1> QED
  BY <1>2, <1>3, <1>4 DEF Accounted, BringsLatest, Brings

LEMMA AccountedStep ==
    ASSUME Grounds, Unshared', Accounted, [Next]_vars PROVE Accounted'
<1>1. DbStep
  BY StepDb
<1>2. Homed' /\ Clear' /\ Agrees'
  BY <1>1, HomedStep, ClearStep, AgreesStep
<1>3. RunsNamed' /\ BringsLatest'
  BY NamedRunsStep, BringsStep DEF Accounted
<1> QED
  BY <1>2, <1>3 DEF Accounted

LEMMA OneTask == ASSUME Grounds, Accounted PROVE OneActiveTask
<1> SUFFICES ASSUME NEW t \in Tasks, NEW u \in Tasks, InProgress(db, t), InProgress(db, u),
                    db.task[t].session = db.task[u].session
             PROVE  t = u
  BY DEF OneActiveTask
<1>1. PICK c \in Chats : TaskOf(c) = t /\ Session_(c) = db.task[t].session
  BY DEF Accounted, Homed
<1>2. PICK d \in Chats : TaskOf(d) = u /\ Session_(d) = db.task[u].session
  BY DEF Accounted, Homed
<1>3. Session_(c) \in Sessions
  BY <1>1, TaskHasSession
<1>4. c = d
  BY <1>1, <1>2, <1>3, NoneIsNoId DEF Grounds, Unshared
<1> QED
  BY <1>1, <1>2, <1>4

\* With the chat's lock, and as long as no two chats are linked to one session,
\* a session has at most one task in progress: a task in progress is the one that
\* the state of the chat of its session names, an order starts only from a chat
\* without one, and what a status answer or a run brings late replaces the task
\* that the chat has and frees the old one.
THEOREM OneTaskInProgress ==
    ASSUME LockEnabled PROVE Spec /\ []Unshared => []OneActiveTask
<1>1. Typed /\ Exclusive /\ OneHome /\ RowsNamed /\ [Next]_vars => OneHome' /\ RowsNamed'
  BY HomeStep, RowClaims DEF Exclusive
<1>2. Typed /\ Exclusive /\ OneHome /\ RowsNamed /\ Unshared /\ Unshared' /\ Accounted /\ [Next]_vars
      => Accounted'
  BY AccountedStep DEF Grounds
<1>3. Typed /\ Exclusive /\ OneHome /\ RowsNamed /\ Unshared /\ Accounted => OneActiveTask
  BY OneTask DEF Grounds
<1> QED
  BY <1>1, <1>2, <1>3, InitHome, InitAccounted, AlwaysTyped, AlwaysExclusive, PTL DEF Spec

-----------------------------------------------------------------------------
(* The task a chat is left with                                            *)

\* Chat c works with session s: it is linked to it, or the answer of an order
\* that will link it is there.
Uses(c, s) ==
    \/ Session_(c) = s
    \/ \E h \in Handlers : op[h].chat = c /\ op[h].at = "commit" /\ op[h].session = s

\* No two chats work with one session.
Separate == \A c, d \in Chats, s \in Sessions : Uses(c, s) /\ Uses(d, s) => c = d

\* Handler h has an answer of the server that it will write down.
Carries(h) ==
    op[h].at = "learn" \/ (op[h].at = "commit" /\ op[h].kind # "project")

\* No answer on its way into the store names another task than the last one of
\* its session.
CarriesLatest ==
    \A h \in Handlers : Carries(h) => op[h].reply.task \in {None, remote[op[h].session].task}

\* An order of chat c has reached its session and is not written down yet.
Ordered(c) ==
    \E h \in Handlers :
        op[h].chat = c /\ op[h].at = "commit" /\ op[h].kind \in {"text", "run", "cancel"}
HasLatest(c) == TaskOf(c) \in Tasks => OnServer(TaskOf(c), Session_(c))
LatestKnown == \A c \in Chats : Ordered(c) \/ HasLatest(c)

\* What a step does to the task of chat c: it keeps or drops it, or handler h
\* brings one.
KeepsTask(c) ==
    /\ db'.state[c].task \in {None, TaskOf(c)}
    /\ db'.binding[c].session = Session_(c) \/ db'.state[c].task = None
Delivers(h) ==
    /\ Carries(h) /\ remote' = remote
    /\ db'.state[op[h].chat].task \in {None, op[h].reply.task}
    /\ db'.binding[op[h].chat].session = op[h].session
TaskMoves ==
    \A c \in Chats : KeepsTask(c) \/ \E h \in Handlers : op[h].chat = c /\ Delivers(h)

LEMMA CommitMoves ==
    ASSUME Typed, ReadsHold, NEW h \in Handlers, Learn(h) \/ Commit(h) PROVE TaskMoves
<1>0. db.state \in [Chats -> State] /\ db.binding \in [Chats -> Binding]
  BY DEF Typed, Sound, StoreType
<1> DEFINE c == op[h].chat
<1>1. remote' = remote /\ c \in Chats /\ op[h].reply \in Reply
  BY LearnRows, CommitRows DEF Learn, Commit, HandlerOnly, serverVars
<1>2. ASSUME NEW d \in Chats, d # c, NEW x, SetsState(db, db', c, x),
             SameBindings(db, db') \/ \E b : SetsBinding(db, db', c, b)
      PROVE  KeepsTask(d)
  BY <1>0, <1>1, <1>2 DEF SetsState, SameBindings, SetsBinding, KeepsTask, TaskOf, Session_
<1>3. CASE Learn(h)
  <2>1. /\ op[h].at = "learn" /\ SameBindings(db, db')
        /\ SetsState(db, db', c, StateOfReply(op[h].reply))
    BY <1>3, LearnRows
  <2>2. db'.state[c].task \in {None, op[h].reply.task}
    BY <1>0, <1>1, <2>1, StateOfReplyType DEF SetsState
  <2>3. db'.binding[c].session = op[h].session
    BY <2>1 DEF SameBindings, ReadsHold
  <2>4. Delivers(h)
    BY <1>1, <2>1, <2>2, <2>3 DEF Delivers, Carries
  <2>5. \A d \in Chats : d # c => KeepsTask(d)
    BY <1>2, <2>1
  <2> QED
    BY <2>4, <2>5 DEF TaskMoves
<1>4. CASE Commit(h)
  <2>1. op[h].at = "commit" /\ (Selects(h) \/ Binds(h) \/ Executes(h) \/ Cancels(h))
    BY <1>4, CommitRows
  <2>2. CASE Selects(h)
    <3>1. db'.state[c].task = None
      BY <1>0, <1>1, <2>2 DEF Selects, SetsState, IdleState
    <3> QED
      BY <1>2, <2>2, <3>1 DEF Selects, KeepsTask, TaskMoves
  <2>3. CASE Cancels(h)
    <3>1. db'.state[c].task = None
      BY <1>0, <1>1, <2>3 DEF Cancels, SetsState
    <3> QED
      BY <1>2, <2>3, <3>1 DEF Cancels, KeepsTask, TaskMoves
  <2>4. CASE Binds(h)
    <3>1. PICK p : SetsBinding(db, db', c, [project |-> p, session |-> op[h].session])
      BY <2>4 DEF Binds
    <3>2. db'.binding[c].session = op[h].session
      BY <1>0, <1>1, <3>1 DEF SetsBinding
    <3>3. db'.state[c].task \in {None, op[h].reply.task}
      BY <1>0, <1>1, <2>4, StateOfReplyType DEF Binds, SetsState
    <3> QED
      BY <1>1, <1>2, <2>1, <2>4, <3>1, <3>2, <3>3 DEF Binds, Delivers, Carries, TaskMoves
  <2>5. CASE Executes(h)
    <3>1. PICK mode : SetsState(db, db', c, [mode |-> mode, task |-> op[h].reply.task])
      BY <2>5 DEF Executes
    <3>2. db'.state[c].task = op[h].reply.task
      BY <1>0, <1>1, <3>1 DEF SetsState
    <3>3. db'.binding[c].session = op[h].session
      BY <2>1, <2>5 DEF Executes, SameBindings, ReadsHold
    <3> QED
      BY <1>1, <1>2, <2>1, <2>5, <3>1, <3>2, <3>3 DEF Executes, Delivers, Carries, TaskMoves
  <2> QED
    BY <2>1, <2>2, <2>3, <2>4, <2>5
<1> QED
  BY <1>3, <1>4

LEMMA StepMoves == ASSUME Typed, ReadsHold, [Next]_vars PROVE TaskMoves
<1>0. db.state \in [Chats -> State]
  BY DEF Typed, Sound, StoreType
<1>1. ASSUME SameBindings(db, db'), SameStates(db, db') PROVE TaskMoves
  BY <1>1 DEF SameBindings, SameStates, TaskMoves, KeepsTask, TaskOf, Session_
<1>2. CASE OnlyPrompts(db, db') \/ RetryStep
  BY <1>1, <1>2 DEF OnlyPrompts, RetryStep, OnlySessions
<1>3. ASSUME NEW c \in Chats, NEW e, NEW by, AppliesEvent(c, e, by) PROVE TaskMoves
  <2>1. SameBindings(db, db') /\ (SameStates(db, db') \/ FreesState(db, db', c))
    BY <1>3 DEF AppliesEvent, EventStep
  <2>2. CASE FreesState(db, db', c)
    BY <1>0, <2>1, <2>2
       DEF FreesState, SetsState, SameBindings, TaskMoves, KeepsTask, TaskOf, Session_
  <2> QED
    BY <1>1, <2>1, <2>2
<1>4. ASSUME NEW h \in Handlers, Learn(h) \/ Commit(h) PROVE TaskMoves
  BY <1>4, CommitMoves
<1>5. RowStep
  BY StepRows
<1> QED
  BY <1>2, <1>3, <1>4, <1>5, Zenon DEF RowStep

LEMMA CarryStep ==
    ASSUME Typed, Exclusive, Separate, CarriesLatest, [Next]_vars PROVE CarriesLatest'
<1>0. op \in [Handlers -> Handler] /\ remote \in [Sessions -> RemoteSession] /\ None \notin Sessions
  BY NoneIsNoId DEF Typed, HandlersTyped, ServerTypeOK
<1>1. ASSUME NEW h \in Handlers, Carries(h), op'[h] = op[h]
      PROVE  op[h].reply.task \in {None, remote'[op[h].session].task}
  <2> DEFINE s == op[h].session
  <2>1. op[h].reply.task \in {None, remote[s].task}
    BY <1>1 DEF CarriesLatest
  <2>2. s \in Sessions /\ op[h].chat \in Chats /\ Uses(op[h].chat, s)
    BY <1>1 DEF Carries, Typed, HandlersTyped, HandlerOK, Exclusive, ReadsHold, Uses, Session_
  <2>3. ASSUME NEW g \in Handlers, Addresses(g, s) PROVE FALSE
    <3>1. op[g].chat \in Chats /\ Uses(op[g].chat, s)
      BY <2>3 DEF Addresses, Typed, HandlersTyped, HandlerOK, Exclusive, ReadsHold, Uses, Session_
    <3>2. op[g].chat = op[h].chat
      BY <2>2, <3>1 DEF Separate
    <3> QED
      BY <1>1, <2>3, <3>2 DEF Carries, Addresses, Exclusive, LockHeld
  <2>4. remote'[s].task = remote[s].task
    BY <2>2, <2>3, StepRuns DEF RunStep, RunKept, RunSet
  <2> QED
    BY <2>1, <2>4
<1>2. ASSUME NEW h \in Handlers, Carries(h)', op'[h] # op[h]
      PROVE  op'[h].reply.task \in {None, remote'[op'[h].session].task}
  <2>1. op'[h].at \in {"learn", "commit"}
    BY <1>2 DEF Carries
  <2>2. ASSUME NEW x \in Handlers, NEW c \in Chats, Begins(x, c) PROVE FALSE
    BY <1>0, <1>2, <2>1, <2>2 DEF Begins
  <2>3. ASSUME NEW x \in Handlers, Proceeds(x), HandlerStep(x)
        PROVE  op'[h].reply.task \in {None, remote'[op'[h].session].task}
    <3>1. x = h
      BY <1>0, <1>2, <2>3 DEF Proceeds
    <3>2. PICK o : op' = [op EXCEPT ![h] = o] /\ NextMove(h, o)
      BY <1>0, <2>1, <2>3, <3>1 DEF Proceeds, Free
    <3>3. op'[h] = o
      BY <1>0, <3>2
    <3>4. CASE o.at = "learn"
      <4>1. op[h].at = "ask" /\ o.session = op[h].session /\ o.reply = AnswerOf(op[h].session)
        BY <3>2, <3>4 DEF NextMove
      <4>2. AskStatus(h)
        BY <2>3, <3>1, <4>1
           DEF HandlerStep, Learn, Decide, LookupByText, LookupByButton, LoadSelect, LoadOther,
               LoadRefused, Call, CallFails, Commit, Submit, Bridge, Revert, Resolve
      <4>3. remote' = remote
        BY <4>2 DEF AskStatus, HandlerOnly, serverVars
      <4> QED
        BY <3>3, <4>1, <4>3 DEF AnswerOf
    <3>5. CASE o.at = "commit"
      <4>1. o.kind = op[h].kind /\ o.kind # "project"
        BY <1>2, <3>2, <3>3, <3>5 DEF Carries, NextMove
      <4>2. op[h].at = "call" /\ ServerDoes(h, o.session, o.reply)
        BY <3>2, <3>5, <4>1 DEF NextMove
      <4>3. CASE op[h].kind \in {"text", "run"}
        <5>1. o.session = op[h].session /\ op[h].session \in Sessions
          BY <4>2, <4>3 DEF ServerDoes, Typed, HandlersTyped, HandlerOK
        <5>2. \/ o.reply.task = None
              \/ o.reply.task = FreshTask /\ ServerRun(o.session, op[h].token)
          <6>1. CASE o.reply.status = "idle"
            BY <4>2, <4>3, <6>1 DEF ServerDoes
          <6>2. CASE o.reply.status = "needs-attention"
            BY <4>2, <4>3, <6>2 DEF ServerDoes
          <6>3. CASE o.reply.status \notin {"idle", "needs-attention"}
            BY <4>2, <4>3, <6>3 DEF ServerDoes
          <6> QED
            BY <6>1, <6>2, <6>3
        <5>3. ServerRun(o.session, op[h].token) => remote'[o.session].task = FreshTask
          BY <1>0, <5>1 DEF ServerRun
        <5> QED
          BY <3>3, <5>2, <5>3
      <4>4. CASE op[h].kind = "session"
        <5>1. o.reply = AnswerOf(o.session) /\ remote' = remote
          BY <4>2, <4>4 DEF ServerDoes, serverVars
        <5> QED
          BY <3>3, <5>1 DEF AnswerOf
      <4>5. CASE op[h].kind \in {"new", "cancel"}
        <5>1. o.reply.task = None
          BY <4>2, <4>5 DEF ServerDoes, Free
        <5> QED
          BY <3>3, <5>1
      <4> QED
        BY <4>1, <4>2, <4>3, <4>4, <4>5 DEF ServerDoes
    <3> QED
      BY <2>1, <3>3, <3>4, <3>5
  <2> QED
    BY <1>2, <2>2, <2>3, StepHandlers DEF HandlersStep
<1>3. \A h \in Handlers : Carries(h)' /\ op'[h] = op[h] => Carries(h)
  BY DEF Carries
<1> QED
  BY <1>1, <1>2, <1>3 DEF CarriesLatest

\* When the server answers every call, an order that has reached it is the
\* handler's to write down.
LEMMA CallOrders ==
    ASSUME Typed, "server" \notin Faults, NEW h \in Handlers, Call(h),
           op[h].kind \in {"text", "run", "cancel"}, NEW c \in Chats, op[h].chat = c
    PROVE  Ordered(c)'
<1>1. PICK s \in Sessions \cup {None}, reply \in Reply :
         op' = [op EXCEPT ![h] = [@ EXCEPT !.session = s, !.reply = reply, !.at = "commit"]]
  BY DEF Call
<1> DEFINE o == [op[h] EXCEPT !.session = s, !.reply = reply, !.at = "commit"]
<1>2. op \in [Handlers -> Handler]
  BY DEF Typed, HandlersTyped
<1>3. o.at = "commit" /\ o.kind = op[h].kind /\ o.chat = op[h].chat
  BY <1>2 DEF Handler
<1>4. op' = [op EXCEPT ![h] = o]
  BY <1>1
<1> HIDE DEF o
<1>5. op'[h] = o
  BY <1>2, <1>4
<1> QED
  BY <1>3, <1>5 DEF Ordered

\* A handler that is about to write down what an order brought is done then.
LEMMA OrderEnds ==
    ASSUME Typed, Exclusive, [Next]_vars, NEW c \in Chats, Ordered(c), ~Ordered(c)'
    PROVE  \E h \in Handlers :
              op[h].chat = c /\ Commit(h) /\ op[h].kind \in {"text", "run", "cancel"}
<1>0. op \in [Handlers -> Handler]
  BY DEF Typed, HandlersTyped
<1>1. PICK h \in Handlers :
         op[h].chat = c /\ op[h].at = "commit" /\ op[h].kind \in {"text", "run", "cancel"}
  BY DEF Ordered
<1>2. op'[h] # op[h]
  BY <1>1 DEF Ordered
<1>3. ASSUME NEW x \in Handlers, NEW d \in Chats, Begins(x, d), MayBegin(x, d) PROVE FALSE
  BY <1>0, <1>1, <1>2, <1>3 DEF Begins, MayBegin, Free
<1>4. ASSUME NEW x \in Handlers, Proceeds(x), HandlerStep(x) PROVE Commit(h)
  <2>1. x = h
    BY <1>0, <1>2, <1>4 DEF Proceeds
  <2> QED
    BY <1>1, <1>4, <2>1
       DEF HandlerStep, AskStatus, Learn, Decide, LookupByText, LookupByButton, LoadSelect,
           LoadOther, LoadRefused, Call, CallFails, Submit, Bridge, Revert, Resolve
<1> QED
  BY <1>1, <1>2, <1>3, <1>4, StepHandlers DEF HandlersStep

LEMMA OrderWritten ==
    ASSUME Typed, ReadsHold, NEW h \in Handlers, Commit(h),
           op[h].kind \in {"text", "run", "cancel"}
    PROVE  Delivers(h) \/ db'.state[op[h].chat].task = None
<1>0. db.state \in [Chats -> State] /\ db.binding \in [Chats -> Binding]
  BY DEF Typed, Sound, StoreType
<1> DEFINE c == op[h].chat
<1>1. op[h].at = "commit" /\ c \in Chats /\ (Executes(h) \/ Cancels(h))
  BY CommitRows DEF Selects, Binds
<1>2. CASE Cancels(h)
  BY <1>0, <1>1, <1>2 DEF Cancels, SetsState
<1>3. CASE Executes(h)
  <2>1. PICK mode : SetsState(db, db', c, [mode |-> mode, task |-> op[h].reply.task])
    BY <1>3 DEF Executes
  <2>2. db'.state[c].task = op[h].reply.task
    BY <1>0, <1>1, <2>1 DEF SetsState
  <2>3. db'.binding[c].session = op[h].session
    BY <1>1, <1>3 DEF Executes, SameBindings, ReadsHold
  <2>4. remote' = remote
    BY DEF Commit, HandlerOnly, serverVars
  <2> QED
    BY <1>1, <1>3, <2>2, <2>3, <2>4 DEF Executes, Delivers, Carries
<1> QED
  BY <1>1, <1>2, <1>3

LEMMA LatestStep ==
    ASSUME Typed, Exclusive, Separate, CarriesLatest, LatestKnown, "server" \notin Faults,
           [Next]_vars
    PROVE  LatestKnown'
<1> SUFFICES ASSUME NEW c \in Chats, ~Ordered(c)', db'.state[c].task \in Tasks
             PROVE  remote'[db'.binding[c].session].task = db'.state[c].task
  BY DEF LatestKnown, HasLatest, TaskOf, Session_, OnServer
<1>0. None \notin Tasks /\ None \notin Sessions
  BY NoneIsNoId
<1>1. ASSUME NEW h \in Handlers, op[h].chat = c, Delivers(h)
      PROVE  remote'[db'.binding[c].session].task = db'.state[c].task
  BY <1>0, <1>1 DEF Delivers, CarriesLatest, OnServer
<1>2. CASE Ordered(c)
  <2>1. PICK h \in Handlers :
           op[h].chat = c /\ Commit(h) /\ op[h].kind \in {"text", "run", "cancel"}
    BY <1>2, OrderEnds
  <2> QED
    BY <1>0, <1>1, <2>1, OrderWritten DEF Exclusive
<1>3. CASE ~Ordered(c) /\ KeepsTask(c)
  <2>1. db'.state[c].task = TaskOf(c) /\ db'.binding[c].session = Session_(c)
    BY <1>0, <1>3 DEF KeepsTask
  <2>2. remote[Session_(c)].task = TaskOf(c)
    BY <1>3, <2>1 DEF LatestKnown, HasLatest, OnServer
  <2>3. Session_(c) \in Sessions
    <3>1. Session_(c) \in Sessions \cup {None}
      BY DEF Typed, Sound, StoreType, Binding, Session_
    <3> QED
      BY <1>0, <2>1, <3>1 DEF Exclusive, UnboundIsIdle, IdleState, TaskOf
  <2>4. ASSUME NEW h \in Handlers, Call(h), Addresses(h, Session_(c)) PROVE FALSE
    <3>1. op[h].chat \in Chats /\ Uses(op[h].chat, Session_(c)) /\ Uses(c, Session_(c))
      BY <2>4 DEF Addresses, Typed, HandlersTyped, HandlerOK, Exclusive, ReadsHold, Uses, Session_
    <3>2. op[h].chat = c
      BY <2>3, <3>1 DEF Separate
    <3> QED
      BY <2>4, <3>2, CallOrders DEF Addresses
  <2>5. remote'[Session_(c)].task = remote[Session_(c)].task
    BY <2>3, <2>4, StepRuns DEF RunStep, RunSet, RunKept
  <2> QED
    BY <2>1, <2>2, <2>5 DEF OnServer
<1>4. TaskMoves
  BY StepMoves DEF Exclusive
<1> QED
  BY <1>1, <1>2, <1>3, <1>4 DEF TaskMoves

LEMMA InitLatest == Init => CarriesLatest /\ LatestKnown
<1> SUFFICES ASSUME Init PROVE CarriesLatest /\ LatestKnown
  OBVIOUS
<1>1. \A h \in Handlers : ~Carries(h)
  BY DEF Init, Free, Carries
<1>2. \A c \in Chats : TaskOf(c) = None
  BY DEF Init, EmptyStore, IdleState, TaskOf
<1> QED
  BY <1>1, <1>2, NoneIsNoId DEF CarriesLatest, LatestKnown, HasLatest

\* With the chat's lock, when the server answers every call that reaches it and
\* no two chats work with one session, a chat that nobody works on any more is
\* left with the task its session was given last: whatever answer a handler
\* carries is still the newest when it is written down, and no event gives a
\* chat a task.
THEOREM LatestTaskStays ==
    ASSUME LockEnabled, "server" \notin Faults PROVE Spec /\ []Separate => []TaskIsTheLatest
<1>1. Typed /\ Exclusive /\ Separate /\ CarriesLatest /\ LatestKnown /\ [Next]_vars
      => CarriesLatest' /\ LatestKnown'
  BY CarryStep, LatestStep
<1>2. LatestKnown => TaskIsTheLatest
  <2> SUFFICES ASSUME LatestKnown, Quiet, NEW c \in Chats, TaskOf(c) \in Tasks
               PROVE  remote[Session_(c)].task = TaskOf(c)
    BY DEF TaskIsTheLatest
  <2>1. ~Ordered(c)
    BY DEF Quiet, Ordered, Free
  <2> QED
    BY <2>1 DEF LatestKnown, HasLatest, OnServer
<1> QED
  BY <1>1, <1>2, InitLatest, AlwaysTyped, AlwaysExclusive, PTL DEF Spec

-----------------------------------------------------------------------------
(* One run at a time                                                       *)

\* The watcher has heard of no question.
Unasked == NoCall("needs-input") /\ \A c \in Chats : work[c].answer # "needs-attention"

LEMMA ContinueAnswer ==
    ASSUME Typed, NEW c \in Chats, NEW at, Continue(c, at)
    PROVE  work'[c].answer \in {"unknown", work[c].answer}
<1>1. CASE at = "free"
  BY <1>1 DEF Continue, Idle, Typed, WorkTyped
<1>2. CASE at # "free"
  <2>1. work' = [work EXCEPT ![c] = [work[c] EXCEPT !.at = at]]
    BY <1>2 DEF Continue
  <2> QED
    BY <2>1 DEF Typed, WorkTyped, Work
<1> QED
  BY <1>1, <1>2

LEMMA AfterAnswer ==
    ASSUME Typed, NEW c \in Chats, NEW e, NEW by, EventStep(c, e, by)
    PROVE  work'[c].answer = "unknown"
<1>1. PICK n : work' = [work EXCEPT ![c] = After(by, e.session, n)]
  BY DEF EventStep
<1>2. work'[c] = After(by, e.session, n)
  BY <1>1 DEF Typed, WorkTyped
<1> QED
  BY <1>2 DEF After, Idle

LEMMA WatchAnswer ==
    ASSUME Typed, NoneWaits, NEW c \in Chats, Watching(c) \/ ApplyWebhook(c)
    PROVE  work'[c].answer # "needs-attention" \/ work'[c].answer = work[c].answer
<1>1. CASE BeginCandidate(c)
  <2>1. PICK v \in Sweeps : \E k \in sweep[v] : k.chat = c /\ StartCandidate(v, k)
    BY <1>1 DEF BeginCandidate
  <2>2. PICK k \in sweep[v] : k.chat = c /\ StartCandidate(v, k)
    BY <2>1
  <2>3. work' = [work EXCEPT ![c] = [Idle EXCEPT !.by = v, !.at = "ask",
                                        !.session = k.session, !.retry = k.retry]]
    BY <2>2 DEF StartCandidate
  <2>4. work'[c].answer = "unknown"
    BY <2>3 DEF Typed, WorkTyped, Idle
  <2> QED
    BY <2>4
<1>2. CASE AskRemote(c)
  <2>1. work[c].session \in Sessions
    BY <1>2 DEF AskRemote, Typed, WorkTyped, WatchOK
  <2>2. PICK at, answer : /\ work' = [work EXCEPT ![c].at = at, ![c].answer = answer]
                          /\ answer \in {remote[work[c].session].status, "retryable", "fatal"}
    BY <1>2 DEF AskRemote
  <2>3. work'[c].answer = answer
    BY <2>2 DEF Typed, WorkTyped, Work
  <2> QED
    BY <2>1, <2>2, <2>3 DEF NoneWaits
<1>3. CASE Conclude(c)
  BY <1>3, ConcludeStep, ContinueAnswer, AfterAnswer
<1>4. CASE ApplyWebhook(c)
  BY <1>4, ApplyWebhookStep, ContinueAnswer, AfterAnswer
<1>5. CASE \/ ReactToFailure(c) \/ React(c) \/ TouchSession(c)
           \/ TrackPromptMessage(c) \/ CleanKeyboard(c)
           \/ TrackPromptCleanup(c) \/ Say(c) \/ NoticeFails(c) \/ TrackFails(c)
  <2>1. \E at : Continue(c, at)
    BY <1>5 DEF ReactToFailure, React, TouchSession, TrackPromptMessage,
                CleanKeyboard, TrackPromptCleanup, Say, NoticeFails, TrackFails, NoticeEnds
  <2> QED
    BY <2>1, ContinueAnswer
<1>6. CASE ShowPrompt(c)
  BY <1>6, ShowKeeps
<1> QED
  BY <1>1, <1>2, <1>3, <1>4, <1>5, <1>6 DEF Watching, WatchStep

LEMMA UnaskedStep ==
    ASSUME Typed, NoneWaits, NoneWaits', Unasked, [Next]_vars PROVE Unasked'
<1>1. NoCall("needs-input")'
  BY NamedBot, OpenCodeAssumption DEF Unasked
<1>2. ASSUME NEW c \in Chats PROVE work'[c].answer # "needs-attention"
  <2>1. ASSUME NEW d \in Chats, Watching(d) \/ ApplyWebhook(d), d # c PROVE work'[c] = work[c]
    BY <2>1, ApplyWebhookStep, WatchFrame
  <2>2. CASE work' = work
    BY <2>2 DEF Unasked
  <2>3. CASE Watching(c) \/ ApplyWebhook(c)
    BY <2>3, WatchAnswer DEF Unasked
  <2> QED
    BY <2>1, <2>2, <2>3, StepWork DEF Unasked
<1> QED
  BY <1>1, <1>2 DEF Unasked

\* The watcher does not make a chat with a running task free.
LEMMA EventKeepsBusy ==
    ASSUME Typed, Unasked, NEW c \in Chats, NEW d \in Chats,
           \/ Conclude(c) /\ AppliesEvent(c, Verdict(work[c]), work[c].by)
           \/ ApplyWebhook(c) /\ AppliesEvent(c, Head(inbox[c]), "webhook")
    PROVE  StaysBusy(db, db', d) /\ db'.binding = db.binding
<1>0. db.state \in [Chats -> State]
  BY DEF Typed, Sound, StoreType
<1>1. PICK e : \E by : AppliesEvent(c, e, by) /\ e.kind # "needs-input"
  BY NamedWebhook DEF Unasked, Verdict
<1>2. /\ SameStates(db, db') \/ FreesState(db, db', c)
      /\ SameBindings(db, db') /\ StaysBusy(db, db', c)
  BY <1>1 DEF AppliesEvent, EventStep
<1> QED
  BY <1>0, <1>2 DEF SameStates, FreesState, SetsState, SameBindings, StaysBusy

\* What a handler has read of its chat stays, unless it writes itself.
LEMMA BusyStays ==
    ASSUME Typed, Exclusive, Unasked, [Next]_vars, NEW h \in Handlers, op[h].at # "free",
           ~Learn(h), ~Commit(h)
    PROVE  StaysBusy(db, db', op[h].chat) /\ db'.binding[op[h].chat] = db.binding[op[h].chat]
<1> DEFINE c == op[h].chat
<1>0. /\ db.state \in [Chats -> State] /\ db.binding \in [Chats -> Binding]
      /\ c \in Chats
  BY DEF Typed, Sound, StoreType, HandlersTyped, HandlerOK
<1>1. CASE OnlyPrompts(db, db') \/ RetryStep
  BY <1>1 DEF OnlyPrompts, RetryStep, OnlySessions, SameBindings, SameStates, StaysBusy
<1>2. ASSUME NEW d \in Chats,
             \/ Conclude(d) /\ AppliesEvent(d, Verdict(work[d]), work[d].by)
             \/ ApplyWebhook(d) /\ AppliesEvent(d, Head(inbox[d]), "webhook")
      PROVE  StaysBusy(db, db', c) /\ db'.binding = db.binding
  BY <1>0, <1>2, EventKeepsBusy
<1>3. ASSUME NEW g \in Handlers, Learn(g) \/ Commit(g)
      PROVE  StaysBusy(db, db', c) /\ db'.binding[c] = db.binding[c]
  <2>1. g # h
    BY <1>3
  <2>2. op[g].chat # c
    BY <2>1 DEF Exclusive, LockHeld
  <2>3. \E row : SetsState(db, db', op[g].chat, row)
    BY <1>3, LearnRows, CommitRows DEF Selects, Binds, Executes, Cancels
  <2>4. SameBindings(db, db') \/ \E row : SetsBinding(db, db', op[g].chat, row)
    BY <1>3, LearnRows, CommitRows DEF Selects, Binds, Executes, Cancels
  <2> QED
    BY <1>0, <2>2, <2>3, <2>4 DEF SetsState, SetsBinding, SameBindings, StaysBusy
<1>4. RowStep
  BY StepRows
<1> QED
  BY <1>1, <1>2, <1>3, <1>4, Zenon DEF RowStep

\* The session of chat c runs.
Runs(c) == HasSession(db, c) /\ remote[Session_(c)].status = "running"

\* A handler that may give an order knows of the run of its session: from the
\* answer that it has, from the state it wrote, or because it was turned away.
Informed(h) ==
    op[h].kind \in {"text", "run"} =>
        /\ op[h].at = "learn" /\ remote[op[h].session].status = "running"
              => op[h].reply.status = "running"
        /\ op[h].at = "decide" /\ Runs(op[h].chat) => ModeOf(op[h].chat) = "task-running"
        /\ op[h].at \in {"lookup", "load"} => ~Runs(op[h].chat)
        /\ op[h].at = "call" => remote[op[h].session].status # "running"
AllInformed == \A h \in Handlers : Informed(h)

\* The session that a handler's chat is linked to starts no run, but by an order
\* of this handler.
LEMMA NoNewRun ==
    ASSUME Typed, Exclusive, Unshared, NoneWaits, NoneWaits', [Next]_vars,
           NEW h \in Handlers, op[h].at # "free", ~Call(h),
           Session_(op[h].chat) \in Sessions, remote'[Session_(op[h].chat)].status = "running"
    PROVE  remote[Session_(op[h].chat)].status = "running"
<1> DEFINE s == Session_(op[h].chat)
<1>1. op[h].chat \in Chats
  BY DEF Typed, HandlersTyped, HandlerOK
<1>2. ASSUME NEW g \in Handlers, Call(g), Addresses(g, s) PROVE FALSE
  <2>1. op[g].chat \in Chats /\ Session_(op[g].chat) = s
    BY <1>2 DEF Addresses, Typed, HandlersTyped, HandlerOK, Exclusive, ReadsHold, Session_
  <2>2. op[g].chat = op[h].chat
    BY <1>1, <2>1, NoneIsNoId DEF Unshared
  <2>3. g = h
    BY <2>2 DEF Exclusive, LockHeld
  <2> QED
    BY <1>2, <2>3
<1>3. RunKept(s)
  BY <1>2, StepRuns DEF RunStep, RunSet
<1> QED
  BY <1>3 DEF RunKept, Waiting, NoneWaits

LEMMA RunsStays ==
    ASSUME Typed, Exclusive, Unshared, NoneWaits, NoneWaits', Unasked, [Next]_vars,
           NEW h \in Handlers, op[h].at # "free", ~Call(h), ~Commit(h), ~Learn(h),
           NEW c \in Chats, op[h].chat = c, Runs(c)'
    PROVE  Runs(c)
<1>1. db'.binding[c] = db.binding[c]
  BY BusyStays
<1>2. Session_(c) \in Sessions /\ HasSession(db, c) /\ remote'[Session_(c)].status = "running"
  BY <1>1 DEF Runs, HasSession, HasProject, Session_, Typed, Sound, StoreType, Binding
<1> QED
  BY <1>2, NoNewRun DEF Runs

LEMMA InformedStays ==
    ASSUME Typed, Exclusive, Unshared, NoneWaits, NoneWaits', Unasked,
           "server" \notin Faults, [Next]_vars,
           NEW h \in Handlers, Informed(h), op'[h] = op[h], op[h].at # "free"
    PROVE  Informed(h)'
<1> DEFINE c == op[h].chat
<1>0. op \in [Handlers -> Handler] /\ c \in Chats
  BY DEF Typed, HandlersTyped, HandlerOK
<1>1. ~Learn(h) /\ ~Commit(h)
  BY <1>0 DEF Learn, Commit, Done, Free, Handler
<1>2. ~Call(h)
  <2> SUFFICES ASSUME Call(h) PROVE FALSE
    OBVIOUS
  <2>1. PICK s, reply : op' = [op EXCEPT ![h] =
           [op[h] EXCEPT !.session = s, !.reply = reply, !.at = "commit"]]
    BY DEF Call
  <2>2. op'[h].at = "commit"
    BY <1>0, <2>1 DEF Handler
  <2> QED
    BY <2>2 DEF Call
<1>3. CASE op[h].kind \in {"text", "run"} /\ op[h].at \in {"learn", "call"}
  <2>1. Session_(c) = op[h].session /\ op[h].session \in Sessions
    BY <1>3 DEF Exclusive, ReadsHold, Session_, Typed, HandlersTyped, HandlerOK
  <2>2. remote'[op[h].session].status = "running" => remote[op[h].session].status = "running"
    BY <1>1, <1>2, <2>1, NoNewRun
  <2> QED
    BY <1>3, <2>2 DEF Informed
<1>4. CASE op[h].kind \in {"text", "run"} /\ op[h].at \in {"decide", "lookup", "load"}
  <2>1. Runs(c)' => Runs(c)
    BY <1>0, <1>1, <1>2, RunsStays
  <2>2. ModeOf(c) = "task-running" => db'.state[c].mode = "task-running"
    BY <1>1, BusyStays DEF StaysBusy, ModeOf
  <2> QED
    BY <1>4, <2>1, <2>2 DEF Informed, ModeOf
<1> QED
  BY <1>3, <1>4 DEF Informed

\* Which step of a handler ends where.
LEMMA MovesTo ==
    ASSUME Typed, NEW h \in Handlers, HandlerStep(h), NEW o,
           op' = [op EXCEPT ![h] = o], NextMove(h, o), o.kind \in {"text", "run"}
    PROVE  /\ o.at = "learn" => AskStatus(h)
           /\ o.at = "decide" => AskStatus(h) \/ Learn(h)
           /\ o.at = "lookup" => Decide(h)
           /\ o.at = "load" => Decide(h) \/ LookupByText(h)
           /\ o.at = "call" => LoadOther(h) \/ CallFails(h) \/ Call(h)
<1>0. op'[h] = o /\ o.kind = op[h].kind
  BY DEF Typed, HandlersTyped, NextMove
<1>1. op[h].at = "ask" => AskStatus(h)
  BY DEF HandlerStep, Learn, Decide, LookupByText, LookupByButton, LoadSelect, LoadOther,
         LoadRefused, Call, CallFails, Commit, Submit, Bridge, Revert, Resolve
<1>2. op[h].at = "learn" => Learn(h)
  BY DEF HandlerStep, AskStatus, Decide, LookupByText, LookupByButton, LoadSelect, LoadOther,
         LoadRefused, Call, CallFails, Commit, Submit, Bridge, Revert, Resolve
<1>3. op[h].at = "decide" => Decide(h)
  BY DEF HandlerStep, AskStatus, Learn, LookupByText, LookupByButton, LoadSelect, LoadOther,
         LoadRefused, Call, CallFails, Commit, Submit, Bridge, Revert, Resolve
<1>4. op[h].at = "lookup" => LookupByText(h)
  BY <1>0 DEF HandlerStep, AskStatus, Learn, Decide, LookupByButton, LoadSelect, LoadOther,
         LoadRefused, Call, CallFails, Commit, Submit, Bridge, Revert, Resolve
<1>5. op[h].at = "load" /\ o.at = "call" => LoadOther(h)
  <2> SUFFICES ASSUME op[h].at = "load", o.at = "call" PROVE LoadOther(h)
    OBVIOUS
  <2>1. LoadSelect(h) \/ LoadOther(h) \/ LoadRefused(h)
    BY DEF HandlerStep, AskStatus, Learn, Decide, LookupByText, LookupByButton,
           Call, CallFails, Commit, Submit, Bridge, Revert, Resolve
  <2>2. ~LoadSelect(h)
    BY <1>0 DEF LoadSelect
  <2>3. ~LoadRefused(h)
    <3>1. LoadRefused(h) => op'[h] = Free
      BY DEF LoadRefused, Done, Typed, HandlersTyped
    <3> QED
      BY <1>0, <3>1 DEF Free
  <2> QED
    BY <2>1, <2>2, <2>3
<1>6. op[h].at = "call" => CallFails(h) \/ Call(h)
  BY DEF HandlerStep, AskStatus, Learn, Decide, LookupByText, LookupByButton, LoadSelect,
         LoadOther, LoadRefused, Commit, Submit, Bridge, Revert, Resolve
<1> QED
  BY <1>1, <1>2, <1>3, <1>4, <1>5, <1>6 DEF NextMove

\* A text or a command that goes on has found its chat without a running task.
LEMMA DecideFindsFree ==
    ASSUME Typed, NEW h \in Handlers, Decide(h), op[h].kind \in {"text", "run"},
           op'[h].at \in {"lookup", "load"}
    PROVE  ModeOf(op[h].chat) # "task-running"
<1> SUFFICES ASSUME ModeOf(op[h].chat) = "task-running" PROVE FALSE
  OBVIOUS
<1>1. Done(h)
  BY DEF Decide, Route, ModeOf
<1> QED
  BY <1>1 DEF Done, Free, Typed, HandlersTyped

LEMMA LearnInforms ==
    ASSUME Typed, Exclusive, NEW h \in Handlers, Informed(h), Learn(h),
           op[h].kind \in {"text", "run"}, Runs(op[h].chat)'
    PROVE  db'.state[op[h].chat].mode = "task-running"
<1> DEFINE c == op[h].chat
           r == op[h].reply
<1>1. /\ op[h].at = "learn" /\ c \in Chats /\ r \in Reply
      /\ SameBindings(db, db') /\ SetsState(db, db', c, StateOfReply(r))
  BY LearnRows
<1>2. remote' = remote
  BY DEF Learn, HandlerOnly, serverVars
<1>3. op'[h].chat = c
  BY DEF Learn, Typed, HandlersTyped, Handler
<1>4. remote[op[h].session].status = "running"
  BY <1>1, <1>2, <1>3 DEF Runs, SameBindings, Session_, Exclusive, ReadsHold
<1>5. r.status = "running"
  BY <1>1, <1>4 DEF Informed
<1>6. db'.state[c] = StateOfReply(r)
  BY <1>1 DEF SetsState, Typed, Sound, StoreType
<1> QED
  BY <1>1, <1>5, <1>6, StateOfReplyType

LEMMA InformedMoves ==
    ASSUME Typed, Exclusive, NEW h \in Handlers, Informed(h), "server" \notin Faults,
           HandlerStep(h), NEW o, op' = [op EXCEPT ![h] = o], NextMove(h, o)
    PROVE  Informed(h)'
<1>0. op'[h] = o /\ op \in [Handlers -> Handler]
  BY DEF Typed, HandlersTyped
<1> DEFINE c == op[h].chat
<1> SUFFICES ASSUME o.kind \in {"text", "run"} PROVE Informed(h)'
  BY <1>0 DEF Informed
<1>1. o.kind = op[h].kind /\ o.chat = c
  BY DEF NextMove
<1>2. CASE o.at = "learn"
  <2>1. o.session = op[h].session /\ o.reply = AnswerOf(op[h].session)
    BY <1>2 DEF NextMove
  <2>2. remote' = remote
    BY <1>2, MovesTo DEF AskStatus, HandlerOnly, serverVars
  <2>3. o.reply.status = remote[op[h].session].status
    BY <2>1 DEF AnswerOf
  <2> QED
    BY <1>0, <1>2, <2>1, <2>2, <2>3 DEF Informed
<1>3. CASE o.at = "decide"
  <2>1. CASE Learn(h)
    <3>1. Runs(c)' => db'.state[c].mode = "task-running"
      BY <1>0, <1>1, <2>1, LearnInforms
    <3> QED
      BY <1>0, <1>1, <1>3, <3>1 DEF Informed, ModeOf
  <2>2. CASE AskStatus(h)
    <3>1. op[h].at = "ask" /\ remote' = remote /\ db' = db
      BY <2>2 DEF AskStatus, HandlerOnly, serverVars
    <3>2. ~Alive(op[h].session)
      <4>1. op' # [op EXCEPT ![h].reply = AnswerOf(op[h].session), ![h].at = "learn"]
        BY <1>0, <1>3 DEF Handler
      <4> QED
        BY <2>2, <4>1 DEF AskStatus
    <3>3. remote[op[h].session].status # "running"
      BY <3>2 DEF Alive
    <3>4. Session_(c) = op[h].session
      BY <3>1 DEF Exclusive, ReadsHold, Session_
    <3>5. ~Runs(c)'
      BY <1>0, <1>1, <3>1, <3>3, <3>4 DEF Runs, Session_
    <3> QED
      BY <1>0, <1>1, <1>3, <3>5 DEF Informed, ModeOf
  <2> QED
    BY <1>3, <2>1, <2>2, MovesTo
<1>4. CASE o.at \in {"lookup", "load"}
  <2>1. db' = db /\ remote' = remote
    BY <1>4, MovesTo DEF Decide, LookupByText, HandlerOnly, serverVars
  <2>2. ~Runs(c)
    <3>1. CASE Decide(h)
      <4>1. ModeOf(c) # "task-running" /\ op[h].at = "decide"
        BY <1>0, <1>1, <1>4, <3>1, DecideFindsFree DEF Decide
      <4> QED
        BY <1>1, <4>1 DEF Informed
    <3>2. CASE LookupByText(h)
      BY <1>1, <3>2 DEF LookupByText, Informed
    <3> QED
      BY <1>4, <3>1, <3>2, MovesTo
  <2>3. ~Runs(c)'
    BY <1>0, <1>1, <2>1, <2>2 DEF Runs, HasSession, HasProject, Session_
  <2> QED
    BY <1>0, <1>1, <1>4, <2>3 DEF Informed
<1>5. CASE o.at = "call"
  <2>1. CASE LoadOther(h)
    <3>1. op[h].at = "load" /\ Admitted(op[h].kind, c) /\ remote' = remote
      BY <2>1 DEF LoadOther, HandlerOnly, serverVars
    <3>2. HasSession(db, c)
      BY <1>1, <3>1 DEF Admitted, MaySend, MayRun
    <3>3. o.session = Session_(c)
      BY <1>1, <1>5, <3>1 DEF NextMove, Session_
    <3>4. ~Runs(c)
      BY <1>1, <3>1 DEF Informed
    <3> QED
      BY <1>0, <1>5, <3>1, <3>2, <3>3, <3>4 DEF Runs, Informed
  <2>2. CASE CallFails(h)
    <3>1. op[h].at = "call" /\ remote' = remote /\ o.session = op[h].session
      BY <1>5, <2>2 DEF CallFails, HandlerOnly, serverVars, NextMove
    <3> QED
      BY <1>0, <1>1, <1>5, <3>1 DEF Informed
  <2>3. ~Call(h)
    <3> SUFFICES ASSUME Call(h) PROVE FALSE
      OBVIOUS
    <3>1. PICK s, reply : op' = [op EXCEPT ![h] =
             [op[h] EXCEPT !.session = s, !.reply = reply, !.at = "commit"]]
      BY DEF Call
    <3> QED
      BY <1>0, <1>5, <3>1 DEF Handler
  <2> QED
    BY <1>5, <2>1, <2>2, <2>3, MovesTo
<1> QED
  BY <1>0, <1>2, <1>3, <1>4, <1>5 DEF Informed

LEMMA InformedStep ==
    ASSUME Typed, Exclusive, Unshared, NoneWaits, NoneWaits', Unasked, AllInformed,
           "server" \notin Faults, [Next]_vars
    PROVE  AllInformed'
<1>0. op \in [Handlers -> Handler]
  BY DEF Typed, HandlersTyped
<1> SUFFICES ASSUME NEW h \in Handlers PROVE Informed(h)'
  BY DEF AllInformed
<1>1. Informed(h)
  BY DEF AllInformed
<1>2. CASE op'[h] = op[h] /\ op[h].at # "free"
  BY <1>1, <1>2, InformedStays
<1>3. CASE op'[h].at = "free"
  BY <1>3 DEF Informed
<1>4. ASSUME NEW x \in Handlers, NEW c \in Chats, Begins(x, c), MayBegin(x, c), db' = db,
             op'[h] # op[h]
      PROVE  Informed(h)'
  <2>1. PICK o : /\ op' = [op EXCEPT ![x] = o] /\ o.chat = c
                 /\ o.at \in {"ask", "decide", "lookup"}
                 /\ o.at = "decide" => ~HasSession(db, c)
                 /\ o.at = "lookup" => o.kind = "button"
    BY <1>4 DEF Begins
  <2>2. op'[h] = o
    BY <1>0, <1>4, <2>1
  <2>3. ~HasSession(db, c) => ~Runs(c)'
    BY <1>4 DEF Runs
  <2> QED
    BY <2>1, <2>2, <2>3 DEF Informed
<1>5. ASSUME NEW x \in Handlers, HandlerStep(x), Proceeds(x), op'[h] # op[h]
      PROVE  Informed(h)'
  <2>1. x = h
    BY <1>0, <1>5 DEF Proceeds
  <2>2. CASE op' = [op EXCEPT ![h] = Free]
    BY <1>0, <1>3, <2>2 DEF Free
  <2>3. ASSUME NEW o, op' = [op EXCEPT ![h] = o], NextMove(h, o) PROVE Informed(h)'
    BY <1>1, <1>5, <2>1, <2>3, InformedMoves
  <2> QED
    BY <1>5, <2>1, <2>2, <2>3 DEF Proceeds
<1> QED
  BY <1>2, <1>3, <1>4, <1>5, StepHandlers DEF HandlersStep

LEMMA OneRunStep ==
    ASSUME Typed, AllInformed, [Next]_vars, NEW s \in Sessions,
           runs' # runs, remote'[s].task # remote[s].task
    PROVE  remote[s].status # "running"
<1>1. PICK h \in Handlers : Call(h) /\ Addresses(h, s)
  BY StepRuns DEF RunStep, RunKept, RunSet
<1>2. op[h].kind # "cancel"
  BY <1>1 DEF Call, Addresses, ServerDoes, ServerCancel
<1> QED
  BY <1>1, <1>2 DEF AllInformed, Informed, Addresses

LEMMA InitInformed == Init => Unasked /\ AllInformed
BY DEF Init, ServerInit, Idle, Free, Unasked, NoCall, AllInformed, Informed

\* With the chat's lock, when the server answers every call that reaches it, no
\* run stops at a question and no two chats are linked to one session, no order
\* is given to a session that runs one: what the router has read before the call
\* still holds when the call arrives, because nobody else gives orders to the
\* session and no event makes a chat with a running task free.
THEOREM NoRunOnTop ==
    ASSUME LockEnabled, "server" \notin Faults
    PROVE  Spec /\ []Unshared /\ []NoneWaits => OneRunAtATime
<1>1. /\ Typed /\ Exclusive /\ Unshared /\ NoneWaits /\ NoneWaits'
      /\ Unasked /\ AllInformed /\ [Next]_vars
      => Unasked' /\ AllInformed'
  BY UnaskedStep, InformedStep
<1>2. Typed /\ AllInformed /\ [Next]_vars =>
        [\A s \in Sessions : runs' # runs /\ remote'[s].task # remote[s].task
              => remote[s].status # "running"]_vars
  BY OneRunStep
<1> QED
  BY <1>1, <1>2, InitInformed, AlwaysTyped, AlwaysExclusive, PTL DEF Spec, OneRunAtATime

-----------------------------------------------------------------------------
(* A question that waits can be answered                                   *)

\* The run of session s goes on as it was, or stops for another reason than a
\* new question.
RowGoesOn(s) ==
    /\ remote'[s].token = remote[s].token
    /\ \/ remote'[s] = remote[s]
       \/ remote'[s].status = "idle"
       \/ remote[s].status \in Waiting /\ remote'[s].status # "needs-attention"

\* Session s takes the message or the command of handler h.
TakesOrder(h, s) ==
    /\ op[h].at = "call" /\ op[h].kind \in {"text", "run"} /\ op[h].session = s
    /\ remote'[s].token = op[h].token /\ remote'[s].prompt = None

\* What a step does to session s on the server.
RemoteStep(s) ==
    \/ RowGoesOn(s) \/ ServerCreate(s)
    \/ \E h \in Handlers : TakesOrder(h, s)
    \/ \E p \in (Prompts \ asked) \cup {None} :
          RunAsks(s, p) /\ UNCHANGED <<botVars, userVars>>

LEMMA RunsOn ==
    ASSUME Typed, NEW u \in Sessions, NEW s \in Sessions,
           \/ ServerCancel(u) \/ ServerResume(u) \/ RunCrashes(u)
           \/ \E kind \in EndKinds : RunEnds(u, kind)
    PROVE  RowGoesOn(s)
<1>1. remote \in [Sessions -> RemoteSession] /\ remote[u] \in RemoteSession
  BY DEF Typed, ServerTypeOK
<1>2. ASSUME NEW row, remote' = [remote EXCEPT ![u] = row], row.token = remote[u].token,
             \/ row.status = "idle"
             \/ remote[u].status \in Waiting /\ row.status # "needs-attention"
      PROVE  RowGoesOn(s)
  BY <1>1, <1>2 DEF RowGoesOn
<1>3. CASE ServerCancel(u)
  <2> DEFINE row == [remote[u] EXCEPT !.status = "idle", !.task = None, !.prompt = None]
  <2>1. row.token = remote[u].token /\ row.status = "idle"
    BY <1>1 DEF RemoteSession
  <2>2. remote' = [remote EXCEPT ![u] = row]
    BY <1>3 DEF ServerCancel
  <2> HIDE DEF row
  <2> QED
    BY <1>2, <2>1, <2>2
<1>4. CASE RunCrashes(u) \/ \E kind \in EndKinds : RunEnds(u, kind)
  <2> DEFINE row(status) == [remote[u] EXCEPT !.status = status]
  <2>1. \A status : row(status).token = remote[u].token /\ row(status).status = status
    BY <1>1 DEF RemoteSession
  <2>2. /\ remote[u].status \in Waiting
        /\ \/ remote' = [remote EXCEPT ![u] = row("gone")]
           \/ remote' = [remote EXCEPT ![u] = row("completed")]
    BY <1>4 DEF RunCrashes, RunEnds, Waiting
  <2> HIDE DEF row
  <2> QED
    BY <1>2, <2>1, <2>2
<1>5. CASE ServerResume(u)
  <2> DEFINE row == [remote[u] EXCEPT !.status = "running", !.prompt = None]
  <2>1. row.token = remote[u].token /\ row.status = "running"
    BY <1>1 DEF RemoteSession
  <2>2. remote[u].status \in Waiting /\ remote' = [remote EXCEPT ![u] = row]
    BY <1>5 DEF ServerResume, Waiting
  <2> HIDE DEF row
  <2> QED
    BY <1>2, <2>1, <2>2
<1> QED
  BY <1>3, <1>4, <1>5

LEMMA OtherRows ==
    ASSUME Typed, NEW u, NEW s \in Sessions, u # s, NEW token,
           \/ ServerCreate(u) \/ ServerReply(u, token) \/ ServerAsks(u, token)
           \/ ServerRun(u, token) \/ \E p : RunAsks(u, p)
    PROVE  RowGoesOn(s)
<1>1. remote \in [Sessions -> RemoteSession]
  BY DEF Typed, ServerTypeOK
<1>2. \E row : remote' = [remote EXCEPT ![u] = row]
  BY DEF ServerCreate, ServerReply, ServerAsks, ServerRun, RunAsks
<1> QED
  BY <1>1, <1>2 DEF RowGoesOn

LEMMA OrderTaken ==
    ASSUME Typed, NEW s \in Sessions, NEW token,
           ServerReply(s, token) \/ ServerAsks(s, token) \/ ServerRun(s, token)
    PROVE  remote'[s].token = token /\ remote'[s].prompt = None
<1>1. remote \in [Sessions -> RemoteSession]
  BY DEF Typed, ServerTypeOK
<1>2. PICK status, task : remote' = [remote EXCEPT ![s] =
          [status |-> status, task |-> task, token |-> token, prompt |-> None]]
  BY DEF ServerReply, ServerAsks, ServerRun
<1> DEFINE row == [status |-> status, task |-> task, token |-> token, prompt |-> None]
<1>3. row.token = token /\ row.prompt = None /\ remote' = [remote EXCEPT ![s] = row]
  BY <1>2
<1> HIDE DEF row
<1> QED
  BY <1>1, <1>3

LEMMA SameRow == ASSUME remote' = remote, NEW s PROVE RowGoesOn(s)
BY DEF RowGoesOn

LEMMA CallRow ==
    ASSUME Typed, NEW h \in Handlers, Call(h), NEW s \in Sessions PROVE RemoteStep(s)
<1>1. PICK u, reply : ServerDoes(h, u, reply)
  BY DEF Call
<1>2. CASE op[h].kind = "project" \/ op[h].kind = "session"
  BY <1>1, <1>2, SameRow DEF ServerDoes, serverVars, RemoteStep
<1>3. CASE op[h].kind = "new"
  <2>1. ServerCreate(u)
    BY <1>1, <1>3 DEF ServerDoes
  <2> QED
    BY <2>1, OtherRows DEF RemoteStep
<1>4. CASE op[h].kind = "cancel"
  <2>1. ServerCancel(u) /\ u \in Sessions
    BY <1>1, <1>4 DEF ServerDoes, Call, Typed, HandlersTyped, HandlerOK
  <2> QED
    BY <2>1, RunsOn DEF RemoteStep
<1>5. CASE op[h].kind \in {"text", "run"}
  <2>1. /\ op[h].at = "call" /\ u = op[h].session
        /\ \/ ServerReply(u, op[h].token) \/ ServerAsks(u, op[h].token)
           \/ ServerRun(u, op[h].token)
    BY <1>1, <1>5 DEF ServerDoes, Call
  <2>2. CASE u = s
    BY <1>5, <2>1, <2>2, OrderTaken DEF TakesOrder, RemoteStep
  <2>3. CASE u # s
    BY <2>1, <2>3, OtherRows DEF RemoteStep
  <2> QED
    BY <2>2, <2>3
<1> QED
  BY <1>1, <1>2, <1>3, <1>4, <1>5 DEF ServerDoes

LEMMA StepRemote == ASSUME Typed, [Next]_vars, NEW s \in Sessions PROVE RemoteStep(s)
<1>0. CASE remote' = remote
  BY <1>0, SameRow DEF RemoteStep
<1>2. ASSUME NEW h \in Handlers, Bridge(h) PROVE RemoteStep(s)
  <2>1. op[h].session \in Sessions
    BY <1>2 DEF Bridge, Typed, HandlersTyped, HandlerOK, Answering
  <2> QED
    BY <1>0, <1>2, <2>1, RunsOn DEF Bridge, RemoteStep, serverVars
<1>3. CASE WorldStep
  <2>1. PICK u \in Sessions :
           \/ \E kind \in EndKinds : RunEnds(u, kind)
           \/ RunCrashes(u) \/ ServerResume(u)
           \/ \E p \in (Prompts \ asked) \cup {None} : RunAsks(u, p)
    BY <1>3 DEF WorldStep, ServerStep, AnsweredAtPc
  <2>2. CASE \E p \in (Prompts \ asked) \cup {None} : RunAsks(u, p)
    <3>1. CASE u = s
      BY <1>3, <2>2, <3>1 DEF WorldStep, RemoteStep
    <3>2. CASE u # s
      BY <2>2, <3>2, OtherRows DEF RemoteStep
    <3> QED
      BY <3>1, <3>2
  <2> QED
    BY <2>1, <2>2, RunsOn DEF RemoteStep
<1>4. ASSUME NEW h \in Handlers, HandlerStep(h) PROVE RemoteStep(s)
  BY <1>0, <1>2, <1>4, CallRow
     DEF HandlerStep, AskStatus, Learn, Decide, LookupByText, LookupByButton, LoadSelect,
         LoadOther, LoadRefused, CallFails, Commit, Submit, Revert, Resolve, HandlerOnly,
         serverVars
<1>5. CASE \E h \in Handlers, c \in Chats :
              \/ \E kind \in Commands : Begin(h, c, kind)
              \/ \E p \in Prompts : Press(h, c, p)
  BY <1>0, <1>5 DEF Begin, Press, HandlerOnly, serverVars
<1>6. CASE \E e \in wire : Arrive(e) \/ ArriveUnknown(e) \/ Lose(e)
  BY <1>0, <1>6 DEF Arrive, ArriveUnknown, Lose
<1>7. CASE \E c \in Chats : BeginCandidate(c) \/ ApplyWebhook(c) \/ WatchStep(c)
  BY <1>0, <1>7, ApplyWebhookStep, WatchFrame DEF Watching, serverVars
<1>8. CASE TimerStep \/ UNCHANGED vars
  BY <1>0, <1>8 DEF TimerStep, BeginSweep, StartSweep, serverVars, vars
<1> QED
  BY <1>3, <1>4, <1>5, <1>6, <1>7, <1>8 DEF Next, BotStep

\* Webhook calls stay on their way until they arrive somewhere or are lost.
LeavesWire(e) == Arrive(e) \/ ArriveUnknown(e) \/ Lose(e)
WireStep == wire \subseteq wire' \/ \E e \in wire : LeavesWire(e)

LEMMA ServerWire ==
    ASSUME NEW s, NEW token,
           \/ ServerCreate(s) \/ ServerCancel(s) \/ ServerReply(s, token)
           \/ ServerAsks(s, token) \/ ServerRun(s, token) \/ ServerResume(s)
           \/ RunCrashes(s) \/ \E kind \in EndKinds : RunEnds(s, kind)
           \/ \E p : RunAsks(s, p)
           \/ UNCHANGED serverVars
    PROVE  wire \subseteq wire'
BY DEF ServerCreate, ServerCancel, ServerReply, ServerAsks, ServerRun, ServerResume,
       RunCrashes, RunEnds, RunAsks, serverVars

LEMMA StepWire == ASSUME Typed, [Next]_vars PROVE WireStep
<1>0. CASE wire \subseteq wire'
  BY <1>0 DEF WireStep
<1>1. ASSUME NEW h \in Handlers, Call(h) PROVE WireStep
  <2>1. PICK s, reply : ServerDoes(h, s, reply)
    BY <1>1 DEF Call
  <2>2. \/ ServerCreate(s) \/ ServerCancel(s) \/ ServerReply(s, op[h].token)
        \/ ServerAsks(s, op[h].token) \/ ServerRun(s, op[h].token) \/ UNCHANGED serverVars
    BY <2>1 DEF ServerDoes
  <2> QED
    BY <1>0, <2>2, ServerWire
<1>2. ASSUME NEW h \in Handlers, Bridge(h) PROVE WireStep
  BY <1>0, <1>2, ServerWire DEF Bridge
<1>3. CASE WorldStep
  BY <1>0, <1>3, ServerWire DEF WorldStep, ServerStep, AnsweredAtPc
<1>4. ASSUME NEW h \in Handlers, HandlerStep(h) PROVE WireStep
  BY <1>0, <1>1, <1>2, <1>4
     DEF HandlerStep, AskStatus, Learn, Decide, LookupByText, LookupByButton, LoadSelect,
         LoadOther, LoadRefused, CallFails, Commit, Submit, Revert, Resolve, HandlerOnly,
         serverVars
<1>5. CASE \E h \in Handlers, c \in Chats :
              \/ \E kind \in Commands : Begin(h, c, kind)
              \/ \E p \in Prompts : Press(h, c, p)
  BY <1>0, <1>5 DEF Begin, Press, HandlerOnly, serverVars
<1>6. CASE \E e \in wire : Arrive(e) \/ ArriveUnknown(e) \/ Lose(e)
  BY <1>6 DEF WireStep, LeavesWire
<1>7. CASE \E c \in Chats : BeginCandidate(c) \/ ApplyWebhook(c) \/ WatchStep(c)
  BY <1>0, <1>7, ApplyWebhookStep, WatchFrame DEF Watching, serverVars
<1>8. CASE TimerStep \/ UNCHANGED vars
  BY <1>0, <1>8 DEF TimerStep, BeginSweep, StartSweep, serverVars, vars
<1> QED
  BY <1>3, <1>4, <1>5, <1>6, <1>7, <1>8 DEF Next, BotStep

\* The run of session s waits for the answer to prompt p.
WaitsOn(s, p) ==
    remote[s].status = "needs-attention" /\ remote[s].prompt = p /\ remote[s].token = "own"

\* Chat c is linked to session s and hears of it.
Follows(c, s) == Session_(c) = s /\ Token_(s)

\* Handler h is about to give session s an order with the token of its row.
OwnOrder(h, s) ==
    op[h].at = "call" /\ op[h].kind \in {"text", "run"} /\ op[h].token = "own"
    /\ op[h].session = s

\* A row with a token is watched; an order that has the token of a row is given
\* to a session that exists.
OwnBorn ==
    /\ \A s \in Sessions : Token_(s) => Watched(s)
    /\ \A h \in Handlers, s \in Sessions : OwnOrder(h, s) => remote[s].status # "unborn"

\* The session whose row is about to be written was given no order that knows
\* its token.
FreshlyMinted ==
    \A h \in Handlers : Minting(h) =>
        /\ remote[op[h].session].token = "own" => remote[op[h].session].status = "idle"
        /\ \A g \in Handlers : ~OwnOrder(g, op[h].session)

LEMMA OwnOrderStep ==
    ASSUME Typed, [Next]_vars, NEW h \in Handlers, NEW s \in Sessions, OwnOrder(h, s)'
    PROVE  OwnOrder(h, s) \/ Token_(s)
<1>0. op \in [Handlers -> Handler]
  BY DEF Typed, HandlersTyped
<1>1. CASE op'[h] = op[h]
  BY <1>1 DEF OwnOrder
<1>2. ASSUME NEW x \in Handlers, NEW c \in Chats, Begins(x, c), op'[h] # op[h] PROVE FALSE
  BY <1>0, <1>2 DEF Begins, OwnOrder
<1>3. ASSUME NEW x \in Handlers, Proceeds(x), op'[h] # op[h]
      PROVE  OwnOrder(h, s) \/ Token_(s)
  <2>1. x = h
    BY <1>0, <1>3 DEF Proceeds
  <2>2. PICK o : op' = [op EXCEPT ![h] = o] /\ NextMove(h, o)
    BY <1>0, <1>3, <2>1 DEF Proceeds, OwnOrder, Free
  <2>3. /\ op'[h] = o /\ o.at = "call" /\ o.kind \in {"text", "run"}
        /\ o.token = "own" /\ o.session = s
    BY <1>0, <2>2 DEF OwnOrder
  <2>4. CASE op[h].at = "call" /\ o.session = op[h].session /\ o.token = op[h].token
    BY <2>2, <2>3, <2>4 DEF NextMove, OwnOrder
  <2>5. CASE o.token = RegistrationOf(o.session)
    BY <2>3, <2>5 DEF RegistrationOf, Token_
  <2> QED
    BY <2>2, <2>3, <2>4, <2>5 DEF NextMove
<1> QED
  BY <1>1, <1>2, <1>3, StepHandlers DEF HandlersStep

LEMMA TokensWatched ==
    ASSUME Typed, [Next]_vars, \A s \in Sessions : Token_(s) => Watched(s)
    PROVE  \A s \in Sessions : Token_(s)' => Watched(s)'
<1>0. db.session \in [Sessions -> Session]
  BY DEF Typed, Sound, StoreType
<1>1. CASE SameSessions(db, db')
  BY <1>1 DEF SameSessions, Token_, Watched
<1>2. CASE RetryStep
  BY <1>2 DEF RetryStep, SetsRetry, Watched, Token_
<1>3. ASSUME NEW h \in Handlers, Commit(h)
      PROVE  \A s \in Sessions : Token_(s)' => Watched(s)'
  <2> DEFINE u == op[h].session
  <2>1. ASSUME NEW row, SetsSession(db, db', u, row), u \in Sessions, row.token => row.watched
        PROVE  \A s \in Sessions : Token_(s)' => Watched(s)'
    BY <1>0, <2>1 DEF SetsSession, Token_, Watched
  <2>2. WatchedSession.watched /\ ~NoSession.token
    BY DEF WatchedSession, NoSession
  <2>3. u \in Sessions => LET row == [db.session[u] EXCEPT !.terminal = "none"] IN
                          row.token => row.watched
    BY <1>0 DEF Session, Token_, Watched
  <2> QED
    BY <1>1, <1>3, <2>1, <2>2, <2>3, CommitSessions
<1>4. ASSUME NEW c \in Chats, NEW e, NEW by, AppliesEvent(c, e, by)
      PROVE  \A s \in Sessions : Token_(s)' => Watched(s)'
  BY <1>4 DEF AppliesEvent, EventStep, EventSessions, Token_, Watched
<1>5. CASE OnlyPrompts(db, db') \/ \E h \in Handlers : Learn(h)
  BY <1>1, <1>5, LearnRows DEF OnlyPrompts
<1> QED
  BY <1>2, <1>3, <1>4, <1>5, StepRows DEF RowStep

LEMMA OwnBornStep == ASSUME Typed, MintedOnce, OwnBorn, [Next]_vars PROVE OwnBorn'
<1>1. \A s \in Sessions : Token_(s)' => Watched(s)'
  BY TokensWatched DEF OwnBorn
<1>2. ASSUME NEW h \in Handlers, NEW s \in Sessions, OwnOrder(h, s)'
      PROVE  remote'[s].status # "unborn"
  <2>1. OwnOrder(h, s) \/ Token_(s)
    BY <1>2, OwnOrderStep
  <2>2. remote[s].status # "unborn"
    BY <2>1 DEF OwnBorn, MintedOnce
  <2> QED
    BY <2>2, BotBorn DEF BornStays
<1> QED
  BY <1>1, <1>2 DEF OwnBorn

LEMMA AskedRow ==
    ASSUME Typed, NEW s \in Sessions, NEW p, RunAsks(s, p)
    PROVE  /\ remote[s].status = "running"
           /\ remote'[s].prompt = p /\ remote'[s].token = remote[s].token
BY DEF RunAsks, Typed, ServerTypeOK, RemoteSession

LEMMA FreshlyMintedStep ==
    ASSUME Typed, MintedOnce, OwnBorn, FreshlyMinted, [Next]_vars PROVE FreshlyMinted'
<1>1. ASSUME NEW h \in Handlers, Minting(h), NEW s \in Sessions, op[h].session = s
      PROVE  /\ remote'[s].token = "own" => remote'[s].status = "idle"
             /\ \A g \in Handlers : ~OwnOrder(g, s)'
  <2>1. /\ ~Token_(s) /\ remote[s].status # "unborn"
        /\ remote[s].token = "own" => remote[s].status = "idle"
        /\ \A g \in Handlers : ~OwnOrder(g, s)
    BY <1>1 DEF MintedOnce, OwnBorn, FreshlyMinted
  <2>2. \A g \in Handlers : ~OwnOrder(g, s)'
    BY <2>1, OwnOrderStep
  <2>3. CASE RowGoesOn(s)
    BY <2>1, <2>2, <2>3 DEF RowGoesOn, Waiting
  <2>4. CASE \E g \in Handlers : TakesOrder(g, s)
    BY <2>1, <2>2, <2>4 DEF TakesOrder, OwnOrder
  <2>5. CASE \E p : RunAsks(s, p)
    BY <2>1, <2>2, <2>5, AskedRow
  <2>6. ~ServerCreate(s)
    BY <2>1 DEF ServerCreate
  <2> QED
    BY <2>3, <2>4, <2>5, <2>6, StepRemote DEF RemoteStep
<1>2. ASSUME NEW s \in Sessions, ServerCreate(s)
      PROVE  /\ remote'[s].token = "own" => remote'[s].status = "idle"
             /\ \A g \in Handlers : ~OwnOrder(g, s)'
  <2>1. remote[s].status = "unborn" /\ remote'[s].status = "idle"
    BY <1>2 DEF ServerCreate, Typed, ServerTypeOK, RemoteSession
  <2>2. ~Token_(s) /\ \A g \in Handlers : ~OwnOrder(g, s)
    BY <1>2, <2>1 DEF OwnBorn, MintedOnce
  <2> QED
    BY <2>1, <2>2, OwnOrderStep
<1>3. ASSUME NEW h \in Handlers, Minting(h)'
      PROVE  /\ remote'[op'[h].session].token = "own" =>
                   remote'[op'[h].session].status = "idle"
             /\ \A g \in Handlers : ~(OwnOrder(g, op[h].session)')
  <2>1. PICK s \in Sessions : s = op'[h].session
    BY <1>3, NewMint DEF Typed, HandlersTyped, HandlerOK, Minting
  <2>2. (Minting(h) /\ op[h].session = s) \/ ServerCreate(s)
    BY <1>3, <2>1, NewMint
  <2>3. /\ remote'[s].token = "own" => remote'[s].status = "idle"
        /\ \A g \in Handlers : ~OwnOrder(g, s)'
    BY <1>1, <1>2, <2>2
  <2> QED
    BY <2>1, <2>3 DEF OwnOrder
<1> QED
  BY <1>3 DEF FreshlyMinted

\* A run waits for an answer because it did, or because it has just asked.
LEMMA WaitStep ==
    ASSUME Typed, [Next]_vars, NEW s \in Sessions, NEW p \in Prompts, WaitsOn(s, p)'
    PROVE  WaitsOn(s, p) \/ (p \notin asked /\ RunAsks(s, p) /\ UNCHANGED <<botVars, userVars>>)
<1>1. CASE RowGoesOn(s)
  BY <1>1 DEF RowGoesOn, WaitsOn
<1>2. ~ServerCreate(s)
  BY DEF ServerCreate, WaitsOn, Typed, ServerTypeOK, RemoteSession
<1>3. ~\E h \in Handlers : TakesOrder(h, s)
  BY NoneIsNoId DEF TakesOrder, WaitsOn
<1>4. ASSUME NEW q \in (Prompts \ asked) \cup {None},
             RunAsks(s, q), UNCHANGED <<botVars, userVars>>
      PROVE  p \notin asked /\ RunAsks(s, p) /\ UNCHANGED <<botVars, userVars>>
  BY <1>4, AskedRow, NoneIsNoId DEF WaitsOn
<1> QED
  BY <1>1, <1>2, <1>3, <1>4, StepRemote DEF RemoteStep

\* A chat comes to hear of a session that it has just created, where no run
\* waits; or it did before.
LEMMA FollowStep ==
    ASSUME Typed, FreshlyMinted, [Next]_vars, NEW c \in Chats, NEW s \in Sessions, NEW p,
           Follows(c, s)', WaitsOn(s, p)'
    PROVE  Follows(c, s)
<1>0. db.session \in [Sessions -> Session]
  BY DEF Typed, Sound, StoreType
<1>1. ~Mints(s)
  <2>1. ASSUME NEW h \in Handlers, Commit(h), Minting(h), op[h].session = s PROVE FALSE
    <3>1. remote' = remote
      BY <2>1 DEF Commit, HandlerOnly, serverVars
    <3> QED
      BY <2>1, <3>1 DEF FreshlyMinted, WaitsOn
  <2> QED
    BY <2>1 DEF Mints
<1>2. Token_(s)
  BY <1>1, BotMints DEF TokensOnlyMinted, Follows
<1>3. Session_(c) = s
  <2>1. ~SetsSession(db, db', s, NoSession)
    BY <1>0 DEF SetsSession, NoSession, Follows, Token_
  <2> QED
    BY <1>1, <2>1, LinkStep DEF Follows, Mints
<1> QED
  BY <1>2, <1>3 DEF Follows

\* Event e tells that session s asks with prompt p; it is still to be handled
\* for chat c.
AsksFor(e, s, p) ==
    e.kind = "needs-input" /\ e.session = s /\ e.token = "own" /\ e.prompt = p
Coming(c, s, p) ==
    \/ \E e \in wire : AsksFor(e, s, p)
    \/ \E i \in DOMAIN inbox[c] : AsksFor(inbox[c][i], s, p)

\* Prompt p of session s is open, or has an answer that is being given.
IsOpen(p, s) == db.prompt[p].status \in {"active", "submitted"} /\ db.prompt[p].session = s

\* The calls of a session are handled in their order: once the call is handled
\* that asked for the prompt that the run waits on, no other waits in the queue.
CallsInOrder ==
    \A c \in Chats, s \in Sessions, p \in Prompts :
        WaitsOn(s, p) /\ Follows(c, s) /\ ~Coming(c, s, p) =>
            \A i \in DOMAIN inbox[c] : ~(inbox[c][i].session = s /\ inbox[c][i].token = "own")

\* The question a run waits on is on its way to the chat, or open there.
QuestionsKept ==
    \A c \in Chats, s \in Sessions, p \in Prompts :
        WaitsOn(s, p) /\ Follows(c, s) => Coming(c, s, p) \/ IsOpen(p, s)

\* An answer that was taken is not one to the question that a run waits on.
NobodyResolves ==
    \A c \in Chats, s \in Sessions, p \in Prompts, h \in Handlers :
        WaitsOn(s, p) /\ Follows(c, s) => ~(op[h].at = "resolve" /\ op[h].prompt = p)

\* An answer is given to the session that asked.
BridgeKnows ==
    \A h \in Handlers : op[h].at = "bridge" => op[h].session = db.prompt[op[h].prompt].session

Questions == QuestionsKept /\ NobodyResolves /\ BridgeKnows /\ OwnBorn /\ FreshlyMinted

LEMMA Bridging ==
    ASSUME Typed, NEW h \in Handlers, op[h].at \in Answering PROVE op[h].prompt \in Prompts
BY DEF Typed, HandlersTyped, HandlerOK

\* A prompt keeps its session unless its call raises it.
LEMMA SubmitKnows ==
    ASSUME Typed, BridgeKnows, NEW h \in Handlers, Submit(h) PROVE BridgeKnows'
<1>0. op \in [Handlers -> Handler]
  BY DEF Typed, HandlersTyped
<1>1. CASE Aside
  BY <1>1, Bridging DEF Aside, KeepsAnswering, SamePrompts, BridgeKnows, Answering
<1>2. CASE ~Aside
  <2>1. /\ MaySubmit(db, op[h].chat, op[h].prompt) /\ op[h].prompt \in Prompts /\ Others(h)
        /\ KeepsPlaces(db, db') /\ op'[h].at = "bridge" /\ op'[h].prompt = op[h].prompt
    BY <1>2, SubmitStep
  <2>2. op'[h].session = db.prompt[op[h].prompt].session
    <3>1. op' = [op EXCEPT ![h].at = "bridge", ![h].session = db.prompt[op[h].prompt].session]
      BY <2>1 DEF Submit
    <3> QED
      BY <1>0, <3>1 DEF Handler
  <2> QED
    BY <2>1, <2>2, Bridging
       DEF BridgeKnows, Others, KeepsPlaces, SamePlace, Answering
<1> QED
  BY <1>1, <1>2

\* Where a handler comes from that has an answer to give, or that was taken.
LEMMA BridgeFrom ==
    ASSUME Typed, NEW h \in Handlers, Bridge(h)
    PROVE  /\ op'[h].session = op[h].session
           /\ op'[h].at = "resolve" =>
                 IF /\ remote[op[h].session].status = "needs-attention"
                    /\ remote[op[h].session].prompt = op[h].prompt
                 THEN ServerResume(op[h].session) ELSE UNCHANGED serverVars
<1>0. op \in [Handlers -> Handler] /\ op[h].at = "bridge"
  BY DEF Typed, HandlersTyped, Bridge
<1>1. ASSUME NEW f, Fails(h, f, "revert")
      PROVE  op'[h].session = op[h].session /\ op'[h].at # "resolve"
  <2>1. op' = [op EXCEPT ![h].posts = op[h].posts + 1] \/ op' = [op EXCEPT ![h].at = "revert"]
    BY <1>1 DEF Fails, Goes
  <2> QED
    BY <1>0, <2>1 DEF Handler
<1>2. Goes(h, "resolve") => op'[h].session = op[h].session
  BY <1>0 DEF Goes, Handler
<1>3. Goes(h, "resolve") \/ \E f : Fails(h, f, "revert")
  BY DEF Bridge
<1>4. \/ \E f : Fails(h, f, "revert")
      \/ IF /\ remote[op[h].session].status = "needs-attention"
            /\ remote[op[h].session].prompt = op[h].prompt
         THEN ServerResume(op[h].session) ELSE UNCHANGED serverVars
  BY DEF Bridge
<1> QED
  BY <1>1, <1>2, <1>3, <1>4

LEMMA KnowsStep ==
    ASSUME Typed, OnceEach, BridgeKnows, [Next]_vars PROVE BridgeKnows'
<1>1. CASE Aside
  BY <1>1, Bridging DEF Aside, KeepsAnswering, SamePrompts, BridgeKnows, Answering
<1>2. ASSUME NEW h \in Handlers, Bridge(h) PROVE BridgeKnows'
  BY <1>2, BridgeStep, BridgeFrom DEF BridgeKnows, Others
<1>3. ASSUME NEW h \in Handlers, Revert(h) \/ Resolve(h) PROVE BridgeKnows'
  BY <1>3, SettleStep, Bridging
     DEF BridgeKnows, Others, KeepsPlaces, SamePlace, Answering
<1>4. ASSUME op' = op,
             \A p \in Prompts : \/ db'.prompt[p].session = db.prompt[p].session
                                \/ db.prompt[p].status = "none"
      PROVE  BridgeKnows'
  BY <1>4, Bridging DEF BridgeKnows, OnceEach, AnsweringAlone, Answering
<1>5. ASSUME NEW c \in Chats, Watching(c) PROVE BridgeKnows'
  BY <1>4, <1>5, WatchNothingNew, WatchPrompts, TrackPromptMessageStep, TrackPromptCleanupStep
     DEF ClosesPrompts, KeepsPlaces, SamePlace, KeepsStatus
<1>6. ASSUME NEW c \in Chats, ApplyWebhook(c) PROVE BridgeKnows'
  <2> DEFINE e == Head(inbox[c])
  <2>1. e.prompt \in Prompts => db.prompt[e.prompt].status = "none"
    <3>1. inbox[c] \in Seq(Event) /\ inbox[c] # <<>>
      BY <1>6 DEF Typed, QueuesTyped, ApplyWebhook
    <3>2. e = inbox[c][1] /\ 1 \in DOMAIN inbox[c] /\ 1 \in Nat
      BY <3>1, HeadTailProperties
    <3> QED
      BY <3>2 DEF OnceEach, NotYetRaised, Waits
  <2>2. op' = op
    BY <1>6, ApplyWebhookStep
  <2>3. \/ ClosesPrompts(db, db')
        \/ e.prompt \in Prompts /\ RaisesOne(db, db', e.prompt, e.session, c)
    BY <1>6, ApplyWebhookPrompts
  <2> HIDE DEF e
  <2> QED
    BY <1>4, <2>1, <2>2, <2>3 DEF ClosesPrompts, KeepsPlaces, SamePlace, RaisesOne
<1>7. CASE \/ \E e \in wire : Arrive(e)
           \/ \E s \in Sessions, p \in (Prompts \ asked) \cup {None} :
                 RunAsks(s, p) /\ UNCHANGED <<botVars, userVars>>
  BY <1>4, <1>7, ArriveFrame, AsksFrame
<1> QED
  BY <1>1, <1>2, <1>3, <1>5, <1>6, <1>7, SubmitKnows, StepAside DEF PromptStep, Watching

\* A question that waits to be handled was not raised.
LEMMA ComingIsNew ==
    ASSUME Typed, OnceEach, NEW c \in Chats, NEW s, NEW p \in Prompts, Coming(c, s, p)
    PROVE  db.prompt[p].status = "none"
<1>1. inbox[c] \in Seq(Event)
  BY DEF Typed, QueuesTyped
<1>2. \A i \in DOMAIN inbox[c] : i \in Nat
  BY <1>1
<1> QED
  BY <1>2 DEF Coming, AsksFor, OnceEach, NotYetRaised, Waits

\* Where no sweep runs, only events and handlers change an open prompt.
LEMMA WatchKeepsOpen ==
    ASSUME Typed, NoticesClosed, OnBehalf, Sweeps = {}, NEW c \in Chats, Watching(c),
           NEW p \in Prompts, NEW s, IsOpen(p, s)
    PROVE  IsOpen(p, s)'
<1>1. work[c].at \notin Probing /\ ~BeginCandidate(c)
  BY DEF OnBehalf, BeginCandidate
<1>2. CASE ShowPrompt(c) \/ CleanKeyboard(c) \/ Say(c) \/ NoticeFails(c) \/ TrackFails(c)
  BY <1>2 DEF ShowPrompt, CleanKeyboard, Say, NoticeFails, TrackFails, NoticeEnds, IsOpen
<1>3. CASE TrackPromptMessage(c)
  BY <1>3, TrackPromptMessageStep DEF KeepsStatus, IsOpen
<1>4. CASE TrackPromptCleanup(c)
  BY <1>4, TrackPromptCleanupStep
     DEF NoticesClosed, NoticeClosed, MovesOne, KeepsPlaces, SamePlace, IsOpen
<1> QED
  BY <1>1, <1>2, <1>3, <1>4
     DEF Watching, WatchStep, AskRemote, ReactToFailure, React, TouchSession, Conclude, Probing

\* The call that asks is accepted, and opens the prompt.
LEMMA AskingOpens ==
    ASSUME Typed, HumanPrompts = TRUE, NEW c \in Chats, NEW s \in Sessions, NEW p \in Prompts,
           Follows(c, s), ApplyWebhook(c), AsksFor(Head(inbox[c]), s, p)
    PROVE  IsOpen(p, s)'
<1> DEFINE e == Head(inbox[c])
<1>1. AsksFor(e, s, p)
  OBVIOUS
<1>2. Mutate(c, e, "webhook")
  BY DEF ApplyWebhook
<1> HIDE DEF e
<1>3. Accepts(db, c, e, "webhook")
  BY <1>1 DEF AsksFor, Follows, Session_, Token_, Accepts, Authorized, Duplicate, Terminals, Bound
<1>4. Mutates(c, e, "webhook")
  BY <1>2, <1>3 DEF Mutate, Mutates, SourceOf, After
<1>5. EventStep(c, e, "webhook")
  BY <1>1, <1>4, MutatesEffect DEF AsksFor, Typed
<1>6. RaisesOne(db, db', p, s, c)
  BY <1>1, <1>5 DEF AsksFor, EventStep
<1> QED
  BY <1>6 DEF RaisesOne, IsOpen

LEMMA WebhookKeepsOpen ==
    ASSUME Typed, OnceEach, Unshared, CallsInOrder, NEW c \in Chats, NEW s \in Sessions,
           NEW p \in Prompts, WaitsOn(s, p), Follows(c, s), IsOpen(p, s),
           NEW d \in Chats, ApplyWebhook(d)
    PROVE  IsOpen(p, s)'
<1> DEFINE e == Head(inbox[d])
<1>1. inbox[d] \in Seq(Event) /\ inbox[d] # <<>>
  BY DEF Typed, QueuesTyped, ApplyWebhook
<1>2. e = inbox[d][1] /\ 1 \in DOMAIN inbox[d] /\ 1 \in Nat
  BY <1>1, HeadTailProperties
<1>3. \/ db' = db
      \/ EventStep(d, e, "webhook") /\ Accepts(db, d, e, "webhook")
  BY ApplyWebhookStep
<1>4. ~Coming(c, s, p)
  BY ComingIsNew DEF IsOpen
<1>5. e.prompt # p
  BY <1>2 DEF OnceEach, NotYetRaised, Waits, IsOpen
<1>6. Accepts(db, d, e, "webhook") => e.session # s
  <2>1. SUFFICES ASSUME Accepts(db, d, e, "webhook"), e.session = s PROVE FALSE
    OBVIOUS
  <2>2. e.token = "own" /\ Session_(d) = s
    BY <2>1 DEF Accepts, Authorized, Bound, Session_
  <2>3. d = c
    BY <2>2, NoneIsNoId DEF Unshared, Follows
  <2> QED
    BY <1>2, <1>4, <2>1, <2>2, <2>3 DEF CallsInOrder
<1> HIDE DEF e
<1>7. CASE EventStep(d, e, "webhook") /\ e.session # s
  <2>1. db'.prompt[p].status = db.prompt[p].status
    BY <1>5, <1>7 DEF EventStep, LeavesOthers, IsOpen
  <2>2. db'.prompt[p].session = db.prompt[p].session
    BY <1>5, <1>7 DEF EventStep, ClosesPrompts, KeepsPlaces, SamePlace, RaisesOne
  <2> QED
    BY <2>1, <2>2 DEF IsOpen
<1> QED
  BY <1>3, <1>6, <1>7 DEF IsOpen

\* A question that is open stays so while its run waits.
LEMMA OpenStays ==
    ASSUME Typed, OnceEach, OnBehalf, Unshared, CallsInOrder, NobodyResolves, Sweeps = {},
           NEW c \in Chats, NEW s \in Sessions, NEW p \in Prompts,
           WaitsOn(s, p), Follows(c, s), IsOpen(p, s), [Next]_vars
    PROVE  IsOpen(p, s)'
<1>1. CASE Aside
  BY <1>1 DEF Aside, SamePrompts, IsOpen
<1>2. ASSUME NEW h \in Handlers, Submit(h) PROVE IsOpen(p, s)'
  BY <1>1, <1>2, SubmitStep DEF KeepsPlaces, SamePlace, MovesOne, IsOpen
<1>3. ASSUME NEW h \in Handlers, Revert(h) \/ Resolve(h) PROVE IsOpen(p, s)'
  <2>1. op[h].at = "resolve" => op[h].prompt # p
    BY DEF NobodyResolves
  <2> QED
    BY <1>3, <2>1, SettleStep DEF KeepsPlaces, SamePlace, MovesOne, IsOpen
<1>4. ASSUME db' = db PROVE IsOpen(p, s)'
  BY <1>4 DEF IsOpen
<1>5. ASSUME NEW d \in Chats, Watching(d) \/ ApplyWebhook(d) PROVE IsOpen(p, s)'
  BY <1>5, WatchKeepsOpen, WebhookKeepsOpen DEF OnceEach
<1>6. CASE \/ \E h \in Handlers : Bridge(h)
           \/ \E e \in wire : Arrive(e)
           \/ \E u \in Sessions, q \in (Prompts \ asked) \cup {None} :
                 RunAsks(u, q) /\ UNCHANGED <<botVars, userVars>>
  BY <1>4, <1>6, BridgeStep, ArriveFrame, AsksFrame
<1> QED
  BY <1>1, <1>2, <1>3, <1>5, <1>6, StepAside DEF PromptStep, Watching

\* What becomes of the queue of a chat.
QueueStep(c) ==
    \/ inbox'[c] = inbox[c]
    \/ \E e \in wire : inbox'[c] = Append(inbox[c], e)
    \/ ApplyWebhook(c) /\ inbox'[c] = Tail(inbox[c])

LEMMA StepQueue == ASSUME Typed, [Next]_vars, NEW c \in Chats PROVE QueueStep(c)
<1>0. inbox \in [Chats -> Seq(Event)]
  BY DEF Typed, QueuesTyped
<1>1. CASE inbox' = inbox
  BY <1>1 DEF QueueStep
<1>2. ASSUME NEW h \in Handlers, Submit(h) \/ Bridge(h) \/ Revert(h) \/ Resolve(h)
      PROVE  inbox' = inbox
  BY <1>2 DEF Submit, Bridge, Revert, Resolve, HandlerOnly
<1>3. ASSUME NEW d \in Chats, Watching(d) PROVE inbox' = inbox
  BY <1>3, WatchFrame
<1>4. ASSUME NEW d \in Chats, ApplyWebhook(d) PROVE QueueStep(c)
  BY <1>0, <1>4 DEF ApplyWebhook, QueueStep
<1>5. ASSUME NEW e \in wire, Arrive(e) PROVE QueueStep(c)
  BY <1>0, <1>5 DEF Arrive, QueueStep
<1>6. CASE Aside \/ \E u \in Sessions, q \in (Prompts \ asked) \cup {None} :
                 RunAsks(u, q) /\ UNCHANGED <<botVars, userVars>>
  BY <1>1, <1>6, AsksFrame DEF Aside
<1> QED
  BY <1>1, <1>2, <1>3, <1>4, <1>5, <1>6, StepAside DEF PromptStep, Watching

LEMMA QueuedStays ==
    ASSUME Typed, HumanPrompts = TRUE, NEW c \in Chats, NEW s \in Sessions, NEW p \in Prompts,
           Follows(c, s), [Next]_vars,
           NEW i \in DOMAIN inbox[c], AsksFor(inbox[c][i], s, p)
    PROVE  Coming(c, s, p)' \/ IsOpen(p, s)'
<1>0. inbox[c] \in Seq(Event) /\ DOMAIN inbox[c] = 1..Len(inbox[c]) /\ Len(inbox[c]) \in Nat
  BY DEF Typed, QueuesTyped
<1>1. CASE inbox'[c] = inbox[c]
  BY <1>1 DEF Coming, AsksFor
<1>2. ASSUME NEW e \in wire, inbox'[c] = Append(inbox[c], e) PROVE Coming(c, s, p)'
  <2>1. e \in Event
    BY DEF Typed, ServerTypeOK
  <2>2. i \in DOMAIN inbox'[c] /\ inbox'[c][i] = inbox[c][i]
    BY <1>0, <1>2, <2>1, AppendProperties
  <2> QED
    BY <2>2 DEF Coming, AsksFor
<1>3. CASE ApplyWebhook(c) /\ inbox'[c] = Tail(inbox[c])
  <2>0. inbox[c] # <<>>
    BY <1>3 DEF ApplyWebhook
  <2>1. CASE i = 1
    <3>1. AsksFor(Head(inbox[c]), s, p)
      BY <1>0, <2>0, <2>1, HeadTailProperties
    <3> QED
      BY <1>3, <3>1, AskingOpens
  <2>2. CASE i # 1
    <3>1. i - 1 \in DOMAIN inbox'[c] /\ inbox'[c][i - 1] = inbox[c][i]
      BY <1>0, <1>3, <2>0, <2>2, HeadTailProperties
    <3> QED
      BY <3>1 DEF Coming, AsksFor
  <2> QED
    BY <2>1, <2>2
<1> QED
  BY <1>1, <1>2, <1>3, StepQueue DEF QueueStep

LEMMA WireStays ==
    ASSUME Typed, Unshared, "webhook" \notin Faults, NEW c \in Chats, NEW s \in Sessions,
           NEW p \in Prompts, Follows(c, s), [Next]_vars, NEW e \in wire, AsksFor(e, s, p)
    PROVE  Coming(c, s, p)'
<1>1. CASE e \in wire'
  BY <1>1 DEF Coming, AsksFor
<1>2. ASSUME NEW f \in wire, LeavesWire(f), e \notin wire' PROVE Coming(c, s, p)'
  <2>1. f = e
    BY <1>2 DEF LeavesWire, Arrive, Taken, ArriveUnknown, Lose
  <2>2. Arrive(e)
    BY <1>2, <2>1 DEF LeavesWire, ArriveUnknown, Lose, Follows, Session_, AsksFor
  <2>3. PICK d \in Chats : /\ db.binding[d].session = e.session
                           /\ inbox' = [inbox EXCEPT ![d] = Append(inbox[d], e)]
    BY <2>2 DEF Arrive
  <2>4. d = c
    BY <2>3, NoneIsNoId DEF Unshared, Follows, Session_, AsksFor
  <2>5. inbox[c] \in Seq(Event) /\ e \in Event /\ inbox'[c] = Append(inbox[c], e)
    BY <2>3, <2>4 DEF Typed, QueuesTyped, ServerTypeOK
  <2>6. Len(inbox[c]) + 1 \in DOMAIN inbox'[c] /\ inbox'[c][Len(inbox[c]) + 1] = e
    BY <2>5, AppendProperties
  <2> QED
    BY <2>6 DEF Coming, AsksFor
<1> QED
  BY <1>1, <1>2, StepWire DEF WireStep

\* The call that a new question makes.
LEMMA NewQuestion ==
    ASSUME Typed, NEW c \in Chats, NEW s \in Sessions, NEW p \in Prompts,
           RunAsks(s, p), remote[s].token = "own"
    PROVE  Coming(c, s, p)'
<1> DEFINE r == [kind |-> "needs-input", session |-> s, token |-> "own",
                 prompt |-> None, run |-> remote[s].task]
<1>1. Reports(s, "own", remote[s].task, {"needs-input"}) = {r}
  BY DEF Reports
<1>2. [r EXCEPT !.prompt = p] \in wire'
  BY <1>1 DEF RunAsks
<1>3. AsksFor([r EXCEPT !.prompt = p], s, p)
  BY DEF AsksFor
<1> QED
  BY <1>2, <1>3 DEF Coming, AsksFor

LEMMA KeptStep ==
    ASSUME Typed, OnceEach, OnBehalf, Unshared, CallsInOrder, Questions, [Next]_vars,
           HumanPrompts = TRUE, Sweeps = {}, "webhook" \notin Faults
    PROVE  QuestionsKept'
<1> SUFFICES ASSUME NEW c \in Chats, NEW s \in Sessions, NEW p \in Prompts,
                    WaitsOn(s, p)', Follows(c, s)'
             PROVE  Coming(c, s, p)' \/ IsOpen(p, s)'
  BY DEF QuestionsKept
<1>1. Follows(c, s)
  BY FollowStep DEF Questions
<1>2. CASE WaitsOn(s, p)
  <2>1. CASE IsOpen(p, s)
    BY <1>1, <1>2, <2>1, OpenStays DEF Questions
  <2>2. CASE Coming(c, s, p)
    BY <1>1, <2>2, QueuedStays, WireStays DEF Coming
  <2> QED
    BY <1>1, <1>2, <2>1, <2>2 DEF Questions, QuestionsKept
<1>3. CASE RunAsks(s, p)
  <2>1. remote[s].token = "own"
    BY <1>3, AskedRow DEF WaitsOn
  <2> QED
    BY <1>3, <2>1, NewQuestion
<1> QED
  BY <1>2, <1>3, WaitStep

\* A handler knows that its answer was taken because it did, or has just heard.
LEMMA ResolveFrom ==
    ASSUME Typed, [Next]_vars, NEW h \in Handlers, op'[h].at = "resolve"
    PROVE  op'[h] = op[h] \/ (Bridge(h) /\ op'[h].prompt = op[h].prompt)
<1>1. CASE Aside \/ op' = op
  BY <1>1 DEF Aside, KeepsAnswering, Answering
<1>2. ASSUME NEW g \in Handlers, Submit(g) PROVE op'[h] = op[h]
  BY <1>2, SubmitStep DEF Aside, KeepsAnswering, Others, Answering
<1>3. ASSUME NEW g \in Handlers, Revert(g) \/ Resolve(g) PROVE op'[h] = op[h]
  BY <1>3, SettleStep DEF Others, Answering
<1>4. ASSUME NEW g \in Handlers, Bridge(g)
      PROVE  op'[h] = op[h] \/ (Bridge(h) /\ op'[h].prompt = op[h].prompt)
  BY <1>4, BridgeStep DEF Others
<1>5. CASE \/ \E e \in wire : Arrive(e)
           \/ \E c \in Chats : BeginCandidate(c) \/ ApplyWebhook(c) \/ WatchStep(c)
           \/ \E s \in Sessions, p \in (Prompts \ asked) \cup {None} :
                 RunAsks(s, p) /\ UNCHANGED <<botVars, userVars>>
  BY <1>1, <1>5, ArriveFrame, WatchNothingNew, AsksFrame DEF Watching
<1> QED
  BY <1>1, <1>2, <1>3, <1>4, <1>5, StepAside DEF PromptStep

LEMMA ResolvesStep ==
    ASSUME Typed, OnceEach, Questions, [Next]_vars PROVE NobodyResolves'
<1> SUFFICES ASSUME NEW c \in Chats, NEW s \in Sessions, NEW p \in Prompts, NEW h \in Handlers,
                    WaitsOn(s, p)', Follows(c, s)', op'[h].at = "resolve", op'[h].prompt = p
             PROVE  FALSE
  BY DEF NobodyResolves
<1>1. Follows(c, s)
  BY FollowStep DEF Questions
<1>2. op[h].at \in Answering /\ op[h].prompt = p
  BY ResolveFrom DEF Bridge, Answering
<1>3. db.prompt[p].status \in {"submitted", "invalidated"}
  BY <1>2 DEF OnceEach, AnsweringAlone
<1>4. WaitsOn(s, p)
  BY <1>3, WaitStep DEF OnceEach, NotYetRaised
<1>5. Bridge(h)
  BY <1>1, <1>2, <1>4, ResolveFrom DEF Questions, NobodyResolves
<1>6. IsOpen(p, s)
  BY <1>1, <1>3, <1>4, ComingIsNew DEF Questions, QuestionsKept
<1>7. op[h].session = s
  BY <1>2, <1>5, <1>6 DEF Bridge, Questions, BridgeKnows, IsOpen
<1>8. ServerResume(s)
  BY <1>2, <1>4, <1>5, <1>7, BridgeFrom DEF WaitsOn
<1> QED
  BY <1>8 DEF ServerResume, WaitsOn, Typed, ServerTypeOK, RemoteSession

LEMMA QuestionsStep ==
    ASSUME Typed, OnceEach, MintedOnce, OnBehalf, Unshared, CallsInOrder, Questions, [Next]_vars,
           HumanPrompts = TRUE, Sweeps = {}, "webhook" \notin Faults
    PROVE  Questions'
<1>1. QuestionsKept' /\ NobodyResolves'
  BY KeptStep, ResolvesStep
<1>2. BridgeKnows'
  BY KnowsStep DEF Questions
<1>3. OwnBorn' /\ FreshlyMinted'
  BY OwnBornStep, FreshlyMintedStep DEF Questions
<1> QED
  BY <1>1, <1>2, <1>3 DEF Questions

LEMMA InitQuestions == Init => Questions
BY DEF Init, ServerInit, EmptyStore, NoSession, Free, Questions, QuestionsKept, NobodyResolves,
       BridgeKnows, OwnBorn, FreshlyMinted, WaitsOn, Follows, Token_, OwnOrder, Minting

\* Where nothing is on its way the question is open, and nobody has an answer.
LEMMA QuietIsOpen == ASSUME Owned, Questions PROVE QuestionIsOpen
<1> SUFFICES ASSUME Quiet, NEW s \in Sessions, NEW c \in Chats, NEW p \in Prompts,
                    WaitsOn(s, p), Follows(c, s)
             PROVE  db.prompt[p].status = "active"
  BY DEF QuestionIsOpen, WaitsOn, Follows
<1>1. ~Coming(c, s, p)
  BY DEF Quiet, Coming
<1>2. IsOpen(p, s)
  BY <1>1 DEF Questions, QuestionsKept
<1>3. db.prompt[p].status # "submitted"
  BY DEF Quiet, Owned, Owner, Answering, Free
<1> QED
  BY <1>2, <1>3 DEF IsOpen

\* With human prompts, when each webhook call comes once and the calls of a
\* session are handled in their order, where no sweep runs and no two chats are
\* linked to one session, a question that a run waits on is open for its chat
\* once nothing is on its way: the call that asks for it is never turned away,
\* no other call closes it, an answer that was refused or not heard of leaves it
\* open, and none that was taken leaves the run waiting.  An older call of the
\* session, or a verdict of the watchdog, that is handled after the question
\* would close it under the run that waits.
THEOREM QuestionsStayOpen ==
    ASSUME HumanPrompts = TRUE, Sweeps = {}, "webhook" \notin Faults
    PROVE  Spec /\ []Unshared /\ []CallsInOrder => []QuestionIsOpen
<1>1. /\ Typed /\ OnceEach /\ MintedOnce /\ OnBehalf /\ Unshared /\ CallsInOrder /\ Questions
      /\ [Next]_vars
      => Questions'
  BY QuestionsStep
<1>2. Typed /\ MintedOnce /\ [Next]_vars => MintedOnce'
  BY MintStep
<1>3. Typed /\ OnBehalf /\ [Next]_vars => OnBehalf'
  BY BehalfStep
<1>4. Typed /\ Owned /\ [Next]_vars => Owned'
  BY OwnedStep
<1>5. Init => Questions /\ MintedOnce /\ OnBehalf /\ Owned
  <2>1. Init => OnBehalf
    BY InitCounting DEF Counting
  <2>2. Init => Owned
    BY DEF Init, EmptyStore, NoPrompt, Owned
  <2> QED
    BY <2>1, <2>2, InitQuestions, InitMint
<1>6. Spec => [](Typed /\ OnceEach)
  BY AlwaysOnce
<1>7. Owned /\ Questions => QuestionIsOpen
  BY QuietIsOpen
<1> QED
  BY <1>1, <1>2, <1>3, <1>4, <1>5, <1>6, <1>7, PTL DEF Spec
=============================================================================
