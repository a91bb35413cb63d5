----------------------------- MODULE StoreProofs ----------------------------
(***************************************************************************)
(* What the transactions of the store return, whatever the sizes of the    *)
(* sets: rows of the right type, the rows they leave alone, and how they   *)
(* move the prompts.                                                       *)
(***************************************************************************)
EXTENDS UseCases, Watcher, BootRecovery, SqliteRows, TLAPS

\* A prompt of a chat is a prompt of a session.
Placed(row) == row.chat \in Chats => row.session \in Sessions

Sound(d) == d \in StoreType /\ \A p \in Prompts : Placed(d.prompt[p])

\* What a transaction from d to e leaves alone.
SameProjects(d, e) == e.projects = d.projects
SameBindings(d, e) == e.binding = d.binding
SameStates(d, e) == e.state = d.state
SameSessions(d, e) == e.session = d.session
SameTasks(d, e) == e.task = d.task
SamePrompts(d, e) == e.prompt = d.prompt
OnlyPrompts(d, e) ==
    SameBindings(d, e) /\ SameStates(d, e) /\ SameSessions(d, e) /\ SameTasks(d, e)
OnlyTasks(d, e) ==
    SameBindings(d, e) /\ SameStates(d, e) /\ SameSessions(d, e) /\ SamePrompts(d, e)
OnlyStates(d, e) ==
    SameBindings(d, e) /\ SameSessions(d, e) /\ SameTasks(d, e) /\ SamePrompts(d, e)
OnlyBindings(d, e) ==
    SameStates(d, e) /\ SameSessions(d, e) /\ SameTasks(d, e) /\ SamePrompts(d, e)
OnlySessions(d, e) ==
    SameBindings(d, e) /\ SameStates(d, e) /\ SameTasks(d, e) /\ SamePrompts(d, e)

\* The row of chat c or of session s is replaced.
SetsBinding(d, e, c, row) == e.binding = [d.binding EXCEPT ![c] = row]
SetsState(d, e, c, row) == e.state = [d.state EXCEPT ![c] = row]
SetsSession(d, e, s, row) == e.session = [d.session EXCEPT ![s] = row]

\* Tasks keep their session, are not forgotten and do not run again, but for
\* task t, which has a row of session s, if it is a task.
KeepsTasksBut(d, e, t) ==
    \A u \in Tasks : u # t =>
        /\ e.task[u].session = d.task[u].session
        /\ e.task[u].status = "none" <=> d.task[u].status = "none"
        /\ InProgress(e, u) => InProgress(d, u)
KeepsTasks(d, e) == KeepsTasksBut(d, e, None)
HasTaskOf(e, t, s) ==
    t \in Tasks => e.task[t].session = s /\ e.task[t].status # "none"

\* A prompt keeps all that says where it belongs and where it is shown.
SamePlace(old, new) ==
    new.session = old.session /\ new.chat = old.chat /\ new.message = old.message
KeepsPlaces(d, e) == \A q \in Prompts : SamePlace(d.prompt[q], e.prompt[q])

\* Only prompt p has another status, if it had the status from.
MovesOne(d, e, p, from, to) ==
    \A q \in Prompts :
        e.prompt[q].status = IF q = p /\ d.prompt[q].status = from
                             THEN to ELSE d.prompt[q].status

\* An open or answered prompt is closed without an answer, or left as it is.
Closed(old, new) ==
    \/ new.status = old.status
    \/ old.status = "active" /\ new.status \in {"invalidated", "expired", "cancelled"}
    \/ old.status = "submitted" /\ new.status = "invalidated"

ClosesPrompts(d, e) ==
    KeepsPlaces(d, e) /\ \A p \in Prompts : Closed(d.prompt[p], e.prompt[p])

\* Everything of a prompt but its message stays.
KeepsStatus(d, e) ==
    \A q \in Prompts :
        /\ e.prompt[q].session = d.prompt[q].session
        /\ e.prompt[q].chat = d.prompt[q].chat
        /\ e.prompt[q].status = d.prompt[q].status

\* The prompts of other sessions than s keep their status, but for prompt p.
LeavesOthers(d, e, s, p) ==
    \A q \in Prompts : q # p /\ d.prompt[q].session # s =>
        e.prompt[q].status = d.prompt[q].status

\* Only the number of failed attempts of session s changes.
SetsRetry(d, e, s) ==
    \A u \in Sessions :
        /\ e.session[u].token = d.session[u].token
        /\ e.session[u].watched = d.session[u].watched
        /\ e.session[u].terminal = d.session[u].terminal
        /\ u # s => e.session[u] = d.session[u]

\* A store with one row replaced.
WithPrompt(d, p, row) == [d EXCEPT !.prompt[p] = row]
WithTask(d, t, row) == [d EXCEPT !.task[t] = row]
WithState(d, c, row) == [d EXCEPT !.state[c] = row]
WithBinding(d, c, row) == [d EXCEPT !.binding[c] = row]
WithSession(d, s, row) == [d EXCEPT !.session[s] = row]

-----------------------------------------------------------------------------
(* Rows                                                                    *)

LEMMA NoneIsNoId ==
    /\ None \notin Projects /\ None \notin Sessions /\ None \notin Tasks
    /\ None \notin Prompts /\ None \notin Chats
BY StoreAssumption

LEMMA SomeRetry == 0 \in 0..MaxRetry
BY StoreAssumption

LEMMA WritePrompt ==
    ASSUME NEW d, d \in StoreType, NEW p \in Prompts, NEW row \in Prompt
    PROVE  /\ WithPrompt(d, p, row) \in StoreType
           /\ OnlyPrompts(d, WithPrompt(d, p, row))
           /\ WithPrompt(d, p, row).prompt = [d.prompt EXCEPT ![p] = row]
BY DEF WithPrompt, StoreType, OnlyPrompts, SameBindings, SameStates, SameSessions, SameTasks

LEMMA WriteState ==
    ASSUME NEW d, d \in StoreType, NEW c \in Chats, NEW row \in State
    PROVE  /\ WithState(d, c, row) \in StoreType
           /\ OnlyStates(d, WithState(d, c, row))
           /\ SetsState(d, WithState(d, c, row), c, row)
BY DEF WithState, StoreType, OnlyStates, SetsState, SameBindings, SameSessions, SameTasks,
       SamePrompts

LEMMA WriteBinding ==
    ASSUME NEW d, d \in StoreType, NEW c \in Chats, NEW row \in Binding
    PROVE  /\ WithBinding(d, c, row) \in StoreType
           /\ OnlyBindings(d, WithBinding(d, c, row))
           /\ SetsBinding(d, WithBinding(d, c, row), c, row)
BY DEF WithBinding, StoreType, OnlyBindings, SetsBinding, SameStates, SameSessions, SameTasks,
       SamePrompts

LEMMA WriteSession ==
    ASSUME NEW d, d \in StoreType, NEW s \in Sessions, NEW row \in Session
    PROVE  /\ WithSession(d, s, row) \in StoreType
           /\ OnlySessions(d, WithSession(d, s, row))
           /\ SetsSession(d, WithSession(d, s, row), s, row)
BY DEF WithSession, StoreType, OnlySessions, SetsSession, SameBindings, SameStates, SameTasks,
       SamePrompts

\* compareAndSetStatus moves one prompt, and only from the status it expects.
LEMMA CompareAndSetEffect ==
    ASSUME NEW d, d \in StoreType, NEW p, NEW from, NEW to, to \in PromptStatus
    PROVE  /\ CompareAndSet(d, p, from, to) \in StoreType
           /\ OnlyPrompts(d, CompareAndSet(d, p, from, to))
           /\ KeepsPlaces(d, CompareAndSet(d, p, from, to))
           /\ MovesOne(d, CompareAndSet(d, p, from, to), p, from, to)
<1> DEFINE e == CompareAndSet(d, p, from, to)
<1>1. CASE p \in Prompts /\ d.prompt[p].status = from
  <2> DEFINE b == d.prompt[p].pressed /\ to # "active"
             row == [d.prompt[p] EXCEPT !.status = to, !.pressed = b]
  <2>1. b \in BOOLEAN
    OBVIOUS
  <2>2. e = WithPrompt(d, p, row)
    BY <1>1 DEF CompareAndSet, WithPrompt
  <2> HIDE DEF b
  <2>3. d.prompt \in [Prompts -> Prompt]
    BY DEF StoreType
  <2>4. d.prompt[p] \in Prompt
    BY <1>1, <2>3
  <2>5. row \in Prompt /\ row.status = to /\ SamePlace(d.prompt[p], row)
    BY <2>1, <2>4 DEF Prompt, SamePlace
  <2> HIDE DEF row, e
  <2>6. e \in StoreType /\ OnlyPrompts(d, e) /\ e.prompt = [d.prompt EXCEPT ![p] = row]
    BY <1>1, <2>2, <2>5, WritePrompt
  <2>7. KeepsPlaces(d, e) /\ MovesOne(d, e, p, from, to)
    BY <1>1, <2>3, <2>5, <2>6 DEF KeepsPlaces, MovesOne, SamePlace
  <2> QED
    BY <2>6, <2>7 DEF e
<1>2. CASE ~(p \in Prompts /\ d.prompt[p].status = from)
  <2>1. e = d
    BY <1>2 DEF CompareAndSet
  <2> HIDE DEF e
  <2>2. e \in StoreType /\ OnlyPrompts(d, e) /\ KeepsPlaces(d, e) /\ MovesOne(d, e, p, from, to)
    BY <1>2, <2>1 DEF OnlyPrompts, SameBindings, SameStates, SameSessions, SameTasks,
                      KeepsPlaces, SamePlace, MovesOne
  <2> QED
    BY <2>2 DEF e
<1> QED
  BY <1>1, <1>2

\* A compare-and-set never brings a prompt into being.
LEMMA CompareAndSetSound ==
    ASSUME NEW d, Sound(d), NEW p, NEW from, NEW to, to \in PromptStatus
    PROVE  /\ Sound(CompareAndSet(d, p, from, to))
           /\ OnlyPrompts(d, CompareAndSet(d, p, from, to))
           /\ KeepsPlaces(d, CompareAndSet(d, p, from, to))
           /\ MovesOne(d, CompareAndSet(d, p, from, to), p, from, to)
<1> DEFINE e == CompareAndSet(d, p, from, to)
<1>1. /\ e \in StoreType /\ OnlyPrompts(d, e)
      /\ KeepsPlaces(d, e) /\ MovesOne(d, e, p, from, to)
  BY CompareAndSetEffect DEF Sound
<1> HIDE DEF e
<1>2. \A q \in Prompts : Placed(e.prompt[q])
  BY <1>1 DEF Placed, Sound, KeepsPlaces, SamePlace, MovesOne
<1>3. Sound(e)
  BY <1>1, <1>2 DEF Sound
<1> QED
  BY <1>1, <1>3 DEF e

\* The compare-and-sets that close a prompt.
LEMMA CompareAndSetCloses ==
    ASSUME NEW d, Sound(d), NEW p, NEW from, NEW to,
           \/ from = "active" /\ to \in {"invalidated", "expired", "cancelled"}
           \/ from = "submitted" /\ to = "invalidated"
    PROVE  /\ Sound(CompareAndSet(d, p, from, to))
           /\ OnlyPrompts(d, CompareAndSet(d, p, from, to))
           /\ ClosesPrompts(d, CompareAndSet(d, p, from, to))
           /\ MovesOne(d, CompareAndSet(d, p, from, to), p, from, to)
<1> DEFINE e == CompareAndSet(d, p, from, to)
<1>1. to \in PromptStatus /\ from # "none"
  BY DEF PromptStatus
<1>2. /\ Sound(e) /\ OnlyPrompts(d, e)
      /\ KeepsPlaces(d, e) /\ MovesOne(d, e, p, from, to)
  BY <1>1, CompareAndSetSound
<1> HIDE DEF e
<1>3. ClosesPrompts(d, e)
  BY <1>2 DEF ClosesPrompts, Closed, MovesOne
<1> QED
  BY <1>2, <1>3 DEF e

LEMMA ClosedTwice ==
    ASSUME NEW d, NEW e, NEW f, ClosesPrompts(d, e), ClosesPrompts(e, f)
    PROVE  ClosesPrompts(d, f)
BY DEF ClosesPrompts, Closed, KeepsPlaces, SamePlace

\* invalidatePendingPromptForSession closes the prompt that it names.
LEMMA InvalidateEffect ==
    ASSUME NEW d, Sound(d), NEW s,
           NEW a \in Latest(d, s, "active"), NEW b \in Latest(d, s, "submitted")
    PROVE  /\ Sound(Invalidate(d, a, b))
           /\ OnlyPrompts(d, Invalidate(d, a, b))
           /\ ClosesPrompts(d, Invalidate(d, a, b))
           /\ Invalidated(a, b) \in Prompts \cup {None}
           /\ Invalidated(a, b) \in Prompts =>
                 Invalidate(d, a, b).prompt[Invalidated(a, b)].status = "invalidated"
           /\ \A p : LeavesOthers(d, Invalidate(d, a, b), s, p)
<1> DEFINE m == CompareAndSet(d, a, "active", "invalidated")
           e == CompareAndSet(m, b, "submitted", "invalidated")
<1>1. /\ Sound(m) /\ OnlyPrompts(d, m) /\ ClosesPrompts(d, m)
      /\ MovesOne(d, m, a, "active", "invalidated")
  BY CompareAndSetCloses
<1>2. Invalidate(d, a, b) = e
  BY DEF Invalidate
<1> HIDE DEF m
<1>3. /\ Sound(e) /\ OnlyPrompts(m, e) /\ ClosesPrompts(m, e)
      /\ MovesOne(m, e, b, "submitted", "invalidated")
  BY <1>1, CompareAndSetCloses
<1> HIDE DEF e
<1>4. /\ a \in Prompts \cup {None} /\ b \in Prompts \cup {None}
      /\ a \in Prompts => d.prompt[a].status = "active" /\ d.prompt[a].session = s
      /\ b \in Prompts => d.prompt[b].status = "submitted" /\ d.prompt[b].session = s
  BY NoneIsNoId DEF Latest, PromptsOf
<1>5. Invalidated(a, b) \in Prompts => e.prompt[Invalidated(a, b)].status = "invalidated"
  BY <1>1, <1>3, <1>4, NoneIsNoId DEF Invalidated, MovesOne
<1>6. OnlyPrompts(d, e)
  BY <1>1, <1>3 DEF OnlyPrompts, SameBindings, SameStates, SameSessions, SameTasks
<1>7. ClosesPrompts(d, e)
  BY <1>1, <1>3, ClosedTwice
<1>8. \A p : LeavesOthers(d, e, s, p)
  BY <1>1, <1>3, <1>4 DEF LeavesOthers, MovesOne
<1> QED
  BY <1>2, <1>3, <1>4, <1>5, <1>6, <1>7, <1>8 DEF Invalidated

-----------------------------------------------------------------------------
(* Tasks                                                                   *)

LEMMA WriteTask ==
    ASSUME NEW d, d \in StoreType, NEW t \in Tasks, NEW row \in Task
    PROVE  /\ WithTask(d, t, row) \in StoreType
           /\ OnlyTasks(d, WithTask(d, t, row))
           /\ WithTask(d, t, row).task = [d.task EXCEPT ![t] = row]
BY DEF WithTask, StoreType, OnlyTasks, SameBindings, SameStates, SameSessions, SamePrompts

LEMMA NothingDone ==
    ASSUME NEW d
    PROVE  OnlyTasks(d, d) /\ KeepsTasks(d, d) /\ OnlyPrompts(d, d) /\ ClosesPrompts(d, d)
BY DEF OnlyTasks, OnlyPrompts, SameBindings, SameStates, SameSessions, SamePrompts,
       SameTasks, KeepsTasks, KeepsTasksBut, ClosesPrompts, Closed, KeepsPlaces, SamePlace

\* A task that has a row ends.
LEMMA TaskStatusEffect ==
    ASSUME NEW d, d \in StoreType, NEW t \in Tasks, d.task[t].status # "none",
           NEW status \in {"completed", "failed"}
    PROVE  /\ [d EXCEPT !.task[t].status = status] \in StoreType
           /\ OnlyTasks(d, [d EXCEPT !.task[t].status = status])
           /\ KeepsTasks(d, [d EXCEPT !.task[t].status = status])
           /\ ~InProgress([d EXCEPT !.task[t].status = status], t)
<1> DEFINE row == [d.task[t] EXCEPT !.status = status]
           e == [d EXCEPT !.task[t].status = status]
<1>1. d.task \in [Tasks -> Task]
  BY DEF StoreType
<1>2. row \in Task /\ row.session = d.task[t].session /\ row.status = status
  BY <1>1 DEF Task, TaskStatus
<1>3. e = WithTask(d, t, row)
  BY DEF WithTask
<1> HIDE DEF row, e
<1>4. e \in StoreType /\ OnlyTasks(d, e) /\ e.task = [d.task EXCEPT ![t] = row]
  BY <1>2, <1>3, WriteTask
<1>5. KeepsTasks(d, e) /\ ~InProgress(e, t)
  BY <1>1, <1>2, <1>4 DEF KeepsTasks, KeepsTasksBut, InProgress
<1> QED
  BY <1>4, <1>5 DEF e

LEMMA CompleteTaskEffect ==
    ASSUME NEW d, d \in StoreType, NEW t, NEW status \in {"completed", "failed"}
    PROVE  /\ CompleteTask(d, t, status) \in StoreType
           /\ OnlyTasks(d, CompleteTask(d, t, status))
           /\ KeepsTasks(d, CompleteTask(d, t, status))
           /\ ~InProgress(CompleteTask(d, t, status), t)
<1>1. CASE InProgress(d, t)
  BY <1>1, TaskStatusEffect DEF CompleteTask, InProgress
<1>2. CASE ~InProgress(d, t)
  BY <1>2, NothingDone DEF CompleteTask
<1> QED
  BY <1>1, <1>2

\* completePreviousTask of the start.
LEMMA CompletePreviousEffect ==
    ASSUME NEW d, d \in StoreType, NEW t
    PROVE  /\ CompletePrevious(d, t) \in StoreType
           /\ OnlyTasks(d, CompletePrevious(d, t))
           /\ KeepsTasks(d, CompletePrevious(d, t))
<1>1. CASE t \in Tasks /\ d.task[t].status # "none"
  BY <1>1, TaskStatusEffect DEF CompletePrevious, TaskStatus
<1>2. CASE ~(t \in Tasks /\ d.task[t].status # "none")
  BY <1>2, NothingDone DEF CompletePrevious
<1> QED
  BY <1>1, <1>2

\* The row that PutTask writes, when there is a task.
LEMMA PutTaskEffect ==
    ASSUME NEW d, d \in StoreType, NEW t, NEW status \in TaskStatus \ {"none"},
           NEW s \in Sessions
    PROVE  /\ PutTask(d, t, status, s) \in StoreType
           /\ OnlyTasks(d, PutTask(d, t, status, s))
           /\ KeepsTasksBut(d, PutTask(d, t, status, s), t)
           /\ HasTaskOf(PutTask(d, t, status, s), t, s)
           /\ status # "in-progress" => ~InProgress(PutTask(d, t, status, s), t)
<1> DEFINE e == PutTask(d, t, status, s)
           row == [status |-> status, session |-> s]
<1>1. CASE t \in Tasks
  <2>1. row \in Task /\ row.status = status /\ row.session = s
    BY DEF Task
  <2>2. e = WithTask(d, t, row)
    BY <1>1 DEF PutTask, WithTask
  <2> HIDE DEF row, e
  <2>3. /\ e \in StoreType /\ OnlyTasks(d, e) /\ e.task = [d.task EXCEPT ![t] = row]
    BY <1>1, <2>1, <2>2, WriteTask
  <2>4. /\ KeepsTasksBut(d, e, t) /\ HasTaskOf(e, t, s)
        /\ status # "in-progress" => ~InProgress(e, t)
    BY <2>1, <2>3 DEF KeepsTasksBut, HasTaskOf, InProgress, StoreType
  <2> QED
    BY <2>3, <2>4 DEF e
<1>2. CASE t \notin Tasks
  <2>1. e = d
    BY <1>2 DEF PutTask
  <2>2. KeepsTasksBut(d, d, t) /\ HasTaskOf(d, t, s) /\ ~InProgress(d, t)
    BY <1>2 DEF KeepsTasksBut, HasTaskOf, InProgress
  <2> QED
    BY <2>1, <2>2, NothingDone
<1> QED
  BY <1>1, <1>2

-----------------------------------------------------------------------------
(* The use cases                                                           *)

LEMMA ModeOfStatusType ==
    ASSUME NEW status
    PROVE  /\ ModeOfStatus(status) \in {"task-running", "needs-attention", "session-linked"}
           /\ ModeOfStatus(status) \in Modes
           /\ ModeOfStatus(status) = "task-running" <=> status = "running"
BY DEF ModeOfStatus, Modes

LEMMA StateOfReplyType ==
    ASSUME NEW r \in Reply
    PROVE  /\ StateOfReply(r) \in State
           /\ StateOfReply(r).mode = "task-running" <=> r.status = "running"
           /\ StateOfReply(r).task = (IF r.status = "running" THEN r.task ELSE None)
BY ModeOfStatusType DEF StateOfReply, State, Reply

\* getStatus writes the state of the chat and closes or names tasks.
LEMMA StatusCommitEffect ==
    ASSUME NEW d, d \in StoreType, NEW c \in Chats, NEW s \in Sessions, NEW r \in Reply
    PROVE  /\ StatusCommit(d, c, s, r) \in StoreType
           /\ SameBindings(d, StatusCommit(d, c, s, r))
           /\ SameSessions(d, StatusCommit(d, c, s, r))
           /\ SamePrompts(d, StatusCommit(d, c, s, r))
           /\ SetsState(d, StatusCommit(d, c, s, r), c, StateOfReply(r))
           /\ KeepsTasksBut(d, StatusCommit(d, c, s, r), r.task)
           /\ HasTaskOf(StatusCommit(d, c, s, r), r.task, s)
           /\ r.status # "running" => \A t \in {d.state[c].task, r.task} :
                                        ~InProgress(StatusCommit(d, c, s, r), t)
<1> DEFINE next == StateOfReply(r)
           d1 == WithState(d, c, next)
           previous == d.state[c].task
           d2 == IF next.mode # "task-running"
                 THEN CompleteTask(d1, previous, "completed") ELSE d1
           status == IF r.status = "running" THEN "in-progress" ELSE "completed"
           e == PutTask(d2, r.task, status, s)
<1>1. StatusCommit(d, c, s, r) = e
  BY DEF StatusCommit, WithState
<1>2. /\ status \in TaskStatus \ {"none"}
      /\ r.status # "running" => status # "in-progress"
  BY DEF TaskStatus
<1>3. next \in State /\ (r.status # "running" => next.mode # "task-running")
  BY StateOfReplyType
<1> HIDE DEF status, previous
<1>4. d1 \in StoreType /\ OnlyStates(d, d1) /\ SetsState(d, d1, c, next)
  BY <1>3, WriteState
<1> HIDE DEF next, d1
<1>5. /\ d2 \in StoreType /\ OnlyTasks(d1, d2) /\ KeepsTasks(d1, d2)
      /\ r.status # "running" => ~InProgress(d2, previous)
  BY <1>3, <1>4, CompleteTaskEffect, NothingDone
<1> HIDE DEF d2
<1>6. /\ e \in StoreType /\ OnlyTasks(d2, e)
      /\ KeepsTasksBut(d2, e, r.task) /\ HasTaskOf(e, r.task, s)
      /\ r.status # "running" => ~InProgress(e, r.task)
  BY <1>2, <1>5, PutTaskEffect
<1> HIDE DEF e
<1>7. SameBindings(d, e) /\ SameSessions(d, e) /\ SamePrompts(d, e) /\ SetsState(d, e, c, next)
  BY <1>4, <1>5, <1>6 DEF OnlyTasks, OnlyStates, SameBindings, SameSessions, SamePrompts, SameStates,
                          SetsState
<1>8. KeepsTasksBut(d, e, r.task)
  BY <1>4, <1>5, <1>6, NoneIsNoId DEF KeepsTasks, KeepsTasksBut, OnlyStates, SameTasks, InProgress
<1>9. r.status # "running" => ~InProgress(e, previous)
  BY <1>5, <1>6 DEF KeepsTasksBut, InProgress
<1> QED
  BY <1>1, <1>6, <1>7, <1>8, <1>9 DEF next, previous

LEMMA SelectCommitEffect ==
    ASSUME NEW d, d \in StoreType, NEW c \in Chats, NEW p \in Projects
    PROVE  /\ SelectCommit(d, c, p) \in StoreType
           /\ SameSessions(d, SelectCommit(d, c, p))
           /\ SameTasks(d, SelectCommit(d, c, p))
           /\ SamePrompts(d, SelectCommit(d, c, p))
           /\ SetsBinding(d, SelectCommit(d, c, p), c, [project |-> p, session |-> None])
           /\ SetsState(d, SelectCommit(d, c, p), c, IdleState)
<1> DEFINE row == [project |-> p, session |-> None]
           d0 == [d EXCEPT !.projects = @ \cup {p}]
           d1 == WithBinding(d0, c, row)
           e == WithState(d1, c, IdleState)
<1>1. row \in Binding /\ IdleState \in State
  BY DEF Binding, State, IdleState, Modes
<1>2. SelectCommit(d, c, p) = e
  BY DEF SelectCommit, ApplyProjectSelection, WithBinding, WithState
<1>3. /\ d0 \in StoreType /\ OnlyTasks(d, d0) /\ SameTasks(d, d0)
  BY DEF StoreType, OnlyTasks, SameTasks, SameBindings, SameStates, SameSessions, SamePrompts
<1> HIDE DEF row, d0
<1>4. d1 \in StoreType /\ OnlyBindings(d0, d1) /\ SetsBinding(d0, d1, c, row)
  BY <1>1, <1>3, WriteBinding
<1> HIDE DEF d1
<1>5. e \in StoreType /\ OnlyStates(d1, e) /\ SetsState(d1, e, c, IdleState)
  BY <1>1, <1>4, WriteState
<1> HIDE DEF e
<1>6. /\ SameSessions(d, e) /\ SameTasks(d, e) /\ SamePrompts(d, e)
      /\ SetsBinding(d, e, c, row) /\ SetsState(d, e, c, IdleState)
  BY <1>3, <1>4, <1>5 DEF OnlyTasks, OnlyBindings, OnlyStates, SameSessions, SameTasks,
     SamePrompts, SameBindings, SameStates, SetsBinding, SetsState
<1> QED
  BY <1>2, <1>5, <1>6 DEF row

LEMMA SessionRows == NoSession \in Session /\ WatchedSession \in Session
<1>1. NoSession \in Session
  BY SomeRetry DEF NoSession, Session, TerminalSource
<1> QED
  BY <1>1 DEF WatchedSession, Session

\* attachSession and createSession differ in the row of the session.
LEMMA BindEffect ==
    ASSUME NEW d, d \in StoreType, NEW c \in Chats, NEW p \in Projects \cup {None},
           NEW s \in Sessions, NEW r \in Reply, NEW row \in Session, NEW e,
           e = [d EXCEPT !.session[s] = row,
                         !.binding[c] = [project |-> p, session |-> s],
                         !.state[c] = StateOfReply(r)]
    PROVE  /\ e \in StoreType /\ SameTasks(d, e) /\ SamePrompts(d, e)
           /\ SetsBinding(d, e, c, [project |-> p, session |-> s])
           /\ SetsState(d, e, c, StateOfReply(r))
           /\ SetsSession(d, e, s, row)
<1> DEFINE binding == [project |-> p, session |-> s]
           d1 == WithSession(d, s, row)
           d2 == WithBinding(d1, c, binding)
<1>1. StateOfReply(r) \in State
  BY StateOfReplyType
<1>2. binding \in Binding
  BY DEF Binding
<1>3. e = WithState(d2, c, StateOfReply(r))
  BY DEF WithSession, WithBinding, WithState
<1> HIDE DEF binding
<1>4. d1 \in StoreType /\ OnlySessions(d, d1) /\ SetsSession(d, d1, s, row)
  BY WriteSession
<1> HIDE DEF d1
<1>5. d2 \in StoreType /\ OnlyBindings(d1, d2) /\ SetsBinding(d1, d2, c, binding)
  BY <1>2, <1>4, WriteBinding
<1> HIDE DEF d2
<1>6. e \in StoreType /\ OnlyStates(d2, e) /\ SetsState(d2, e, c, StateOfReply(r))
  BY <1>1, <1>3, <1>5, WriteState
<1>7. /\ SameTasks(d, e) /\ SamePrompts(d, e) /\ SetsBinding(d, e, c, binding)
      /\ SetsState(d, e, c, StateOfReply(r)) /\ SetsSession(d, e, s, row)
  BY <1>4, <1>5, <1>6 DEF OnlySessions, OnlyBindings, OnlyStates, SameSessions, SameTasks,
     SamePrompts, SameBindings, SameStates, SetsBinding, SetsState, SetsSession
<1> QED
  BY <1>6, <1>7 DEF binding

LEMMA AttachCommitEffect ==
    ASSUME NEW d, d \in StoreType, NEW c \in Chats, NEW p \in Projects \cup {None},
           NEW s \in Sessions, NEW r \in Reply
    PROVE  /\ AttachCommit(d, c, p, s, r) \in StoreType
           /\ SameTasks(d, AttachCommit(d, c, p, s, r))
           /\ SamePrompts(d, AttachCommit(d, c, p, s, r))
           /\ SetsBinding(d, AttachCommit(d, c, p, s, r), c, [project |-> p, session |-> s])
           /\ SetsState(d, AttachCommit(d, c, p, s, r), c, StateOfReply(r))
           /\ SetsSession(d, AttachCommit(d, c, p, s, r), s, NoSession)
BY BindEffect, SessionRows DEF AttachCommit

LEMMA CreateCommitEffect ==
    ASSUME NEW d, d \in StoreType, NEW c \in Chats, NEW p \in Projects \cup {None},
           NEW s \in Sessions, NEW r \in Reply
    PROVE  /\ CreateCommit(d, c, p, s, r) \in StoreType
           /\ SameTasks(d, CreateCommit(d, c, p, s, r))
           /\ SamePrompts(d, CreateCommit(d, c, p, s, r))
           /\ SetsBinding(d, CreateCommit(d, c, p, s, r), c, [project |-> p, session |-> s])
           /\ SetsState(d, CreateCommit(d, c, p, s, r), c, StateOfReply(r))
           /\ SetsSession(d, CreateCommit(d, c, p, s, r), s, WatchedSession)
BY BindEffect, SessionRows DEF CreateCommit

\* sendText and runSessionCommand.
LEMMA ExecuteCommitEffect ==
    ASSUME NEW d, d \in StoreType, NEW c \in Chats, NEW s \in Sessions, NEW r \in Reply,
           NEW mode \in Modes
    PROVE  /\ ExecuteCommit(d, c, s, r, mode) \in StoreType
           /\ SameBindings(d, ExecuteCommit(d, c, s, r, mode))
           /\ SamePrompts(d, ExecuteCommit(d, c, s, r, mode))
           /\ SetsState(d, ExecuteCommit(d, c, s, r, mode), c, [mode |-> mode, task |-> r.task])
           /\ SetsSession(d, ExecuteCommit(d, c, s, r, mode), s,
                          [d.session[s] EXCEPT !.terminal = "none"])
           /\ KeepsTasksBut(d, ExecuteCommit(d, c, s, r, mode), r.task)
           /\ HasTaskOf(ExecuteCommit(d, c, s, r, mode), r.task, s)
<1> DEFINE row == [d.session[s] EXCEPT !.terminal = "none"]
           next == [mode |-> mode, task |-> r.task]
           d1 == WithState(d, c, next)
           d2 == WithSession(d1, s, row)
           e == PutTask(d2, r.task, "in-progress", s)
<1>1. next \in State
  BY DEF State, Reply
<1>2. row \in Session
  <2>1. d.session[s] \in Session
    BY DEF StoreType
  <2> QED
    BY <2>1 DEF Session, TerminalSource
<1>3. ExecuteCommit(d, c, s, r, mode) = e
  <2>1. [d EXCEPT !.state[c] = next, !.session[s].terminal = "none"] = d2
    BY DEF WithState, WithSession, StoreType
  <2> HIDE DEF d2
  <2> QED
    BY <2>1 DEF ExecuteCommit
<1> HIDE DEF next, row
<1>4. d1 \in StoreType /\ OnlyStates(d, d1) /\ SetsState(d, d1, c, next)
  BY <1>1, WriteState
<1> HIDE DEF d1
<1>5. d2 \in StoreType /\ OnlySessions(d1, d2) /\ SetsSession(d1, d2, s, row)
  BY <1>2, <1>4, WriteSession
<1> HIDE DEF d2
<1>6. /\ e \in StoreType /\ OnlyTasks(d2, e)
      /\ KeepsTasksBut(d2, e, r.task) /\ HasTaskOf(e, r.task, s)
  BY <1>5, PutTaskEffect DEF TaskStatus
<1> HIDE DEF e
<1>7. /\ SameBindings(d, e) /\ SamePrompts(d, e)
      /\ SetsState(d, e, c, next) /\ SetsSession(d, e, s, row)
      /\ KeepsTasksBut(d, e, r.task)
  BY <1>4, <1>5, <1>6 DEF OnlyTasks, OnlySessions, OnlyStates, SameSessions, SameTasks,
     SamePrompts, SameBindings, SameStates, SetsState, SetsSession, KeepsTasksBut, InProgress
<1> QED
  BY <1>3, <1>6, <1>7 DEF next, row

LEMMA ModeOfRunType ==
    ASSUME NEW status, NEW mode \in Modes
    PROVE  ModeOfRun(status, mode) \in Modes
BY ModeOfStatusType DEF ModeOfRun, StableSessionMode, Modes

LEMMA CancelCommitEffect ==
    ASSUME NEW d, d \in StoreType, NEW c \in Chats, NEW t
    PROVE  /\ CancelCommit(d, c, t) \in StoreType
           /\ SameBindings(d, CancelCommit(d, c, t))
           /\ SameSessions(d, CancelCommit(d, c, t))
           /\ SamePrompts(d, CancelCommit(d, c, t))
           /\ KeepsTasks(d, CancelCommit(d, c, t))
           /\ ~InProgress(CancelCommit(d, c, t), d.state[c].task)
           /\ SetsState(d, CancelCommit(d, c, t), c, [mode |-> "session-linked", task |-> None])
<1> DEFINE previous == IF d.state[c].task # None THEN d.state[c].task ELSE t
           next == [mode |-> "session-linked", task |-> None]
           d1 == WithState(d, c, next)
           e == CompleteTask(d1, previous, "completed")
<1>1. next \in State
  BY DEF State, Modes
<1>2. CancelCommit(d, c, t) = e
  BY DEF CancelCommit, WithState
<1> HIDE DEF next, previous
<1>3. d1 \in StoreType /\ OnlyStates(d, d1) /\ SetsState(d, d1, c, next)
  BY <1>1, WriteState
<1> HIDE DEF d1
<1>4. /\ e \in StoreType /\ OnlyTasks(d1, e) /\ KeepsTasks(d1, e)
      /\ ~InProgress(e, previous)
  BY <1>3, CompleteTaskEffect
<1> HIDE DEF e
<1>5. /\ SameBindings(d, e) /\ SameSessions(d, e) /\ SamePrompts(d, e)
      /\ SetsState(d, e, c, next) /\ KeepsTasks(d, e)
  BY <1>3, <1>4 DEF OnlyTasks, OnlyStates, SameSessions, SameTasks, SamePrompts,
     SameBindings, SameStates, SetsState, KeepsTasks, KeepsTasksBut, InProgress
<1>6. ~InProgress(e, d.state[c].task)
  BY <1>4, NoneIsNoId DEF previous, InProgress
<1> QED
  BY <1>2, <1>4, <1>5, <1>6 DEF next

-----------------------------------------------------------------------------
(* Answers                                                                 *)

\* submitPendingPrompt before the call: the open prompt is submitted.
LEMMA SubmitPreflightEffect ==
    ASSUME NEW d, Sound(d), NEW p \in Prompts, NEW b
    PROVE  /\ Sound(SubmitPreflight(d, p, b))
           /\ OnlyPrompts(d, SubmitPreflight(d, p, b))
           /\ KeepsPlaces(d, SubmitPreflight(d, p, b))
           /\ MovesOne(d, SubmitPreflight(d, p, b), p, "active", "submitted")
<1> DEFINE m == CompareAndSet(d, p, "active", "submitted")
           pressed == m.prompt[p].pressed \/ b
           row == [m.prompt[p] EXCEPT !.pressed = pressed]
           e == WithPrompt(m, p, row)
<1>1. /\ Sound(m) /\ OnlyPrompts(d, m)
      /\ KeepsPlaces(d, m) /\ MovesOne(d, m, p, "active", "submitted")
  BY CompareAndSetSound DEF PromptStatus
<1>2. pressed \in BOOLEAN
  OBVIOUS
<1>3. SubmitPreflight(d, p, b) = e
  BY DEF SubmitPreflight, WithPrompt
<1> HIDE DEF m, pressed
<1>4. m \in StoreType /\ m.prompt \in [Prompts -> Prompt] /\ m.prompt[p] \in Prompt
  BY <1>1 DEF Sound, StoreType
<1>5. row \in Prompt /\ SamePlace(m.prompt[p], row) /\ row.status = m.prompt[p].status
  BY <1>2, <1>4 DEF Prompt, SamePlace
<1> HIDE DEF row
<1>6. e \in StoreType /\ OnlyPrompts(m, e) /\ e.prompt = [m.prompt EXCEPT ![p] = row]
  BY <1>4, <1>5, WritePrompt
<1> HIDE DEF e
<1>7. \A q \in Prompts :
         SamePlace(m.prompt[q], e.prompt[q]) /\ e.prompt[q].status = m.prompt[q].status
  BY <1>4, <1>5, <1>6 DEF SamePlace
<1>8. Sound(e)
  BY <1>1, <1>6, <1>7 DEF Sound, Placed, SamePlace
<1>9. OnlyPrompts(d, e)
  BY <1>1, <1>6 DEF OnlyPrompts, SameBindings, SameStates, SameSessions, SameTasks
<1>10. KeepsPlaces(d, e) /\ MovesOne(d, e, p, "active", "submitted")
  BY <1>1, <1>7 DEF KeepsPlaces, SamePlace, MovesOne
<1> QED
  BY <1>3, <1>8, <1>9, <1>10

-----------------------------------------------------------------------------
(* The watcher                                                             *)

LEMMA CountFailureEffect ==
    ASSUME NEW d, d \in StoreType, NEW s \in Sessions
    PROVE  /\ CountFailure(d, s) \in StoreType
           /\ OnlySessions(d, CountFailure(d, s))
           /\ SetsRetry(d, CountFailure(d, s), s)
           /\ \/ CountFailure(d, s).session[s].retry = d.session[s].retry
              \/ /\ d.session[s].terminal = "none"
                 /\ CountFailure(d, s).session[s].retry = d.session[s].retry + 1
<1> DEFINE e == CountFailure(d, s)
           row == [d.session[s] EXCEPT !.retry = @ + 1]
<1>1. CASE d.session[s].terminal = "none" /\ d.session[s].retry < MaxRetry
  <2>1. d.session \in [Sessions -> Session] /\ d.session[s] \in Session
    BY DEF StoreType
  <2>2. row \in Session
    BY <1>1, <2>1, StoreAssumption DEF Session
  <2>3. e = WithSession(d, s, row)
    BY <1>1 DEF CountFailure, WithSession
  <2>4. row.token = d.session[s].token /\ row.watched = d.session[s].watched
        /\ row.terminal = d.session[s].terminal /\ row.retry = d.session[s].retry + 1
    BY <2>1 DEF Session
  <2> HIDE DEF e, row
  <2>5. e \in StoreType /\ OnlySessions(d, e) /\ SetsSession(d, e, s, row)
    BY <2>2, <2>3, WriteSession
  <2>6. SetsRetry(d, e, s) /\ e.session[s].retry = d.session[s].retry + 1
    BY <2>1, <2>4, <2>5 DEF SetsRetry, SetsSession
  <2> QED
    BY <1>1, <2>5, <2>6 DEF e
<1>2. CASE ~(d.session[s].terminal = "none" /\ d.session[s].retry < MaxRetry)
  BY <1>2 DEF CountFailure, OnlySessions, SetsRetry, SameBindings, SameStates, SameTasks,
              SamePrompts
<1> QED
  BY <1>1, <1>2

LEMMA TouchEffect ==
    ASSUME NEW d, d \in StoreType, NEW s \in Sessions
    PROVE  /\ Touch(d, s) \in StoreType
           /\ OnlySessions(d, Touch(d, s))
           /\ SetsRetry(d, Touch(d, s), s)
           /\ Touch(d, s).session[s].retry = 0
<1> DEFINE e == Touch(d, s)
           row == [d.session[s] EXCEPT !.retry = 0]
<1>1. d.session \in [Sessions -> Session] /\ d.session[s] \in Session
  BY DEF StoreType
<1>2. row \in Session
  BY <1>1, SomeRetry DEF Session
<1>3. e = WithSession(d, s, row)
  BY DEF Touch, WithSession
<1>4. row.token = d.session[s].token /\ row.watched = d.session[s].watched
      /\ row.terminal = d.session[s].terminal /\ row.retry = 0
  BY <1>1 DEF Session
<1> HIDE DEF e, row
<1>5. e \in StoreType /\ OnlySessions(d, e) /\ SetsSession(d, e, s, row)
  BY <1>2, <1>3, WriteSession
<1>6. SetsRetry(d, e, s) /\ e.session[s].retry = 0
  BY <1>1, <1>4, <1>5 DEF SetsRetry, SetsSession
<1> QED
  BY <1>5, <1>6 DEF e

\* The row of prompt p refers to message m, and no other row to another one.
SetsMessage(d, e, p, m) ==
    \A q \in Prompts : e.prompt[q].message = IF q = p THEN m ELSE d.prompt[q].message

\* trackPromptMessageReference
LEMMA TrackMessageEffect ==
    ASSUME NEW d, Sound(d), NEW p \in Prompts, NEW m \in Nat
    PROVE  /\ Sound(TrackMessage(d, p, m))
           /\ OnlyPrompts(d, TrackMessage(d, p, m))
           /\ SetsMessage(d, TrackMessage(d, p, m), p, m)
           /\ KeepsStatus(d, TrackMessage(d, p, m))
<1> DEFINE e == TrackMessage(d, p, m)
           row == [d.prompt[p] EXCEPT !.message = m]
<1>1. d \in StoreType /\ d.prompt \in [Prompts -> Prompt] /\ d.prompt[p] \in Prompt
  BY DEF Sound, StoreType
<1>2. row \in Prompt
  BY <1>1 DEF Prompt
<1>3. e = WithPrompt(d, p, row)
  BY DEF TrackMessage, WithPrompt
<1>4. row.session = d.prompt[p].session /\ row.chat = d.prompt[p].chat
      /\ row.status = d.prompt[p].status /\ row.message = m
  BY <1>1 DEF Prompt
<1> HIDE DEF e, row
<1>5. e \in StoreType /\ OnlyPrompts(d, e) /\ e.prompt = [d.prompt EXCEPT ![p] = row]
  BY <1>1, <1>2, <1>3, WritePrompt
<1>6. KeepsStatus(d, e) /\ SetsMessage(d, e, p, m)
  BY <1>1, <1>4, <1>5 DEF KeepsStatus, SetsMessage
<1>7. Sound(e)
  BY <1>1, <1>4, <1>5 DEF Sound, Placed
<1> QED
  BY <1>5, <1>6, <1>7 DEF e

\* trackPromptCleanup of a prompt that has been raised.
LEMMA TrackCleanupEffect ==
    ASSUME NEW d, Sound(d), NEW p \in Prompts, NEW old, old = d.prompt[p].status
    PROVE  /\ Sound(TrackCleanup(d, p))
           /\ OnlyPrompts(d, TrackCleanup(d, p))
           /\ KeepsPlaces(d, TrackCleanup(d, p))
           /\ MovesOne(d, TrackCleanup(d, p), p, old, "invalidated")
<1> DEFINE e == TrackCleanup(d, p)
           row == [d.prompt[p] EXCEPT !.status = "invalidated"]
<1>1. d \in StoreType /\ d.prompt \in [Prompts -> Prompt] /\ d.prompt[p] \in Prompt
  BY DEF Sound, StoreType
<1>2. row \in Prompt /\ SamePlace(d.prompt[p], row) /\ row.status = "invalidated"
  BY <1>1 DEF Prompt, SamePlace, PromptStatus
<1>3. e = WithPrompt(d, p, row)
  BY DEF TrackCleanup, WithPrompt
<1> HIDE DEF e, row
<1>4. e \in StoreType /\ OnlyPrompts(d, e) /\ e.prompt = [d.prompt EXCEPT ![p] = row]
  BY <1>1, <1>2, <1>3, WritePrompt
<1>5. KeepsPlaces(d, e) /\ MovesOne(d, e, p, old, "invalidated")
  BY <1>1, <1>2, <1>4 DEF KeepsPlaces, SamePlace, MovesOne
<1>6. Sound(e)
  BY <1>1, <1>2, <1>4 DEF Sound, Placed, SamePlace
<1> QED
  BY <1>4, <1>5, <1>6 DEF e

-----------------------------------------------------------------------------
(* Events                                                                  *)

\* Prompt p, if there is one, is opened for session s in chat c; the others are
\* closed or left as they are.
RaisesOne(d, e, p, s, c) ==
    \A q \in Prompts :
        /\ e.prompt[q].message = d.prompt[q].message
        /\ q # p => SamePlace(d.prompt[q], e.prompt[q]) /\ Closed(d.prompt[q], e.prompt[q])
        /\ q = p => /\ e.prompt[q].status = "active"
                    /\ e.prompt[q].session = s /\ e.prompt[q].chat = c

\* The prompt that the notice takes the buttons from is closed, and the prompt
\* that it shows is that of the event, p, which is open.
NoticeOf(e, n, p) ==
    /\ n \in Notice
    /\ n.show \in Prompts => n.show = p /\ e.prompt[p].status = "active"
    /\ n.cleanup.message # 0 => n.cleanup.prompt \in Prompts
    /\ n.cleanup.prompt \in Prompts => e.prompt[n.cleanup.prompt].status = "invalidated"

\* What is left of the session's token, and when its end is recorded; failed
\* attempts are forgotten.
EventSessions(d, e, s, kind, source) ==
    \A u \in Sessions :
        /\ e.session[u].watched = d.session[u].watched
        /\ e.session[u].token => d.session[u].token
        /\ u # s => e.session[u] = d.session[u]
        /\ e.session[s].terminal = IF kind \in {"needs-input", "started"}
                                   THEN d.session[s].terminal ELSE source
        /\ e.session[s].retry = 0

\* A chat that gets another state has no task afterwards, and its task is over.
FreesState(d, e, c) ==
    /\ \E mode \in Modes : SetsState(d, e, c, [mode |-> mode, task |-> None])
    /\ ~InProgress(e, d.state[c].task)

\* A chat that runs a task still runs one.
StaysBusy(d, e, c) == d.state[c].mode = "task-running" => e.state[c].mode = "task-running"

LEMMA CleanupType ==
    ASSUME NEW d, Sound(d), NEW p \in Prompts \cup {None}
    PROVE  /\ Cleanup(d, p) \in [prompt : Prompts \cup {None}, message : Nat]
           /\ Cleanup(d, p).prompt = p
           /\ Cleanup(d, p).message # 0 => p \in Prompts
<1>1. CASE p = None
  BY <1>1 DEF Cleanup
<1>2. CASE p \in Prompts
  <2>1. d.prompt[p] \in Prompt
    BY <1>2 DEF Sound, StoreType
  <2>2. d.prompt[p].message \in Nat
    BY <2>1 DEF Prompt
  <2> QED
    BY <1>2, <2>2, NoneIsNoId DEF Cleanup
<1> QED
  BY <1>1, <1>2

\* handleNeedsInputPrompt raises the prompt of the event.
LEMMA RaisePromptEffect ==
    ASSUME NEW d, Sound(d), NEW c \in Chats, NEW ev, ev.session \in Sessions,
           ev.prompt \in Prompts, NEW a \in Latest(d, ev.session, "active")
    PROVE  /\ Sound(RaisePrompt(d, c, ev, a))
           /\ OnlyPrompts(d, RaisePrompt(d, c, ev, a))
           /\ RaisesOne(d, RaisePrompt(d, c, ev, a), ev.prompt, ev.session, c)
           /\ a \in Prompts /\ a # ev.prompt =>
                 RaisePrompt(d, c, ev, a).prompt[a].status = "invalidated"
           /\ LeavesOthers(d, RaisePrompt(d, c, ev, a), ev.session, ev.prompt)
<1> DEFINE p == ev.prompt
           m == IF a # p THEN CompareAndSet(d, a, "active", "invalidated") ELSE d
           row == [m.prompt[p] EXCEPT !.status = "active", !.session = ev.session, !.chat = c]
           e == WithPrompt(m, p, row)
<1>1. RaisePrompt(d, c, ev, a) = e
  BY DEF RaisePrompt, WithPrompt
<1>2. a \in Prompts => d.prompt[a].status = "active" /\ d.prompt[a].session = ev.session
  BY NoneIsNoId DEF Latest, PromptsOf
<1>3. /\ Sound(m) /\ OnlyPrompts(d, m) /\ ClosesPrompts(d, m)
      /\ a \in Prompts /\ a # p => m.prompt[a].status = "invalidated"
      /\ \A q \in Prompts : q # a => m.prompt[q].status = d.prompt[q].status
  <2>1. CASE a = p
    BY <2>1, NothingDone
  <2>2. CASE a # p
    <3> DEFINE n == CompareAndSet(d, a, "active", "invalidated")
    <3>1. /\ Sound(n) /\ OnlyPrompts(d, n) /\ ClosesPrompts(d, n)
          /\ MovesOne(d, n, a, "active", "invalidated")
      BY CompareAndSetCloses
    <3>2. m = n
      BY <2>2
    <3> HIDE DEF n, m
    <3> QED
      BY <1>2, <3>1, <3>2 DEF MovesOne
  <2> QED
    BY <2>1, <2>2
<1> HIDE DEF m
<1>4. m \in StoreType /\ m.prompt \in [Prompts -> Prompt] /\ m.prompt[p] \in Prompt
  BY <1>3 DEF Sound, StoreType
<1>5. /\ row \in Prompt /\ row.status = "active" /\ row.session = ev.session /\ row.chat = c
      /\ row.message = m.prompt[p].message
  BY <1>4 DEF Prompt, PromptStatus
<1> HIDE DEF row
<1>6. e \in StoreType /\ OnlyPrompts(m, e) /\ e.prompt = [m.prompt EXCEPT ![p] = row]
  BY <1>4, <1>5, WritePrompt
<1> HIDE DEF e
<1>7. Sound(e)
  BY <1>3, <1>4, <1>5, <1>6 DEF Sound, Placed
<1>8. OnlyPrompts(d, e)
  BY <1>3, <1>6 DEF OnlyPrompts, SameBindings, SameStates, SameSessions, SameTasks
<1>9. RaisesOne(d, e, p, ev.session, c)
  <2> SUFFICES ASSUME NEW q \in Prompts
               PROVE  /\ e.prompt[q].message = d.prompt[q].message
                      /\ q # p => /\ SamePlace(d.prompt[q], e.prompt[q])
                                  /\ Closed(d.prompt[q], e.prompt[q])
                      /\ q = p => /\ e.prompt[q].status = "active"
                                  /\ e.prompt[q].session = ev.session /\ e.prompt[q].chat = c
    BY DEF RaisesOne
  <2>1. SamePlace(d.prompt[q], m.prompt[q]) /\ Closed(d.prompt[q], m.prompt[q])
    BY <1>3 DEF ClosesPrompts, KeepsPlaces
  <2>2. CASE q = p
    BY <2>1, <2>2, <1>4, <1>5, <1>6 DEF SamePlace
  <2>3. CASE q # p
    <3>1. e.prompt[q] = m.prompt[q]
      BY <2>3, <1>4, <1>6
    <3> QED
      BY <2>1, <2>3, <3>1 DEF SamePlace
  <2> QED
    BY <2>2, <2>3
<1>10. a \in Prompts /\ a # p => e.prompt[a].status = "invalidated"
  BY <1>3, <1>4, <1>6
<1>11. LeavesOthers(d, e, ev.session, p)
  BY <1>2, <1>3, <1>4, <1>6 DEF LeavesOthers
<1> QED
  BY <1>1, <1>7, <1>8, <1>9, <1>10, <1>11

\* The prompt part of NEEDS_INPUT.
LEMMA PromptPartEffect ==
    ASSUME NEW d, Sound(d), NEW c \in Chats, NEW ev, ev.session \in Sessions,
           ev.prompt \in Prompts \cup {None},
           NEW a \in Latest(d, ev.session, "active"),
           NEW b \in Latest(d, ev.session, "submitted"),
           NEW part, part = PromptPart(d, c, ev, a, b)
    PROVE  /\ Sound(part.store) /\ OnlyPrompts(d, part.store)
           /\ \/ ClosesPrompts(d, part.store)
              \/ /\ ev.prompt \in Prompts
                 /\ RaisesOne(d, part.store, ev.prompt, ev.session, c)
           /\ part.show \in Prompts \cup {None}
           /\ part.show \in Prompts => /\ part.show = ev.prompt
                                       /\ part.store.prompt[ev.prompt].status = "active"
           /\ part.cleanup \in [prompt : Prompts \cup {None}, message : Nat]
           /\ part.cleanup.message # 0 => part.cleanup.prompt \in Prompts
           /\ part.cleanup.prompt \in Prompts =>
                 part.store.prompt[part.cleanup.prompt].status = "invalidated"
           /\ LeavesOthers(d, part.store, ev.session, ev.prompt)
           /\ HumanPrompts /\ ev.prompt \in Prompts =>
                 RaisesOne(d, part.store, ev.prompt, ev.session, c)
<1>0. a \in Prompts \cup {None}
  BY DEF Latest, PromptsOf
<1>1. CASE ~HumanPrompts
  <2> DEFINE e == Invalidate(d, a, b)
             p == Invalidated(a, b)
             k == Cleanup(d, p)
  <2>1. part = [store |-> e, show |-> None, cleanup |-> k]
    BY <1>1 DEF PromptPart
  <2>2. /\ Sound(e) /\ OnlyPrompts(d, e) /\ ClosesPrompts(d, e)
        /\ p \in Prompts \cup {None}
        /\ p \in Prompts => e.prompt[p].status = "invalidated"
        /\ LeavesOthers(d, e, ev.session, ev.prompt)
    BY InvalidateEffect
  <2> HIDE DEF e, p
  <2>3. /\ k \in [prompt : Prompts \cup {None}, message : Nat]
        /\ k.prompt = p
        /\ k.message # 0 => p \in Prompts
    BY <2>2, CleanupType
  <2> HIDE DEF k
  <2>4. part.store = e /\ part.show = None /\ part.cleanup = k
    BY <2>1
  <2> QED
    BY <1>1, <2>2, <2>3, <2>4, NoneIsNoId
<1>2. CASE HumanPrompts /\ ev.prompt = None
  <2>1. part = [store |-> d, show |-> None, cleanup |-> NoCleanup]
    BY <1>2 DEF PromptPart
  <2>2. /\ part.store = d /\ part.show = None
        /\ part.cleanup = [prompt |-> None, message |-> 0]
    BY <2>1 DEF NoCleanup
  <2>3. OnlyPrompts(d, d) /\ ClosesPrompts(d, d)
        /\ LeavesOthers(d, d, ev.session, ev.prompt)
    BY NothingDone DEF LeavesOthers
  <2> QED
    BY <1>2, <2>2, <2>3, NoneIsNoId
<1>3. CASE HumanPrompts /\ ev.prompt # None
  <2> DEFINE e == RaisePrompt(d, c, ev, a)
             k == IF a # ev.prompt THEN Cleanup(d, a) ELSE NoCleanup
  <2>1. part = [store |-> e, show |-> ev.prompt, cleanup |-> k]
    BY <1>3 DEF PromptPart
  <2>2. /\ Sound(e) /\ OnlyPrompts(d, e) /\ RaisesOne(d, e, ev.prompt, ev.session, c)
        /\ LeavesOthers(d, e, ev.session, ev.prompt)
        /\ a \in Prompts /\ a # ev.prompt => e.prompt[a].status = "invalidated"
    BY <1>3, RaisePromptEffect
  <2>3. /\ k \in [prompt : Prompts \cup {None}, message : Nat]
        /\ k.prompt \in Prompts => k.prompt = a /\ a # ev.prompt
        /\ k.message # 0 => k.prompt \in Prompts
    BY <1>0, CleanupType, NoneIsNoId DEF NoCleanup
  <2>4. ev.prompt \in Prompts /\ e.prompt[ev.prompt].status = "active"
    BY <1>3, <2>2 DEF RaisesOne
  <2> HIDE DEF e, k
  <2> QED
    BY <1>3, <2>1, <2>2, <2>3, <2>4
<1> QED
  BY <1>1, <1>2, <1>3

LEMMA AfterNeedsInputEffect ==
    ASSUME NEW d, Sound(d), NEW c \in Chats, NEW ev, ev.session \in Sessions,
           ev.kind = "needs-input", ev.prompt \in Prompts \cup {None}, NEW source,
           NEW a \in Latest(d, ev.session, "active"),
           NEW b \in Latest(d, ev.session, "submitted"),
           NEW r, r = AfterNeedsInput(d, c, ev, a, b)
    PROVE  /\ Sound(r.store) /\ SameBindings(d, r.store) /\ KeepsTasks(d, r.store)
           /\ FreesState(d, r.store, c)
           /\ EventSessions(d, r.store, ev.session, ev.kind, source)
           /\ \/ ClosesPrompts(d, r.store)
              \/ /\ ev.prompt \in Prompts
                 /\ RaisesOne(d, r.store, ev.prompt, ev.session, c)
           /\ NoticeOf(r.store, r.notice, ev.prompt)
           /\ LeavesOthers(d, r.store, ev.session, ev.prompt)
           /\ HumanPrompts /\ ev.prompt \in Prompts =>
                 RaisesOne(d, r.store, ev.prompt, ev.session, c)
<1> DEFINE s == ev.session
           part == PromptPart(d, c, ev, a, b)
           d1 == CompleteTask(part.store, d.state[c].task, "completed")
           next == [mode |-> "needs-attention", task |-> None]
           d2 == WithState(d1, c, next)
           row == [d2.session[s] EXCEPT !.retry = 0]
           e == WithSession(d2, s, row)
           n == [kind |-> "needs-input", show |-> part.show, cleanup |-> part.cleanup]
<1>1. next \in State /\ next.mode \in Modes
  BY DEF State, Modes
<1>2. r.store = e /\ r.notice = n
  BY DEF AfterNeedsInput, WithState, WithSession
<1>3. /\ Sound(part.store) /\ OnlyPrompts(d, part.store)
      /\ \/ ClosesPrompts(d, part.store)
         \/ /\ ev.prompt \in Prompts
            /\ RaisesOne(d, part.store, ev.prompt, ev.session, c)
      /\ part.show \in Prompts \cup {None}
      /\ part.show \in Prompts => /\ part.show = ev.prompt
                                  /\ part.store.prompt[ev.prompt].status = "active"
      /\ part.cleanup \in [prompt : Prompts \cup {None}, message : Nat]
      /\ part.cleanup.message # 0 => part.cleanup.prompt \in Prompts
      /\ part.cleanup.prompt \in Prompts =>
            part.store.prompt[part.cleanup.prompt].status = "invalidated"
      /\ LeavesOthers(d, part.store, ev.session, ev.prompt)
      /\ HumanPrompts /\ ev.prompt \in Prompts =>
            RaisesOne(d, part.store, ev.prompt, ev.session, c)
  BY PromptPartEffect
<1>4. n.cleanup = part.cleanup /\ n.show = part.show /\ n \in Notice
  BY <1>3 DEF Notice
<1> HIDE DEF part, next, n
<1>5. /\ d1 \in StoreType /\ OnlyTasks(part.store, d1) /\ KeepsTasks(part.store, d1)
      /\ ~InProgress(d1, d.state[c].task)
  BY <1>3, CompleteTaskEffect DEF Sound
<1> HIDE DEF d1
<1>6. d2 \in StoreType /\ OnlyStates(d1, d2) /\ SetsState(d1, d2, c, next)
  BY <1>1, <1>5, WriteState
<1> HIDE DEF d2
<1>7. d2.session[s] \in Session /\ d2.session \in [Sessions -> Session]
  BY <1>6 DEF StoreType
<1>8. /\ row \in Session /\ row.token = d2.session[s].token
      /\ row.watched = d2.session[s].watched /\ row.terminal = d2.session[s].terminal
      /\ row.retry = 0
  BY <1>7, SomeRetry DEF Session
<1> HIDE DEF row
<1>9. e \in StoreType /\ OnlySessions(d2, e) /\ SetsSession(d2, e, s, row)
  BY <1>6, <1>8, WriteSession
<1> HIDE DEF e
<1>10. /\ SameBindings(d, e) /\ SamePrompts(part.store, e) /\ KeepsTasks(d, e)
       /\ SetsState(d, e, c, next) /\ SetsSession(d, e, s, row)
       /\ d2.session = d.session /\ ~InProgress(e, d.state[c].task)
  BY <1>3, <1>5, <1>6, <1>9 DEF OnlyTasks, OnlyStates, OnlySessions, OnlyPrompts, SameBindings,
     SameStates, SameSessions, SameTasks, SamePrompts, SetsState, SetsSession, KeepsTasks,
     KeepsTasksBut, InProgress
<1>11. EventSessions(d, e, s, ev.kind, source)
  BY <1>7, <1>8, <1>10 DEF EventSessions, SetsSession
<1>12. FreesState(d, e, c)
  BY <1>1, <1>10 DEF FreesState, next
<1>13. Sound(e)
  BY <1>3, <1>9, <1>10 DEF Sound, SamePrompts
<1>14. \/ ClosesPrompts(d, e)
       \/ ev.prompt \in Prompts /\ RaisesOne(d, e, ev.prompt, ev.session, c)
  BY <1>3, <1>10 DEF SamePrompts, ClosesPrompts, KeepsPlaces, RaisesOne
<1>15. NoticeOf(e, n, ev.prompt)
  BY <1>3, <1>4, <1>10 DEF NoticeOf, SamePrompts
<1>16. /\ LeavesOthers(d, e, ev.session, ev.prompt)
       /\ HumanPrompts /\ ev.prompt \in Prompts => RaisesOne(d, e, ev.prompt, ev.session, c)
  BY <1>3, <1>10 DEF SamePrompts, LeavesOthers, RaisesOne
<1> QED
  BY <1>2, <1>10, <1>11, <1>12, <1>13, <1>14, <1>15, <1>16

LEMMA AfterStartedEffect ==
    ASSUME NEW d, Sound(d), NEW c \in Chats, NEW ev, ev.session \in Sessions,
           ev.kind = "started", NEW source,
           NEW a \in Latest(d, ev.session, "active"),
           NEW b \in Latest(d, ev.session, "submitted"),
           NEW r, r = AfterStarted(d, c, ev, a, b)
    PROVE  /\ Sound(r.store) /\ SameBindings(d, r.store) /\ KeepsTasks(d, r.store)
           /\ SameStates(d, r.store)
           /\ EventSessions(d, r.store, ev.session, ev.kind, source)
           /\ ClosesPrompts(d, r.store) /\ LeavesOthers(d, r.store, ev.session, ev.prompt)
           /\ r.notice = NoNotice
<1> DEFINE s == ev.session
           m == Invalidate(d, a, b)
           row == [m.session[s] EXCEPT !.retry = 0]
           e == WithSession(m, s, row)
<1>1. r.store = e /\ r.notice = NoNotice
  BY DEF AfterStarted, WithSession
<1>2. /\ Sound(m) /\ OnlyPrompts(d, m) /\ ClosesPrompts(d, m)
      /\ LeavesOthers(d, m, s, ev.prompt)
  BY InvalidateEffect
<1> HIDE DEF m
<1>3. m \in StoreType /\ m.session[s] \in Session /\ m.session \in [Sessions -> Session]
  BY <1>2 DEF Sound, StoreType
<1>4. /\ row \in Session /\ row.token = m.session[s].token
      /\ row.watched = m.session[s].watched /\ row.terminal = m.session[s].terminal
      /\ row.retry = 0
  BY <1>3, SomeRetry DEF Session
<1> HIDE DEF row
<1>5. e \in StoreType /\ OnlySessions(m, e) /\ SetsSession(m, e, s, row)
  BY <1>3, <1>4, WriteSession
<1> HIDE DEF e
<1>6. /\ SameBindings(d, e) /\ SameStates(d, e) /\ SamePrompts(m, e)
      /\ KeepsTasks(d, e) /\ SetsSession(d, e, s, row) /\ m.session = d.session
  BY <1>2, <1>5 DEF OnlySessions, OnlyPrompts, SameBindings, SameStates, SameSessions,
     SameTasks, SamePrompts, SetsSession, KeepsTasks, KeepsTasksBut, InProgress
<1>7. EventSessions(d, e, s, ev.kind, source)
  BY <1>3, <1>4, <1>6 DEF EventSessions, SetsSession
<1>8. Sound(e) /\ ClosesPrompts(d, e) /\ LeavesOthers(d, e, s, ev.prompt)
  BY <1>2, <1>5, <1>6 DEF Sound, SamePrompts, ClosesPrompts, KeepsPlaces, LeavesOthers
<1> QED
  BY <1>1, <1>6, <1>7, <1>8

\* The rows of the chat and of the session at the end of a run.
EndRun(d, c, s, source, next) ==
    [d EXCEPT !.state[c] = next, !.session[s].token = @ /\ source = "watchdog",
              !.session[s].terminal = source, !.session[s].retry = 0]

LEMMA EndRunEffect ==
    ASSUME NEW d, d \in StoreType, NEW c \in Chats, NEW s \in Sessions,
           NEW source \in {"webhook", "watchdog"}, NEW next \in State
    PROVE  /\ EndRun(d, c, s, source, next) \in StoreType
           /\ SameBindings(d, EndRun(d, c, s, source, next))
           /\ SameTasks(d, EndRun(d, c, s, source, next))
           /\ SamePrompts(d, EndRun(d, c, s, source, next))
           /\ SetsState(d, EndRun(d, c, s, source, next), c, next)
           /\ EventSessions(d, EndRun(d, c, s, source, next), s, "failed", source)
<1> DEFINE token == d.session[s].token /\ source = "watchdog"
           row == [d.session[s] EXCEPT !.token = token, !.terminal = source, !.retry = 0]
           d1 == WithState(d, c, next)
           e == WithSession(d1, s, row)
<1>1. token \in BOOLEAN /\ (token => d.session[s].token)
  OBVIOUS
<1>2. EndRun(d, c, s, source, next) = e
  BY DEF EndRun, WithState, WithSession
<1> HIDE DEF token
<1>3. d.session[s] \in Session /\ d.session \in [Sessions -> Session]
  BY DEF StoreType
<1>4. /\ row \in Session /\ row.token = token
      /\ row.watched = d.session[s].watched /\ row.terminal = source /\ row.retry = 0
  BY <1>1, <1>3, SomeRetry DEF Session, TerminalSource
<1> HIDE DEF row
<1>5. d1 \in StoreType /\ OnlyStates(d, d1) /\ SetsState(d, d1, c, next)
  BY WriteState
<1> HIDE DEF d1
<1>6. e \in StoreType /\ OnlySessions(d1, e) /\ SetsSession(d1, e, s, row)
  BY <1>4, <1>5, WriteSession
<1> HIDE DEF e
<1>7. /\ SameBindings(d, e) /\ SamePrompts(d, e) /\ SameTasks(d, e)
      /\ SetsState(d, e, c, next) /\ SetsSession(d, e, s, row)
  BY <1>5, <1>6 DEF OnlyStates, OnlySessions, SameBindings, SameStates, SameSessions,
     SameTasks, SamePrompts, SetsState, SetsSession
<1>8. EventSessions(d, e, s, "failed", source)
  BY <1>1, <1>3, <1>4, <1>7 DEF EventSessions, SetsSession
<1> QED
  BY <1>2, <1>6, <1>7, <1>8

LEMMA AfterTerminalEffect ==
    ASSUME NEW d, Sound(d), NEW c \in Chats, NEW ev, ev.session \in Sessions,
           ev.kind \notin {"needs-input", "started"}, NEW source \in {"webhook", "watchdog"},
           NEW a \in Latest(d, ev.session, "active"),
           NEW b \in Latest(d, ev.session, "submitted"),
           NEW r, r = AfterTerminal(d, c, ev, source, a, b)
    PROVE  /\ Sound(r.store) /\ SameBindings(d, r.store) /\ KeepsTasks(d, r.store)
           /\ FreesState(d, r.store, c) /\ StaysBusy(d, r.store, c)
           /\ EventSessions(d, r.store, ev.session, ev.kind, source)
           /\ ClosesPrompts(d, r.store) /\ LeavesOthers(d, r.store, ev.session, ev.prompt)
           /\ NoticeOf(r.store, r.notice, ev.prompt)
<1> DEFINE p == Invalidated(a, b)
           m == Invalidate(d, a, b)
           status == IF ev.kind = "completed" THEN "completed" ELSE "failed"
           d1 == CompleteTask(m, d.state[c].task, status)
           mode == StableSessionMode(d1.state[c].mode)
           next == [mode |-> mode, task |-> None]
           e == EndRun(d1, c, ev.session, source, next)
           k == Cleanup(d, p)
           n == [kind |-> "terminal", show |-> None, cleanup |-> k]
<1>1. r.store = e /\ r.notice = n
  BY DEF AfterTerminal, EndRun
<1>2. /\ Sound(m) /\ OnlyPrompts(d, m) /\ ClosesPrompts(d, m)
      /\ p \in Prompts \cup {None}
      /\ p \in Prompts => m.prompt[p].status = "invalidated"
      /\ LeavesOthers(d, m, ev.session, ev.prompt)
  BY InvalidateEffect
<1>3. status \in {"completed", "failed"}
  OBVIOUS
<1> HIDE DEF m, p, status
<1>5. /\ k \in [prompt : Prompts \cup {None}, message : Nat]
      /\ k.prompt = p
      /\ k.message # 0 => p \in Prompts
  BY <1>2, CleanupType
<1> HIDE DEF k
<1>6. n \in Notice /\ n.cleanup = k /\ n.show = None
  BY <1>5 DEF Notice
<1> HIDE DEF n
<1>7. /\ d1 \in StoreType /\ OnlyTasks(m, d1) /\ KeepsTasks(m, d1)
      /\ ~InProgress(d1, d.state[c].task)
  BY <1>2, <1>3, CompleteTaskEffect DEF Sound
<1> HIDE DEF d1
<1>8. mode \in Modes /\ (d.state[c].mode = "task-running" => mode = "task-running")
  <2>1. d1.state[c].mode \in Modes /\ d1.state = d.state
    BY <1>2, <1>7 DEF StoreType, State, OnlyTasks, OnlyPrompts, SameStates
  <2> QED
    BY <2>1 DEF StableSessionMode, Modes
<1> HIDE DEF mode
<1>9. next \in State
  BY <1>8 DEF State
<1> HIDE DEF next
<1>10. /\ e \in StoreType /\ SameBindings(d1, e) /\ SameTasks(d1, e) /\ SamePrompts(d1, e)
       /\ SetsState(d1, e, c, next) /\ EventSessions(d1, e, ev.session, "failed", source)
  BY <1>7, <1>9, EndRunEffect
<1> HIDE DEF e
<1>11. d1.session = d.session
  BY <1>2, <1>7 DEF OnlyTasks, OnlyPrompts, SameSessions
<1>12. /\ SameBindings(d, e) /\ SamePrompts(m, e) /\ KeepsTasks(d, e)
       /\ SetsState(d, e, c, next) /\ ~InProgress(e, d.state[c].task)
  BY <1>2, <1>7, <1>10 DEF OnlyTasks, OnlyPrompts, SameBindings, SameStates, SameTasks,
     SamePrompts, SetsState, KeepsTasks, KeepsTasksBut, InProgress
<1>13. EventSessions(d, e, ev.session, ev.kind, source)
  BY <1>10, <1>11 DEF EventSessions
<1>14. FreesState(d, e, c)
  BY <1>8, <1>12 DEF FreesState, next
<1>15. Sound(e) /\ ClosesPrompts(d, e) /\ LeavesOthers(d, e, ev.session, ev.prompt)
  BY <1>2, <1>10, <1>12 DEF Sound, SamePrompts, ClosesPrompts, KeepsPlaces, LeavesOthers
<1>16. NoticeOf(e, n, ev.prompt)
  BY <1>2, <1>5, <1>6, <1>12, NoneIsNoId DEF NoticeOf, SamePrompts
<1>17. StaysBusy(d, e, c)
  <2>1. d.state \in [Chats -> State]
    BY DEF Sound, StoreType
  <2> QED
    BY <1>8, <1>12, <2>1 DEF SetsState, StaysBusy, next
<1> QED
  BY <1>1, <1>12, <1>13, <1>14, <1>15, <1>16, <1>17

\* The mutation of applyEvent, whatever the kind of the event.
LEMMA ApplyEventEffect ==
    ASSUME NEW d, Sound(d), NEW c \in Chats, NEW ev, ev.session \in Sessions,
           ev.prompt \in Prompts \cup {None}, NEW source \in {"webhook", "watchdog"},
           NEW a \in Latest(d, ev.session, "active"),
           NEW b \in Latest(d, ev.session, "submitted"),
           NEW r, r = ApplyEvent(d, c, ev, source, a, b)
    PROVE  /\ Sound(r.store) /\ SameBindings(d, r.store) /\ KeepsTasks(d, r.store)
           /\ SameStates(d, r.store) \/ FreesState(d, r.store, c)
           /\ ev.kind # "needs-input" => StaysBusy(d, r.store, c)
           /\ EventSessions(d, r.store, ev.session, ev.kind, source)
           /\ \/ ClosesPrompts(d, r.store)
              \/ /\ ev.kind = "needs-input" /\ ev.prompt \in Prompts
                 /\ RaisesOne(d, r.store, ev.prompt, ev.session, c)
           /\ NoticeOf(r.store, r.notice, ev.prompt)
           /\ LeavesOthers(d, r.store, ev.session, ev.prompt)
           /\ HumanPrompts /\ ev.kind = "needs-input" /\ ev.prompt \in Prompts =>
                 RaisesOne(d, r.store, ev.prompt, ev.session, c)
<1>1. CASE ev.kind = "needs-input"
  <2>1. r = AfterNeedsInput(d, c, ev, a, b)
    BY <1>1 DEF ApplyEvent
  <2> QED
    BY <1>1, <2>1, AfterNeedsInputEffect
<1>2. CASE ev.kind = "started"
  <2>1. r = AfterStarted(d, c, ev, a, b)
    BY <1>2 DEF ApplyEvent
  <2>2. NoticeOf(r.store, NoNotice, ev.prompt)
    BY NoneIsNoId DEF NoticeOf, NoNotice, Notice, NoCleanup
  <2> QED
    BY <1>2, <2>1, <2>2, AfterStartedEffect DEF SameStates, StaysBusy
<1>3. CASE ev.kind \notin {"needs-input", "started"}
  <2>1. r = AfterTerminal(d, c, ev, source, a, b)
    BY <1>3 DEF ApplyEvent
  <2> QED
    BY <1>3, <2>1, AfterTerminalEffect
<1> QED
  BY <1>1, <1>2, <1>3

-----------------------------------------------------------------------------
(* The start of the process                                                *)

\* What a start remembers of a chat.
Snapshot(k) == k.chat \in Chats /\ k.session \in Sessions /\ k.state \in State

LEMMA ActiveBindingsType ==
    ASSUME NEW d, d \in StoreType, NEW k \in ActiveBindings(d)
    PROVE  Snapshot(k)
<1>1. PICK c \in Chats : /\ d.binding[c].session # None
                         /\ k = [chat |-> c, session |-> d.binding[c].session,
                                 state |-> d.state[c]]
  BY DEF ActiveBindings
<1>2. d.binding[c] \in Binding /\ d.state[c] \in State
  BY DEF StoreType
<1> QED
  BY <1>1, <1>2 DEF Snapshot, Binding

LEMMA MarkHealthyEffect ==
    ASSUME NEW d, d \in StoreType, NEW ks
    PROVE  MarkHealthy(d, ks) \in StoreType /\ OnlyStates(d, MarkHealthy(d, ks))
<1> DEFINE row(c) == [d.state[c] EXCEPT !.mode = "session-linked"]
           states == [c \in Chats |-> IF \E k \in ks : k.chat = c THEN row(c) ELSE d.state[c]]
           e == [d EXCEPT !.state = states]
<1>1. states \in [Chats -> State]
  <2>1. ASSUME NEW c \in Chats
        PROVE  d.state[c] \in State /\ row(c) \in State
    <3>1. d.state[c] \in State
      BY DEF StoreType
    <3> QED
      BY <3>1 DEF State, Modes
  <2> QED
    BY <2>1
<1>2. MarkHealthy(d, ks) = e
  BY DEF MarkHealthy
<1> HIDE DEF states
<1>3. e \in StoreType /\ OnlyStates(d, e)
  BY <1>1 DEF StoreType, OnlyStates, SameBindings, SameSessions, SameTasks, SamePrompts
<1> QED
  BY <1>2, <1>3

LEMMA CloseBindingEffect ==
    ASSUME NEW d, d \in StoreType, NEW k, Snapshot(k)
    PROVE  /\ CloseBinding(d, k) \in StoreType
           /\ SameSessions(d, CloseBinding(d, k)) /\ SamePrompts(d, CloseBinding(d, k))
<1> DEFINE m == CompletePrevious(d, k.state.task)
           row == [m.binding[k.chat] EXCEPT !.session = None]
           d1 == WithBinding(m, k.chat, row)
           mode == IF d.binding[k.chat].project = None THEN "idle" ELSE "session-linked"
           next == [mode |-> mode, task |-> None]
           e == WithState(d1, k.chat, next)
<1>1. CloseBinding(d, k) = e
  BY DEF CloseBinding, WithBinding, WithState
<1>2. next \in State
  BY DEF State, Modes
<1> HIDE DEF next
<1>3. m \in StoreType /\ OnlyTasks(d, m)
  BY CompletePreviousEffect
<1> HIDE DEF m
<1>4. row \in Binding
  <2>1. m.binding[k.chat] \in Binding
    BY <1>3 DEF StoreType, Snapshot
  <2> QED
    BY <2>1 DEF Binding
<1> HIDE DEF row
<1>5. d1 \in StoreType /\ OnlyBindings(m, d1)
  BY <1>3, <1>4, WriteBinding DEF Snapshot
<1> HIDE DEF d1
<1>6. e \in StoreType /\ OnlyStates(d1, e)
  BY <1>2, <1>5, WriteState DEF Snapshot
<1> HIDE DEF e
<1> QED
  BY <1>1, <1>3, <1>5, <1>6 DEF OnlyTasks, OnlyBindings, OnlyStates, SameSessions, SamePrompts

LEMMA MarkRunningEffect ==
    ASSUME NEW d, d \in StoreType, NEW k, Snapshot(k), NEW task \in Tasks \cup {None}
    PROVE  /\ MarkRunning(d, k, task) \in StoreType
           /\ SameSessions(d, MarkRunning(d, k, task))
           /\ SamePrompts(d, MarkRunning(d, k, task))
<1> DEFINE next == [mode |-> IF task = None THEN "session-linked" ELSE "task-running",
                    task |-> task]
           d1 == WithState(d, k.chat, next)
           e == PutTask(d1, task, "in-progress", k.session)
<1>1. MarkRunning(d, k, task) = e
  BY DEF MarkRunning, WithState
<1>2. next \in State
  BY DEF State, Modes
<1> HIDE DEF next
<1>3. d1 \in StoreType /\ OnlyStates(d, d1)
  BY <1>2, WriteState DEF Snapshot
<1> HIDE DEF d1
<1>4. e \in StoreType /\ OnlyTasks(d1, e)
  BY <1>3, PutTaskEffect DEF Snapshot, TaskStatus
<1> HIDE DEF e
<1> QED
  BY <1>1, <1>3, <1>4 DEF OnlyTasks, OnlyStates, SameSessions, SamePrompts

LEMMA MarkNeedsAttentionEffect ==
    ASSUME NEW d, d \in StoreType, NEW k, Snapshot(k)
    PROVE  /\ MarkNeedsAttention(d, k) \in StoreType
           /\ SameSessions(d, MarkNeedsAttention(d, k))
           /\ SamePrompts(d, MarkNeedsAttention(d, k))
<1> DEFINE m == CompletePrevious(d, k.state.task)
           next == [mode |-> "needs-attention", task |-> None]
           e == WithState(m, k.chat, next)
<1>1. MarkNeedsAttention(d, k) = e
  BY DEF MarkNeedsAttention, WithState
<1>2. next \in State
  BY DEF State, Modes
<1> HIDE DEF next
<1>3. m \in StoreType /\ OnlyTasks(d, m)
  BY CompletePreviousEffect
<1> HIDE DEF m
<1>4. e \in StoreType /\ OnlyStates(m, e)
  BY <1>2, <1>3, WriteState DEF Snapshot
<1> HIDE DEF e
<1> QED
  BY <1>1, <1>3, <1>4 DEF OnlyTasks, OnlyStates, SameSessions, SamePrompts

LEMMA MarkDegradedEffect ==
    ASSUME NEW d, d \in StoreType, NEW k, Snapshot(k)
    PROVE  /\ MarkDegraded(d, k) \in StoreType
           /\ SameSessions(d, MarkDegraded(d, k)) /\ SamePrompts(d, MarkDegraded(d, k))
<1> DEFINE next == [k.state EXCEPT !.mode = StableSessionMode(k.state.mode)]
           e == WithState(d, k.chat, next)
<1>1. MarkDegraded(d, k) = e
  BY DEF MarkDegraded, WithState
<1>2. next \in State
  <2>1. StableSessionMode(k.state.mode) \in Modes
    BY DEF StableSessionMode, Modes, Snapshot, State
  <2> QED
    BY <2>1 DEF Snapshot, State
<1> HIDE DEF next
<1>3. e \in StoreType /\ OnlyStates(d, e)
  BY <1>2, WriteState DEF Snapshot
<1> HIDE DEF e
<1> QED
  BY <1>1, <1>3 DEF OnlyStates, SameSessions, SamePrompts

\* Putting the answer about a chat into the store changes no session and no
\* prompt.
LEMMA ReconciledEffect ==
    ASSUME NEW d, d \in StoreType, NEW k, Snapshot(k), NEW answer,
           NEW task \in Tasks \cup {None}
    PROVE  /\ Reconciled(d, k, answer, task) \in StoreType
           /\ SameSessions(d, Reconciled(d, k, answer, task))
           /\ SamePrompts(d, Reconciled(d, k, answer, task))
BY CloseBindingEffect, MarkRunningEffect, MarkNeedsAttentionEffect, MarkDegradedEffect
   DEF Reconciled

\* restoreAfterRestart takes tokens away and nothing else.
LEMMA RestoreEffect ==
    ASSUME NEW d, d \in StoreType
    PROVE  /\ Restore(d) \in StoreType
           /\ OnlySessions(d, Restore(d))
           /\ \A s \in Sessions :
                 /\ Restore(d).session[s].token => d.session[s].token
                 /\ Restore(d).session[s].terminal = d.session[s].terminal
                 /\ Restore(d).session[s].watched = d.session[s].watched
<1> DEFINE row(s) == IF LosesContinuity(d, s) THEN [d.session[s] EXCEPT !.token = FALSE]
                     ELSE d.session[s]
           rows == [s \in Sessions |-> row(s)]
           e == [d EXCEPT !.session = rows]
<1>1. Restore(d) = e
  BY DEF Restore
<1>2. ASSUME NEW s \in Sessions
      PROVE  /\ row(s) \in Session
             /\ row(s).token => d.session[s].token
             /\ row(s).terminal = d.session[s].terminal
             /\ row(s).watched = d.session[s].watched
  <2>1. d.session[s] \in Session
    BY DEF StoreType
  <2> QED
    BY <2>1 DEF Session
<1> HIDE DEF row
<1>3. rows \in [Sessions -> Session] /\ \A s \in Sessions : rows[s] = row(s)
  BY <1>2
<1> HIDE DEF rows
<1>4. e \in StoreType /\ OnlySessions(d, e) /\ e.session = rows
  BY <1>3 DEF StoreType, OnlySessions, SameBindings, SameStates, SameTasks, SamePrompts
<1> HIDE DEF e
<1> QED
  BY <1>1, <1>2, <1>3, <1>4

-----------------------------------------------------------------------------
(* The rows of SQLite                                                      *)

LEMMA CellValue == ASSUME NEW x PROVE <<x>> # NULL /\ <<x>>[1] = x
BY DEF NULL

LEMMA IdOfCell == ASSUME NEW id PROVE IdOf(CellOf(id)) = id
BY CellValue DEF IdOf, CellOf

LEMMA CellType == ASSUME NEW S, NEW cell \in Cell(S), cell # NULL PROVE cell[1] \in S
BY CellValue DEF Cell

LEMMA IdType == ASSUME NEW S, NEW cell \in Cell(S) PROVE IdOf(cell) \in S \cup {None}
BY CellType DEF IdOf

LEMMA TableRow ==
    ASSUME NEW keys, NEW row, NEW table \in Table(keys, row)
    PROVE  /\ DOMAIN table \subseteq keys
           /\ \A k \in DOMAIN table : table[k] \in row
BY DEF Table

LEMMA BindingRowType ==
    ASSUME NEW r \in BindingRow PROVE mapBindingRow(r) \in Binding
<1>1. /\ r.active_project_id \in Cell(Projects) /\ r.active_session_id \in Cell(Sessions)
  BY DEF BindingRow
<1>2. IdOf(r.active_project_id) \in Projects \cup {None}
  BY <1>1, IdType
<1>3. IdOf(r.active_session_id) \in Sessions \cup {None}
  BY <1>1, IdType
<1> QED
  BY <1>2, <1>3 DEF mapBindingRow, Binding

LEMMA StateRowType == ASSUME NEW r \in StateRow PROVE mapStateRow(r) \in State
<1>1. r.mode \in Modes /\ r.active_task_id \in Cell(Tasks)
  BY DEF StateRow
<1>2. IdOf(r.active_task_id) \in Tasks \cup {None}
  BY <1>1, IdType
<1> QED
  BY <1>1, <1>2 DEF mapStateRow, State

LEMMA SessionEntityType == ASSUME NEW e \in SessionEntity PROVE SessionOf(e) \in Session
<1>1. e.terminalSource \in Cell(TerminalSource \ {"none"}) /\ e.watchdogRetryCount \in Cell(0..MaxRetry)
  BY DEF SessionEntity
<1> DEFINE terminal == IF e.terminalSource = NULL THEN "none" ELSE e.terminalSource[1]
           retry == COALESCE(e.watchdogRetryCount, <<0>>)[1]
<1>2. terminal \in TerminalSource
  BY <1>1, CellType DEF TerminalSource
<1>3. retry \in 0..MaxRetry
  BY <1>1, CellType, CellValue, SomeRetry DEF COALESCE
<1> QED
  BY <1>2, <1>3 DEF SessionOf, Session

LEMMA SessionRowType ==
    ASSUME NEW r \in SessionRow PROVE mapSessionRow(r) \in SessionEntity
<1>1. /\ r.watcher_token \in Cell({"own"}) /\ r.watcher_enabled \in Cell({0, 1})
      /\ r.terminal_source \in Cell(TerminalSource \ {"none"})
      /\ r.watchdog_retry_count \in Cell(0..MaxRetry)
  BY DEF SessionRow
<1> DEFINE enabled == IF r.watcher_enabled = NULL THEN NULL ELSE <<r.watcher_enabled[1] = 1>>
<1>2. enabled \in Cell(BOOLEAN)
  BY DEF Cell
<1> QED
  BY <1>1, <1>2 DEF mapSessionRow, SessionEntity

LEMMA TaskRowType == ASSUME NEW r \in ActiveTaskRow PROVE mapActiveTaskRow(r) \in Task
BY DEF mapActiveTaskRow, ActiveTaskRow, Task

LEMMA PromptRowType == ASSUME NEW r \in PendingPromptRow PROVE mapPendingPromptRow(r) \in Prompt
<1> DEFINE message == IF r.telegram_message_id = NULL THEN 0 ELSE r.telegram_message_id[1]
           pressed == r.telegram_callback_query_id # NULL
<1>1. message \in Nat /\ pressed \in BOOLEAN
  BY DEF PendingPromptRow, Cell
<1>2. mapPendingPromptRow(r) =
        [status |-> r.status, session |-> r.session_id, chat |-> r.chat_id,
         message |-> message, pressed |-> pressed]
  BY DEF mapPendingPromptRow
<1> HIDE DEF message, pressed
<1> QED
  BY <1>1, <1>2 DEF PendingPromptRow, Prompt

\* What the readers of a database see is a store.
THEOREM RowsTyped == ASSUME NEW q \in Database PROVE Rows(q) \in StoreType
<1>1. /\ q.projects \subseteq Projects
      /\ q.bindings \in Table(Chats, BindingRow) /\ q.states \in Table(Chats, StateRow)
      /\ q.sessions \in Table(Sessions, SessionRow)
      /\ q.active_tasks \in Table(Tasks, ActiveTaskRow)
      /\ q.pending_prompts \in Table(Prompts, PendingPromptRow)
  BY DEF Database
<1>2. ASSUME NEW c \in Chats PROVE findBinding(q, c) \in Binding
  BY <1>1, TableRow, BindingRowType DEF findBinding, Binding
<1>3. ASSUME NEW c \in Chats PROVE findState(q, c) \in State
  BY <1>1, TableRow, StateRowType DEF findState, State, IdleState, Modes
<1>4. ASSUME NEW s \in Sessions PROVE findSession(q, s) \in Session
  BY <1>1, TableRow, SessionRowType, SessionEntityType, SessionRows DEF findSession
<1>5. ASSUME NEW t \in Tasks PROVE findTask(q, t) \in Task
  BY <1>1, TableRow, TaskRowType DEF findTask, Task, TaskStatus
<1>6. ASSUME NEW p \in Prompts PROVE findPrompt(q, p) \in Prompt
  BY <1>1, TableRow, PromptRowType DEF findPrompt, Prompt, NoPrompt, PromptStatus
<1> QED
  BY <1>1, <1>2, <1>3, <1>4, <1>5, <1>6 DEF Rows, StoreType

\* The upsert of a binding is to its readers the write
\* of the JSON driver: this binding, and no other row.
THEOREM BindingWritten ==
    ASSUME NEW q \in Database, NEW c \in Chats, NEW b \in Binding
    PROVE  Rows(upsertBinding(q, c, b)) = [Rows(q) EXCEPT !.binding[c] = b]
<1> DEFINE row == [active_project_id |-> CellOf(b.project), active_session_id |-> CellOf(b.session)]
           e == upsertBinding(q, c, b)
<1>1. mapBindingRow(row) = b
  BY IdOfCell DEF mapBindingRow, Binding
<1> HIDE DEF row
<1>2. /\ e.bindings = Upsert(q.bindings, c, row) /\ e.projects = q.projects
      /\ e.states = q.states /\ e.sessions = q.sessions
      /\ e.active_tasks = q.active_tasks /\ e.pending_prompts = q.pending_prompts
  BY DEF upsertBinding, row, Database
<1> HIDE DEF e
<1>3. /\ DOMAIN e.bindings = DOMAIN q.bindings \cup {c} /\ e.bindings[c] = row
      /\ \A k \in DOMAIN q.bindings : k # c => e.bindings[k] = q.bindings[k]
  BY <1>2 DEF Upsert
<1>4. ASSUME NEW x \in Chats
      PROVE  findBinding(e, x) = IF x = c THEN b ELSE findBinding(q, x)
  <2>1. CASE x = c
    BY <1>1, <1>3, <2>1 DEF findBinding
  <2>2. CASE x # c
    <3>1. x \in DOMAIN e.bindings <=> x \in DOMAIN q.bindings
      BY <1>3, <2>2
    <3>2. x \in DOMAIN q.bindings => e.bindings[x] = q.bindings[x]
      BY <1>3, <2>2
    <3> QED
      BY <2>2, <3>1, <3>2 DEF findBinding
  <2> QED
    BY <2>1, <2>2
<1>5. Rows(e).binding = [Rows(q).binding EXCEPT ![c] = b]
  BY <1>4 DEF Rows
<1>6. /\ Rows(e).projects = Rows(q).projects /\ Rows(e).state = Rows(q).state
      /\ Rows(e).session = Rows(q).session /\ Rows(e).task = Rows(q).task
      /\ Rows(e).prompt = Rows(q).prompt
  BY <1>2 DEF Rows, findState, findSession, findTask, findPrompt
<1> QED
  BY <1>5, <1>6 DEF e, Rows

\* The upsert of a chat's state is to its readers the write of the JSON driver.
THEOREM StateWritten ==
    ASSUME NEW q \in Database, NEW c \in Chats, NEW state \in State
    PROVE  Rows(upsertState(q, c, state)) = [Rows(q) EXCEPT !.state[c] = state]
<1> DEFINE row == [mode |-> state.mode, active_task_id |-> CellOf(state.task)]
           e == upsertState(q, c, state)
<1>1. mapStateRow(row) = state
  BY IdOfCell DEF mapStateRow, State
<1> HIDE DEF row
<1>2. /\ e.states = Upsert(q.states, c, row) /\ e.projects = q.projects
      /\ e.bindings = q.bindings /\ e.sessions = q.sessions
      /\ e.active_tasks = q.active_tasks /\ e.pending_prompts = q.pending_prompts
  BY DEF upsertState, row, Database
<1> HIDE DEF e
<1>3. /\ DOMAIN e.states = DOMAIN q.states \cup {c} /\ e.states[c] = row
      /\ \A k \in DOMAIN q.states : k # c => e.states[k] = q.states[k]
  BY <1>2 DEF Upsert
<1>4. ASSUME NEW x \in Chats
      PROVE  findState(e, x) = IF x = c THEN state ELSE findState(q, x)
  <2>1. CASE x = c
    BY <1>1, <1>3, <2>1 DEF findState
  <2>2. CASE x # c
    <3>1. x \in DOMAIN e.states <=> x \in DOMAIN q.states
      BY <1>3, <2>2
    <3>2. x \in DOMAIN q.states => e.states[x] = q.states[x]
      BY <1>3, <2>2
    <3> QED
      BY <2>2, <3>1, <3>2 DEF findState
  <2> QED
    BY <2>1, <2>2
<1>5. Rows(e).state = [Rows(q).state EXCEPT ![c] = state]
  BY <1>4 DEF Rows
<1>6. /\ Rows(e).projects = Rows(q).projects /\ Rows(e).binding = Rows(q).binding
      /\ Rows(e).session = Rows(q).session /\ Rows(e).task = Rows(q).task
      /\ Rows(e).prompt = Rows(q).prompt
  BY <1>2 DEF Rows, findBinding, findSession, findTask, findPrompt
<1> QED
  BY <1>5, <1>6 DEF e, Rows

\* The upsert of a session is to its readers the write of the JSON driver: a
\* Boolean that is kept as a number and a missing count that is kept as zero are
\* read back as they were meant.
THEOREM SessionWritten ==
    ASSUME NEW q \in Database, NEW s \in Sessions, NEW entity \in SessionEntity
    PROVE  Rows(upsertSession(q, s, entity)) = [Rows(q) EXCEPT !.session[s] = SessionOf(entity)]
<1> DEFINE row == LET enabled == entity.watcherEnabled IN
             [watcher_token |-> entity.watcherToken,
              watcher_enabled |-> IF enabled = NULL THEN NULL
                                  ELSE <<IF enabled[1] THEN 1 ELSE 0>>,
              terminal_source |-> entity.terminalSource,
              watchdog_retry_count |-> COALESCE(entity.watchdogRetryCount, <<0>>)]
           e == upsertSession(q, s, entity)
           number == IF entity.watcherEnabled = NULL THEN NULL
                     ELSE <<IF entity.watcherEnabled[1] THEN 1 ELSE 0>>
           count == COALESCE(entity.watchdogRetryCount, <<0>>)
<1>1. SessionOf(mapSessionRow(row)) = SessionOf(entity)
  <2>1. entity.watcherEnabled \in Cell(BOOLEAN)
    BY DEF SessionEntity
  <2>2. (IF number = NULL THEN NULL ELSE <<number[1] = 1>>) = <<TRUE>>
           <=> entity.watcherEnabled = <<TRUE>>
    <3>1. CASE entity.watcherEnabled = NULL
      BY <3>1, CellValue
    <3>2. ASSUME NEW b \in BOOLEAN, entity.watcherEnabled = <<b>>
          PROVE  (IF number = NULL THEN NULL ELSE <<number[1] = 1>>) = <<TRUE>> <=> b = TRUE
      <4> DEFINE n == IF b THEN 1 ELSE 0
      <4>1. n = 1 <=> b = TRUE
        OBVIOUS
      <4>2. entity.watcherEnabled # NULL /\ entity.watcherEnabled[1] = b
        BY <3>2, CellValue
      <4>3. number = <<n>>
        BY <4>2
      <4> HIDE DEF n, number
      <4>4. number # NULL /\ number[1] = n
        BY <4>3, CellValue
      <4>5. (IF number = NULL THEN NULL ELSE <<number[1] = 1>>) = <<n = 1>>
        BY <4>4
      <4>6. <<n = 1>> = <<TRUE>> <=> (n = 1) = TRUE
        BY CellValue
      <4> QED
        BY <4>1, <4>5, <4>6
    <3>3. \A b : <<b>> = <<TRUE>> <=> b = TRUE
      BY CellValue
    <3> QED
      BY <2>1, <3>1, <3>2, <3>3 DEF Cell
  <2>3. COALESCE(count, <<0>>) = count
    BY CellValue DEF COALESCE
  <2>4. row = [watcher_token |-> entity.watcherToken, watcher_enabled |-> number,
               terminal_source |-> entity.terminalSource, watchdog_retry_count |-> count]
    OBVIOUS
  <2> HIDE DEF row, number, count
  <2>5. SessionOf(mapSessionRow(row)) =
          [token |-> entity.watcherToken # NULL,
           watched |-> (IF number = NULL THEN NULL ELSE <<number[1] = 1>>) = <<TRUE>>,
           terminal |-> IF entity.terminalSource = NULL THEN "none" ELSE entity.terminalSource[1],
           retry |-> COALESCE(count, <<0>>)[1]]
    BY <2>4 DEF mapSessionRow, SessionOf
  <2> QED
    BY <2>2, <2>3, <2>5 DEF SessionOf, count
<1> HIDE DEF row
<1>2. /\ e.sessions = Upsert(q.sessions, s, row) /\ e.projects = q.projects
      /\ e.bindings = q.bindings /\ e.states = q.states
      /\ e.active_tasks = q.active_tasks /\ e.pending_prompts = q.pending_prompts
  BY DEF upsertSession, row, Database
<1> HIDE DEF e
<1>3. /\ DOMAIN e.sessions = DOMAIN q.sessions \cup {s} /\ e.sessions[s] = row
      /\ \A k \in DOMAIN q.sessions : k # s => e.sessions[k] = q.sessions[k]
  BY <1>2 DEF Upsert
<1>4. ASSUME NEW x \in Sessions
      PROVE  findSession(e, x) = IF x = s THEN SessionOf(entity) ELSE findSession(q, x)
  <2>1. CASE x = s
    BY <1>1, <1>3, <2>1 DEF findSession
  <2>2. CASE x # s
    <3>1. x \in DOMAIN e.sessions <=> x \in DOMAIN q.sessions
      BY <1>3, <2>2
    <3>2. x \in DOMAIN q.sessions => e.sessions[x] = q.sessions[x]
      BY <1>3, <2>2
    <3> QED
      BY <2>2, <3>1, <3>2 DEF findSession
  <2> QED
    BY <2>1, <2>2
<1>5. Rows(e).session = [Rows(q).session EXCEPT ![s] = SessionOf(entity)]
  BY <1>4 DEF Rows
<1>6. /\ Rows(e).projects = Rows(q).projects /\ Rows(e).binding = Rows(q).binding
      /\ Rows(e).state = Rows(q).state /\ Rows(e).task = Rows(q).task
      /\ Rows(e).prompt = Rows(q).prompt
  BY <1>2 DEF Rows, findBinding, findState, findTask, findPrompt
<1> QED
  BY <1>5, <1>6 DEF e, Rows

\* The upsert of a task is to its readers the write of the JSON driver, PutTask.
THEOREM TaskWritten ==
    ASSUME NEW q \in Database, NEW t \in Tasks, NEW s \in Sessions,
           NEW status \in TaskStatus \ {"none"}
    PROVE  Rows(upsertTask(q, t, status, s)) = PutTask(Rows(q), t, status, s)
<1> DEFINE row == [session_id |-> s, status |-> status]
           e == upsertTask(q, t, status, s)
<1>1. mapActiveTaskRow(row) = [status |-> status, session |-> s]
  BY DEF mapActiveTaskRow
<1> HIDE DEF row
<1>2. /\ e.active_tasks = Upsert(q.active_tasks, t, row) /\ e.projects = q.projects
      /\ e.bindings = q.bindings /\ e.states = q.states
      /\ e.sessions = q.sessions /\ e.pending_prompts = q.pending_prompts
  BY DEF upsertTask, row, Database
<1> HIDE DEF e
<1>3. /\ DOMAIN e.active_tasks = DOMAIN q.active_tasks \cup {t} /\ e.active_tasks[t] = row
      /\ \A k \in DOMAIN q.active_tasks : k # t => e.active_tasks[k] = q.active_tasks[k]
  BY <1>2 DEF Upsert
<1>4. ASSUME NEW x \in Tasks
      PROVE  findTask(e, x) = IF x = t THEN [status |-> status, session |-> s] ELSE findTask(q, x)
  <2>1. CASE x = t
    BY <1>1, <1>3, <2>1 DEF findTask
  <2>2. CASE x # t
    <3>1. x \in DOMAIN e.active_tasks <=> x \in DOMAIN q.active_tasks
      BY <1>3, <2>2
    <3>2. x \in DOMAIN q.active_tasks => e.active_tasks[x] = q.active_tasks[x]
      BY <1>3, <2>2
    <3> QED
      BY <2>2, <3>1, <3>2 DEF findTask
  <2> QED
    BY <2>1, <2>2
<1>5. Rows(e).task = [Rows(q).task EXCEPT ![t] = [status |-> status, session |-> s]]
  BY <1>4 DEF Rows
<1>6. /\ Rows(e).projects = Rows(q).projects /\ Rows(e).binding = Rows(q).binding
      /\ Rows(e).state = Rows(q).state /\ Rows(e).session = Rows(q).session
      /\ Rows(e).prompt = Rows(q).prompt
  BY <1>2 DEF Rows, findBinding, findState, findSession, findPrompt
<1> QED
  BY <1>5, <1>6 DEF e, Rows, PutTask

\* One row of the prompts is replaced.
LEMMA PromptReplaced ==
    ASSUME NEW q \in Database, NEW p \in DOMAIN q.pending_prompts, NEW row,
           p \in Prompts, NEW e,
           e.pending_prompts = [q.pending_prompts EXCEPT ![p] = row],
           e.projects = q.projects, e.bindings = q.bindings, e.states = q.states,
           e.sessions = q.sessions, e.active_tasks = q.active_tasks
    PROVE  Rows(e) = WithPrompt(Rows(q), p, mapPendingPromptRow(row))
<1>1. q.pending_prompts \in Table(Prompts, PendingPromptRow)
  BY DEF Database
<1>2. /\ DOMAIN e.pending_prompts = DOMAIN q.pending_prompts /\ e.pending_prompts[p] = row
      /\ \A k \in DOMAIN q.pending_prompts : k # p => e.pending_prompts[k] = q.pending_prompts[k]
  BY <1>1 DEF Table
<1>3. ASSUME NEW x \in Prompts
      PROVE  findPrompt(e, x) = IF x = p THEN mapPendingPromptRow(row) ELSE findPrompt(q, x)
  BY <1>2 DEF findPrompt
<1>4. Rows(e).prompt = [Rows(q).prompt EXCEPT ![p] = mapPendingPromptRow(row)]
  BY <1>3 DEF Rows
<1>5. /\ Rows(e).projects = Rows(q).projects /\ Rows(e).binding = Rows(q).binding
      /\ Rows(e).state = Rows(q).state /\ Rows(e).session = Rows(q).session
      /\ Rows(e).task = Rows(q).task
  BY DEF Rows, findBinding, findState, findSession, findTask
<1> QED
  BY <1>4, <1>5 DEF Rows, WithPrompt

LEMMA SamePrompt ==
    ASSUME NEW a \in Prompt, NEW b \in Prompt, a.status = b.status, a.session = b.session,
           a.chat = b.chat, a.message = b.message, a.pressed = b.pressed
    PROVE  a = b
BY DEF Prompt

\* Is a callback query known after the update.
Known(clear, query, before) == IF clear THEN FALSE ELSE IF query = NULL THEN before ELSE TRUE

\* The row of a prompt with another status.
Updated(row, to, pressed) == [row EXCEPT !.status = to, !.pressed = pressed]

\* compareAndSetStatus in SQL, whatever becomes of the callback query.
LEMMA StatusUpdated ==
    ASSUME NEW q \in Database, NEW p \in Prompts, NEW from, NEW to, NEW query, NEW clear \in BOOLEAN,
           from # "none", to \in PromptStatus, NEW pressed \in BOOLEAN,
           pressed = Known(clear, query, Rows(q).prompt[p].pressed)
    PROVE  Rows(compareAndSetStatus(q, p, from, to, query, clear)) =
             IF Rows(q).prompt[p].status = from
             THEN WithPrompt(Rows(q), p, Updated(Rows(q).prompt[p], to, pressed))
             ELSE Rows(q)
<1> DEFINE old == q.pending_prompts[p]
           cell == IF clear THEN NULL ELSE COALESCE(query, old.telegram_callback_query_id)
           row == [old EXCEPT !.status = to, !.telegram_callback_query_id = cell]
           e == compareAndSetStatus(q, p, from, to, query, clear)
<1>1. Rows(q).prompt[p] = findPrompt(q, p)
  BY DEF Rows
<1>2. CASE p \in DOMAIN q.pending_prompts /\ old.status = from
  <2>1. old \in PendingPromptRow
    BY <1>2, TableRow DEF Database
  <2>2. Rows(q).prompt[p] = mapPendingPromptRow(old)
    BY <1>1, <1>2 DEF findPrompt
  <2>3. Rows(q).prompt[p].status = from
    BY <1>2, <2>2 DEF mapPendingPromptRow
  <2>4. pressed <=> cell # NULL
    <3>1. Rows(q).prompt[p].pressed = (old.telegram_callback_query_id # NULL)
      BY <2>2 DEF mapPendingPromptRow
    <3> QED
      BY <3>1 DEF COALESCE, Known
  <2>5. e = [q EXCEPT !.pending_prompts[p] = row]
    BY <1>2 DEF compareAndSetStatus
  <2>6. /\ row.session_id = old.session_id /\ row.chat_id = old.chat_id /\ row.status = to
        /\ row.telegram_message_id = old.telegram_message_id
        /\ row.telegram_callback_query_id = cell
    BY <2>1 DEF PendingPromptRow
  <2> HIDE DEF row, cell, old
  <2>7. Rows(e) = WithPrompt(Rows(q), p, mapPendingPromptRow(row))
    <3>1. /\ e.pending_prompts = [q.pending_prompts EXCEPT ![p] = row]
          /\ e.projects = q.projects /\ e.bindings = q.bindings /\ e.states = q.states
          /\ e.sessions = q.sessions /\ e.active_tasks = q.active_tasks
      BY <2>5 DEF Database
    <3> HIDE DEF e
    <3> QED
      BY <1>2, <3>1, PromptReplaced
  <2>8. mapPendingPromptRow(row) = Updated(Rows(q).prompt[p], to, pressed)
    <3> DEFINE message == IF old.telegram_message_id = NULL THEN 0
                          ELSE old.telegram_message_id[1]
               before == old.telegram_callback_query_id # NULL
    <3>1. (row.telegram_callback_query_id # NULL) = pressed
      BY <2>4, <2>6
    <3>2. Rows(q).prompt[p] = [status |-> old.status, session |-> old.session_id,
                               chat |-> old.chat_id, message |-> message, pressed |-> before]
      BY <2>2 DEF mapPendingPromptRow
    <3>3. mapPendingPromptRow(row) = [status |-> to, session |-> old.session_id,
                                      chat |-> old.chat_id, message |-> message,
                                      pressed |-> pressed]
      BY <2>6, <3>1 DEF mapPendingPromptRow
    <3> HIDE DEF message, before
    <3>4. Rows(q).prompt[p] \in Prompt /\ pressed \in BOOLEAN
      BY RowsTyped DEF StoreType
    <3> DEFINE new == Updated(Rows(q).prompt[p], to, pressed)
    <3>8. /\ Rows(q).prompt[p].session = old.session_id /\ Rows(q).prompt[p].chat = old.chat_id
          /\ Rows(q).prompt[p].message = message
      BY <3>2
    <3>5. /\ new \in Prompt /\ new.status = to /\ new.session = old.session_id
          /\ new.chat = old.chat_id /\ new.message = message /\ new.pressed = pressed
      BY <3>4, <3>8 DEF Prompt, Updated
    <3>6. mapPendingPromptRow(row) \in Prompt
      BY <3>2, <3>3, <3>4 DEF Prompt
    <3> HIDE DEF new
    <3>7. new = mapPendingPromptRow(row)
      BY <3>3, <3>5, <3>6, SamePrompt
    <3> QED
      BY <3>7 DEF new
  <2> QED
    BY <2>3, <2>7, <2>8
<1>3. CASE ~(p \in DOMAIN q.pending_prompts /\ old.status = from)
  <2>1. e = q
    BY <1>3 DEF compareAndSetStatus
  <2>2. Rows(q).prompt[p].status # from
    BY <1>1, <1>3 DEF findPrompt, NoPrompt, mapPendingPromptRow
  <2> QED
    BY <2>1, <2>2
<1> QED
  BY <1>2, <1>3

\* compareAndSetStatus, an UPDATE with the expected status in its WHERE, is the
\* compare-and-set of the JSON driver: one row, if it has the status, and a
\* callback query that is forgotten on the way back to active only.
THEOREM StatusCompared ==
    ASSUME NEW q \in Database, NEW p \in Prompts,
           NEW from \in PromptStatus \ {"none"}, NEW to \in PromptStatus
    PROVE  Rows(compareAndSetStatus(q, p, from, to, NULL, to = "active"))
              = CompareAndSet(Rows(q), p, from, to)
<1> DEFINE row == Rows(q).prompt[p]
           kept == row.pressed /\ to # "active"
           clear == to = "active"
<1>1. row \in Prompt
  BY RowsTyped DEF StoreType
<1>2. CompareAndSet(Rows(q), p, from, to) =
        IF row.status = from
        THEN WithPrompt(Rows(q), p, Updated(row, to, kept))
        ELSE Rows(q)
  BY DEF CompareAndSet, WithPrompt, Updated
<1>3. kept \in BOOLEAN /\ clear \in BOOLEAN /\ kept = Known(clear, NULL, row.pressed)
  BY <1>1 DEF Prompt, Known
<1> HIDE DEF kept, clear
<1>4. Rows(compareAndSetStatus(q, p, from, to, NULL, clear)) =
        IF row.status = from
        THEN WithPrompt(Rows(q), p, Updated(row, to, kept))
        ELSE Rows(q)
  <2>1. from # "none"
    OBVIOUS
  <2> QED
    BY <1>3, <2>1, StatusUpdated
<1> QED
  BY <1>2, <1>4 DEF kept, clear

\* The same UPDATE, with the callback query of the button or without, submits an
\* open prompt as the JSON driver does.
THEOREM SubmissionWritten ==
    ASSUME NEW q \in Database, NEW p \in Prompts, Rows(q).prompt[p].status = "active",
           NEW byButton \in BOOLEAN
    PROVE  Rows(compareAndSetStatus(q, p, "active", "submitted",
                                    IF byButton THEN <<"query">> ELSE NULL, FALSE))
              = SubmitPreflight(Rows(q), p, byButton)
<1> DEFINE row == Rows(q).prompt[p]
           query == IF byButton THEN <<"query">> ELSE NULL
           d == Rows(q)
           m == CompareAndSet(d, p, "active", "submitted")
           pressed == m.prompt[p].pressed \/ byButton
           last == [m.prompt[p] EXCEPT !.pressed = pressed]
           new == Updated(row, "submitted", pressed)
<1>1. d \in StoreType /\ row \in Prompt
  BY RowsTyped DEF StoreType
<1>2. m \in StoreType /\ OnlyPrompts(d, m) /\ KeepsPlaces(d, m)
      /\ MovesOne(d, m, p, "active", "submitted")
  BY <1>1, CompareAndSetEffect DEF PromptStatus
<1>3. m.prompt[p].pressed = row.pressed /\ \E r : m = WithPrompt(d, p, r)
  <2> DEFINE b == row.pressed /\ "submitted" # "active"
             r == [row EXCEPT !.status = "submitted", !.pressed = b]
  <2>1. b = row.pressed
    BY <1>1 DEF Prompt
  <2>2. m = WithPrompt(d, p, r)
    BY DEF CompareAndSet, WithPrompt
  <2> HIDE DEF b
  <2>3. r.pressed = b
    BY <1>1 DEF Prompt
  <2> HIDE DEF r, m
  <2>4. m.prompt[p] = r
    BY <1>1, <2>2 DEF WithPrompt, StoreType
  <2> QED
    BY <2>1, <2>2, <2>3, <2>4
<1>4. m.prompt[p] \in Prompt /\ m.prompt \in [Prompts -> Prompt]
  BY <1>2 DEF StoreType
<1>5. SubmitPreflight(d, p, byButton) = WithPrompt(m, p, last)
  BY DEF SubmitPreflight, WithPrompt
<1> HIDE DEF m
<1>6. pressed \in BOOLEAN /\ pressed = Known(FALSE, query, row.pressed)
  <2>1. row.pressed \in BOOLEAN /\ m.prompt[p].pressed = row.pressed
    BY <1>1, <1>3 DEF Prompt
  <2>2. query = NULL <=> ~byButton
    BY CellValue
  <2> HIDE DEF query
  <2> QED
    BY <2>1, <2>2 DEF Known
<1> HIDE DEF pressed
<1>7. last = new
  <2>1. SamePlace(row, m.prompt[p]) /\ m.prompt[p].status = "submitted"
    BY <1>2 DEF KeepsPlaces, MovesOne
  <2>2. /\ last \in Prompt /\ SamePlace(row, last)
        /\ last.status = "submitted" /\ last.pressed = pressed
    BY <1>4, <1>6, <2>1 DEF Prompt, SamePlace
  <2>3. /\ new \in Prompt /\ SamePlace(row, new)
        /\ new.status = "submitted" /\ new.pressed = pressed
    BY <1>1, <1>6 DEF Prompt, PromptStatus, SamePlace, Updated
  <2> HIDE DEF last, new
  <2> QED
    BY <2>2, <2>3, SamePrompt DEF SamePlace
<1> HIDE DEF last
<1>8. WithPrompt(m, p, last) = WithPrompt(d, p, last)
  <2>1. PICK r : m = WithPrompt(d, p, r)
    BY <1>3
  <2> HIDE DEF d
  <2> QED
    BY <1>1, <2>1 DEF WithPrompt, StoreType
<1>9. Rows(compareAndSetStatus(q, p, "active", "submitted", query, FALSE)) = WithPrompt(d, p, new)
  <2> DEFINE clear == FALSE
             from == "active"
             next == "submitted"
  <2>1. from # "none" /\ next \in PromptStatus /\ clear \in BOOLEAN
    BY DEF PromptStatus
  <2>2. pressed \in BOOLEAN /\ pressed = Known(clear, query, row.pressed)
    BY <1>6
  <2> HIDE DEF clear, query, from, next
  <2>3. Rows(compareAndSetStatus(q, p, from, next, query, clear)) =
          IF row.status = from THEN WithPrompt(d, p, Updated(row, next, pressed)) ELSE d
    BY <2>1, <2>2, StatusUpdated
  <2> QED
    BY <2>3 DEF clear, query, from, next
<1> QED
  BY <1>5, <1>7, <1>8, <1>9

\* findInProgressBySessionId and findActiveBySessionId choose among the rows that
\* the JSON driver's searches choose among.
THEOREM QueriesAgree ==
    ASSUME NEW q \in Database, NEW s \in Sessions
    PROVE  /\ inProgressBySessionId(q, s) =
                 {t \in Tasks : InProgress(Rows(q), t) /\ Rows(q).task[t].session = s}
           /\ activeBySessionId(q, s) = PromptsOf(Rows(q), s, "active")
<1>1. /\ q.active_tasks \in Table(Tasks, ActiveTaskRow)
      /\ q.pending_prompts \in Table(Prompts, PendingPromptRow)
  BY DEF Database
<1>2. DOMAIN q.active_tasks \subseteq Tasks /\ DOMAIN q.pending_prompts \subseteq Prompts
  BY <1>1, TableRow
<1>3. ASSUME NEW t \in Tasks
      PROVE  t \in inProgressBySessionId(q, s)
                <=> InProgress(Rows(q), t) /\ Rows(q).task[t].session = s
  BY DEF inProgressBySessionId, InProgress, Rows, findTask, mapActiveTaskRow
<1>4. ASSUME NEW p \in Prompts
      PROVE  p \in activeBySessionId(q, s)
                <=> Rows(q).prompt[p].session = s /\ Rows(q).prompt[p].status = "active"
  BY DEF activeBySessionId, Rows, findPrompt, mapPendingPromptRow, NoPrompt
<1>5. inProgressBySessionId(q, s) \subseteq Tasks /\ activeBySessionId(q, s) \subseteq Prompts
  BY <1>2 DEF inProgressBySessionId, activeBySessionId
<1> QED
  BY <1>3, <1>4, <1>5 DEF PromptsOf

====
