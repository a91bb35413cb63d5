# A verification project for telegram-opencode

The bot lets Telegram users control sessions of an OpenCode server: they choose a
project, create or attach a session, send texts and commands, answer the
questions a run asks, and are told when it ends. This directory holds TLA+
modules that model the bot's control flow, TLC configurations that check them on
small instances, and theorems about nearly all of the components with proofs for TLAPS.

Paths below are relative to the repository (`src/application/...`); `UC` is
`src/application/use-cases.ts`, `W` is `session-watcher-service.ts`, `BR` is
`boot-recovery-service.ts`, `AD` is `opencode-session-adapter.ts`.

## 1. The system

| Part | State it keeps | Operations | Who calls it |
| --- | --- | --- | --- |
| Telegram ingress (`bot.ts`, `handlers.ts`, `router.ts`) | counters of rejected updates | listeners of messages and presses, the bridge to the legacy endpoint, routing | Telegram |
| Chat lock (`chat-lock-manager.ts`) | map from chat to `{active, queue}` | `runExclusive` | every accepted update |
| Sender (`message-sender.ts`) | none; message references in prompt rows | `sendTelegramText` in chunks, notices, keyboards | handlers, watcher, mirror, start |
| Watcher queue (`enqueueByChat` in W) | map from chat to the last promise | enqueue, leave | webhook events and sweeps |
| Use cases (UC) | none; rows of the store | select project, attach, create, send text, run command, cancel, answer a prompt, status | router |
| Session watcher (W) | timer, the queue above | `handleIncomingEvent`, `runWatchdogSweep`, `restoreAfterRestart` | webhook receiver, timer, start |
| Boot recovery (BR) | notices in memory | `reconcileAll` | start |
| Start (`index.ts`) | order of the above | `main` | the process |
| Store (`factory.ts`, `sqlite-store.ts`, `json-store.ts`) | rows of projects, sessions, bindings, states, tasks, prompts | `runInTransaction`, opening with continuity, the fallback to JSON | everybody |
| HTTP adapter (AD, `opencode.ts`, `domain/errors.ts`) | none | one call per operation, a POST at most twice | use cases, watcher, recovery |
| CLI and PTY adapters (AD, `opencode-cli.ts`, `opencode-tmux-host.ts`) | `projectDirById`, tmux sessions | the same operations by processes and panes | use cases, recovery |
| OpenCode server (outside; played by `mock/opencode-mock.ts`) | sessions, their run, question and registered webhook | answers calls, sends webhooks | the bot |
| CLI mirror (`opencode-cli-mirror-service.ts`) | a cursor per session | sweep | timer, in CLI and PTY modes |

How they meet. A Telegram update of an allowed user takes the lock of its chat,
reads the status (which may ask the server and write the answer down), is routed
by it, and runs a use case: a transaction that reads the context, an adapter
call, and a second transaction that writes the outcome. Nothing but the chat
lock protects what is read in the first for use in the second. Webhook events and
watchdog sweeps take the watcher's queue of the chat, *not* the lock, so that
every gap between two transactions of a handler may contain an event, and the
other way round. All rows go through one store whose transactions are
serialised. A restart loses the lock, the queues, the notices, the timer and the
cache of directories, and keeps the store.

What is hard here: the two uncoordinated queues; adapter calls between a read
and a write; webhooks that are lost, late, duplicated or from an earlier run;
calls that time out and took effect; prompts answered from several places;
crashes between any two transactions; the order of the start; knowledge that is
only in memory or only in another process; a store that is opened, set aside or
replaced at each start. The full list, each at its line, is `hazards` in
`PROJECT.json`; every hazard names the properties that would catch it, or says
why there is none.

## 2. Modules

    FifoMutex    <-implements- ChatLock     <- ChatLockProofs
    FifoMutex    <-implements- PromiseQueue
    ChatLock + PromiseQueue    -> Queues    <- QueuesProofs, MCQueues

    ChatLock + Chunks + HttpClient -> Telegram <- TelegramProofs, MCTelegram

    DurableStore <-implements- JsonStore
    DurableStore <-implements- SqliteStore
    JsonStore + SqliteStore    -> Stores    <- StoresProofs, MCStores

    Store  <- UseCases, Watcher, OpenCode, BootRecovery
    Store  <- SqliteRows                    <- StoreProofs
    UseCases + Watcher + OpenCode + HttpClient -> SessionControl
    SessionControl -> SessionProperties -> MCSession
    SessionProperties + BootRecovery -> Restart -> MCRestart
    PromptLife   <-implements- SessionControl and Restart
    Restart + StoreProofs                   <- SessionProofs

    LocalModes <- LocalModesProofs, MCLocal
    CliMirror  <- CliMirrorProofs, MCCliMirror

* **FifoMutex** says what a per-chat queue promises: a line per chat, only its
  head inside, chats independent. **ChatLock** is `runExclusive` with the map
  entry (`present`, `active`, `queue`); a call that throws releases as one that
  returns does. **PromiseQueue** is `enqueueByChat`: `tail[c]` is the map entry
  and `previous[j]` the promise a job waits for; leaving and the deletion of the
  tail are one step because no `await` lies between them. Its `order` is a history
  variable, who called and has not left; the code has no such list, and the
  refinement shows that it behaves as if it had. **Queues** has both, as
  a process does.
* **Telegram** is the way of one update: the test of the user and the telemetry of
  rejected ones, the lock (a constant switches it off, as the configuration
  does), the handler with the legacy bridge and its way back to the router, the
  calls that send the answer chunk by chunk with the fallback to plain text, and
  every `catch` between a failing call and the listener. `at[u]` is the place of
  the handler, `sending[u]` the local variables of the sender, `last[c]` what
  stands last in a chat. What use cases do to rows is left to SessionControl:
  here a command may give or take the chat's session. **Chunks** is the division
  of a text as operators: paragraphs and lines are lengths, and one pair of tags
  may span paragraphs.
* **DurableStore** says what `runInTransaction` promises: atomic effects on top
  of each other, and no effect, then or later, of a transaction whose caller was told
  that it failed (`refused`). A store that flushes its files keeps what it has; for one
  that does not, `earlier` has the states to which a power failure may take it back.
  Damage takes everything away at once.
  **JsonStore** has the lock, the working copy, the temporary file, the rename, the
  swap of the memory copy, and the start with its backup and fresh file. Neither the
  file nor its directory is flushed (`json-store.ts:280-291`): `older` has the state
  files whose replacement is not on the disk yet, and a power failure leaves the latest
  file, one of those, or, where the name came to the disk before the text, a torn one.
  A transaction is identified with what it adds; rows are replaced and never
  changed in place, so that the shallow `cloneData` behaves as a copy.
  **SqliteStore** has the lock, BEGIN, the work, COMMIT or ROLLBACK, the write-ahead log
  with its checkpoint, and the start, which sets aside whatever it cannot open. SQLite
  itself is taken at its word: COMMIT is atomic and, with `synchronous = FULL`,
  on the disk when it returns. **Stores** is the choice of each start and the
  fallback.
* **Store** has the rows (project, session, binding, state, task, prompt) and
  the operations of the repositories. Times are left out, except that the order
  they impose is a choice: "the latest active prompt" is any active one, "stale"
  is any candidate. `awaitingInputAt`, `lastObservedAt` and
  `notificationSentAt` decide nothing and are left out. **SqliteRows** is how the
  SQLite repositories keep the same rows: columns with numbers for Booleans and
  NULL for what is absent, an upsert per table, and the conditional UPDATE of
  `compareAndSetStatus`. Its operators are functions of a database and are
  reached by no behaviour; what they do is proved, not model-checked.
* **UseCases** and **Watcher** hold the transactions as operators on the store;
  **SessionControl** holds the actions that sequence them, one for each stretch
  of code between two awaits. `op[h]` is what Telegram update `h` has in its
  local variables and where it is, `work[c]` the same for the watcher on chat
  `c`, `sweep[v]` the candidates that a sweep has read and not yet looked at,
  `inbox[c]` the webhook events in the queue of the chat. `keyboard`, `told` and
  `answers` record what the user sees and what the server took: `keyboard` has every
  message that asks a question, by its id in Telegram, and whether it has buttons. A
  message that Telegram showed without the bot learning its id, or whose id a failed
  transaction did not keep, has `lost` buttons, which nobody can take away.
* **HttpClient** is what a call of the server may come to: its status and
  transport error, the one repetition of `postWithShortRetry`, and the chain of
  mappings up to the code that a use case decides on.
* **OpenCode** is the environment. A run may end, fail, crash silently, ask or
  be answered at the computer at any time; webhooks are calls in `wire`.
  Tokens are `own` (made at the creation of the session) or `stray` (made for a
  message and not written to the row). The field `run` of an event is for
  properties; the code never sees it.
* **PromptLife** is the life of one prompt. **SessionProperties** states what
  SessionControl guarantees and, at its end, a claim it breaks.
* **BootRecovery** and **Restart** add the crash at any point, the
  reconciliation, and the start in the order of `index.ts`: recovery,
  receiver and polling, notices, `restoreAfterRestart`, timer.
* **LocalModes** is the bot on the CLI or the PTY adapter. Both call every session
  idle, so that no chat ever has a task; what matters is where an order runs.
  `cache` is `projectDirById`, `h[c]` the handler of a chat between two calls of a
  process or of the file system, `hosts` the tmux sessions. `unsure` is set when
  the code takes a directory on faith, and is there for the properties.
* **CliMirror** is the sweep of the mirror: targets read once, then each session
  read, cut after its cursor, and shown message by message. The chunks of a message are
  one step, after which the cursor moves; a failure anywhere among them may leave a part of
  the message, or all of it, in the chat (`sent = FALSE`), and the next sweep begins with
  that message again.

Definitions commented "A mutant" are changed forms of the definition that
follows them; they are used only to see that a property notices the change.

## 3. Runs

Bounds are per run: as few chats, sessions, tasks and prompts as its question
needs, and only the kinds of updates and faults that it is about (`Commands`,
`Faults`). One chat with one session and one or two tasks has every race
between a handler, the watcher and the server; two tasks are given where an
earlier run may be mistaken for a later one, two handlers where the lock
matters, two sessions or chats where binding matters. `MaxRetry` is 2, so that
the first failure is retried and the second is not. Task and prompt identifiers
are used once; when none is left the server refuses. Counters of notices and
answers stop at 2 ("more than once"). A duplicate of a webhook call may arrive
while no other duplicate waits. `answers` has one kind of end, since the watcher
closes prompts in the same branch for all (`EndKinds`), and lets
`submitPromptInput` fail (`"answer"` among the faults; `"server"` stands for the other calls), the
messages of notices (`"telegram"`) and their transactions (`"store"`). It has no sweeps.

| Run | Instance | What it shows |
| --- | --- | --- |
| `queues` | lock: three calls on one chat, two on another; chain: three jobs and one; some throw | one handler per chat and one job of the watcher per chat at a time, first come first served (both implement `FifoMutex`), no lost wakeup, no leaked map entry, everybody served |
| `runs` | one chat, one session, one task; texts, webhooks, sweeps; the server refuses connections, fails and times out, answers at once with a question, and asks while a call is under way; human prompts switched off | mode and task agree; a chat that changes its project is left with nothing of the session before; a failing server is asked `MaxRetry` times |
| `orders` | two handlers, all commands, two sessions (one known beforehand and attached), two tasks; answers that run, are over at once, or have no status | with the lock a session gets no order while it runs one; one task in progress per session, of a session the chat is linked to; at rest the chat has the task last given |
| `answers` | two handlers *without* the chat lock, one prompt with buttons; refused, failed and timed-out answers, notices that fail | the transactions alone keep one answer at a time; a submitted prompt is in somebody's hands; the row of a question knows the message that has its buttons; a delivered question can be answered, also after a failed answer; refinement of `PromptLife` |
| `reboot` | a crash between any two steps; webhooks lost and duplicated; sweeps; the start asks the server | an end that nobody was told of and that is not recorded is reported by webhook, start or watchdog; an end has one cause; tokens do not come back |
| `reboot_prompts` | a crash during an answer by text; server and Telegram faults; the start with and without `BOOT_REMOTE_RECONCILE` | resolved means taken, refinement of `PromptLife` across restarts |
| `stores` | three transactions, two crashes; statements, writes, renames and the set-aside fail, power is lost, a database rots, Node has no SQLite | both drivers implement `DurableStore`, the one while starts go to the other: SQLite without losing a commit, JSON with the power failures that take it back to an older file; the memory of the JSON driver is what its file is; every caller hears of its transaction |
| `cli_mirror` | two chats, two sessions: one that cannot always be read, one with two messages that grow; Telegram refuses, or shows a part or all of a message and its answer is lost; one restart | messages in order while they do not grow, and none again that was sent; one that follows is shown as a whole to a chat of its session; the broken session holds up no other |
| `local` | two chats, one project, three sessions (in its directory, in another, listed without a path), restarts that may change the mode and may skip the remote check, every external call may fail | orders run in the directory of their session; chats of a project agree on it |
| `telegram` | one chat: a text, a command and a press at a time, with a press without a message and two updates of a stranger; bridge on or off; store, bridge and Telegram fail; texts of one to three chunks with markup | long answers arrive whole and unmixed; a text runs once; a press is answered; strangers are counted and nothing more |

The handlers of `answers` and the chats of `local` are interchangeable and those
runs have no liveness properties, so that symmetry is sound there. `stores`
runs without deadlock checking since the process may be down for good, `local`
and `telegram` since every update may be done with. Everywhere else no state is
without a successor.

In `telegram` a message holds 12 characters and a chunk 10, so that a text of a
few lines takes every branch of the division (block over two chunks, line too
long for a chunk, chunk too long for its number), and `SmallTexts` are all texts of
at most two paragraphs with at most three lines each of sizes around the limits.

In `local` the constraint `Sure` stops at states in which the code has taken a
directory on faith: after a start that kept a session which it could not ask about or,
with `BOOT_REMOTE_RECONCILE=false`, did not ask about (the cache is then empty), after a
session without a path, or after a lookup that came late. What is left is what the
adapter means to guarantee; what lies behind the constraint is listed below as
disagreement, and `wrong_project` shows the shortest way there.

**Claims that the code does not keep.** Two runs end in a counterexample to a
statement of the documentation; statement and steps are under `findings`.

| Run | What happens |
| --- | --- |
| `zombie_lock` | when the watchdog finds that a session has died it records the end and leaves the chat running without a task: the chat stays busy for ever (RFC-007 says that the lock is released) |
| `wrong_project` | after a restart no directory is cached for the project, and a session of another directory is attached to it (RFC-003 says that it is refused and never reassociated in silence) |

### Disagreements

These were met on the way and have no run of their own.

Sessions and prompts.

* The first case of `zombie_lock` with a webhook: W:463 leaves `task-running`
  without a task, which `entities.ts:221` excludes. `selectProject` (UC:258) leaves
  `idle` with a project (`entities.ts:190`), the start (BR:299) `session-linked` without a
  session (`entities.ts:207`).
* UC:443: an end that comes between the adapter call and the second transaction of
  `sendText` is told, forgotten and told again; two chats on one session have two
  tasks in progress (RFC-002:80).
* W:426: the STARTED branch drops the clean-up of the buttons (RFC-008:57).
  W:447: an event of an unknown kind, such as that RFC's SESSION_RESUMED, ends the
  session. W:564: a question that comes twice opens a closed prompt, and its second
  message takes the place of the first in the row (`message-sender.ts:288`), whose buttons
  stay for ever. With `"webhook"` among the faults of `answers` TLC finds that against
  `ButtonsAreTracked`. W:656:
  `clearNeedsAttentionIfPromptClosed` writes the mode it read and clears nothing.
* W:148: a session that never ran is reported as ended. W:84: two sweeps that
  overlap ask once more than `MaxRetry`. W:96: a refused connection ends all
  watched sessions in the first sweep that meets it. UC:318: the end of a run
  on an attached session is never told (`casos-de-uso.md:112`).
* BR:299: a second crash before the notices of the start are sent loses them
  (RFC-005:74). BR:246: a running session with an end recorded earlier is not
  followed again (RFC-005:59). `index.ts:120`: updates are taken before
  `restoreAfterRestart`, which then cuts sessions made in between (RFC-005:45); W:170:
  a session whose end the watchdog recorded keeps its old token
  (`rfc7-watcher.ts:629`).

CLI and PTY modes.

* Every session is idle, so that the busy policy never rejects (RFC-006, 3.1),
  `/cancel` never interrupts a pane, and a start with the remote check unbinds every
  chat it can ask about, also one at work: RFC-005:56-60 and :85 have the chat keep a
  session that is still active.
* BR:158: a session without a path can be attached from two projects, and `attachSession`
  (UC:318) then writes the second into its row. The first chat is unbound by the next start, with
  the mode `error`.
* A session that OpenCode lists without a path, a listing that fails at the start and a
  lookup of the file system that comes late each let an order run in another directory.
  An attach that fails after the check has already changed the cache.
* The first answer of a session is taken as already seen by the mirror. A message of
  several chunks that fails after the first is shown from its beginning by the next sweep
  (`message-sender.ts:67-72`), again and again while it fails.

Store.

* `sqlite-store.ts:219` and `json-store.ts:53`: any error of opening or reading sets
  a sound store aside; RFC-005:81 says a corrupt one. The names of set-aside SQLite
  files are fixed, so that the second overwrites the first.
* The JSON driver flushes nothing (`json-store.ts:280-291`): a power failure may undo
  transactions that were answered, and RFC-005 (6) wants the user to be without fear of
  that.
* The fallback to JSON hides what was answered on SQLite until SQLite works again.

Telegram.

* `message-sender.ts:345` takes an answer of Telegram that the client cannot parse for a
  complaint about markup: the question was shown, and is shown once more.
* A bridge whose answer was shown in part hands the text to the router, which
  answers too. Without the lock nothing catches the error of a handler.
* The plain-text fallback numbers a chunk twice, and a tag that spans chunks is
  split (RFC-010 says that none is); those chunks arrive as plain text.
* The texts of the watcher and of the mirror do not take the lock, and may come
  between the chunks of an answer.

## 4. Fairness

`SessionControl!Fairness` is weak fairness of every started handler and of every piece
of watcher work (adapter and Telegram calls have timeouts, transactions end), and strong
fairness of a candidate's turn in the queue (it is first come first served, which
`queues` checks) and of sweeps that list a given chat (the timer is a `setInterval` and
an unheard session is stale at every later tick). Users, runs of the server and webhooks
are not fair: runs may last for ever and webhooks be lost. `DeliverySpec` adds the
arrival of webhooks and is used only for `zombie_lock`, whose counterexample is stronger
with it. `FairRestartSpec` adds that a start that does not crash is completed. `Queues`
assumes that work ends and that resolved promises are gone on with, and of callers
nothing; `Stores` that a transaction which was begun goes on, on either driver, since
calls of the OS and of SQLite return. `Telegram` assumes that the handler of a press
goes on, since calls of Telegram and of OpenCode have timeouts; of other handlers it
assumes nothing. The mirror's assumes that its sweeps go on, that a session which is not
broken is read when it has its turn, and that Telegram, which is offered an unsent
message again by every sweep, takes it in the end (strong fairness of `Show`, since each
failure takes the message away until the next sweep). `LocalModes` needs none.

## 5. Proofs

The constants are arbitrary in all of them: any number of chats, calls,
updates, texts, transactions and crashes.

* `ChatLockProofs` (`Typing`, `Exclusion`, `Wakeup`, `Entries`, `Refinement`): the only
  assumption is that each call has a chat. Mutual exclusion
  alone is not inductive: a wakeup needs to know that the woken call is queued,
  once, on the chat it belongs to, and that nobody else runs. `IInv` adds that an
  active entry has exactly one running call, that entries exist only for
  holders, and that queues hold exactly the queued calls of their chat without
  repetition. The refinement maps a chat's line to its running call
  followed by its queue.
* `QueuesProofs` (`ChainRefinement`): the watcher's queue implements `FifoMutex` beside
  the lock, for any chats and calls. A call knows only the promise it found and the
  map only the last one, so the invariant `ChainInv` states what the promises add up
  to: the calls of a chat are in a line once each, every one but the first awaits the
  one before it, the first awaits nothing, and the map has the last.
* `TelegramProofs` (`TextIsRunOnce`, `AnswersStayWhole`) assumes `LockOn` and builds on
  the lock's `IInv`: every step of an update is a step of the lock or none
  (`LockSteps`), and whoever handles an update holds the lock (`HandlerRuns`). What is
  added per update is `RanOnce`, where the text has been run at each place of the
  handler and that the chat of a text which the bridge ran has no session until
  the router has looked, and `LastIsBefore`, that the chunk before the next one
  stands last in the chat. The step is divided into what a handler does to its own
  update (`HandlerOwn`) and that it disturbs no other (`HandlerOthers`, by mutual exclusion).
* `StoresProofs`, the JSON driver (`Typing`, `MemoryAgrees`, `Durability`,
  `AnsweredStays`): `Typing` and `MemoryAgrees` make no assumption on the disk. Their
  invariant says who holds the lock, that the line holds the waiting callers once,
  that the copy is memory plus the owner, that a temporary file about to be renamed
  is whole, and what the file holds at each step. `Durability`, the refinement of
  `DurableStore`, assumes `ReadsBack` (a whole file can be read) and needs in addition
  (`DInv`) that a start sets only a torn file aside, and that neither the file nor one of
  the older ones has a transaction that failed, so that a power failure, which may undo the
  latest ones, never brings back what a caller was told is not there. `AnsweredStays` assumes
  `ReliableDisk` (no loss of power either) and says that what a caller was told is
  done is in the file from then on. `MemoryAgreesAmongStores` and
  `DurabilityAmongStores` carry the two to `Stores`, where starts go to SQLite in
  between and leave the file alone.
* `StoresProofs`, the SQLite driver (`SqlDurability`): it implements `DurableStore`
  while starts choose between the drivers. It assumes `NeverBusy`, that nothing but
  damage keeps a database from opening, and shows `DurableStore` with nothing in `earlier`.
  Its invariant has the lock and the line as
  above, what the open transaction sees at each statement (`ViewOfContent`), and which
  state the database has in each phase of the start (`PhaseOfDb`), so that only a rotten
  database is ever renamed.
* `StoreProofs` has the lemmas about the rows, which repository operation keeps the
  store's type and which rows it touches, that SessionProofs cites at every step; and
  the theorems that the two drivers agree (`RowsTyped`, `BindingWritten`, `StateWritten`,
  `SessionWritten`, `TaskWritten`, `StatusCompared`, `SubmissionWritten`, `QueriesAgree`):
  for any database that the schema admits, an upsert read back is the write
  of the JSON driver and changes no other row, and both choose among the same rows.
* `SessionProofs` is about SessionControl (`Spec`) and Restart (`RestartSpec`), with
  any chats, handlers, sessions, tasks, prompts, sweeps and faults. Everything
  rests on `Typed` (`AlwaysTyped`, `RestartTyped`), the type invariant strengthened by
  what each handler and the watcher need at each place: an id where the next call
  wants one, rows that exist, candidates of a sweep that were watched. On top of it
  stand invariants of their own, each proved by one lemma per kind of step:
  - `SubmittedIsOwned`: a submitted prompt names its owner, a handler that is
    between its two transactions; an owner does not give up without writing.
  - `ResolvedIsTaken` (also after a crash): a handler that writes "resolved" has
    the server's yes in its local variables.
  - `PromptsLive` and `OneAnswerOnly` (also after a crash) by `OnceEach`: each question
    is in one place only, not asked yet, on the wire, in the queue or raised. They assume
    that webhooks are not duplicated; a question that comes twice opens a closed
    prompt (W:564).
  - `ButtonsTracked` rests on `OnceEach` and assumes the same. `AskedOnce` says that a question
    is asked by one notice in one message: a notice that is about to send it finds no message of
    it, and the one that has sent it knows the id until it is written down, so that no second
    message takes its place in the row. `Raised` says that what is asked was raised, and the
    call that raises a prompt finds it never raised.
  - `FirstCauseKept` with crashes, by `NoResumed`; it assumes that no event says that a
    session has resumed, which the code takes for an end (W:447).
  - `TokensSpent` with crashes, by `MintedOnce`: a token is minted for a row that is
    new, and a row that has been watched is never minted again.
  - `UnboundChatsIdle` assumes the chat lock; its invariant `Exclusive` says who holds it
    (`LockHeld`) and that what a handler has read of its chat still holds
    (`ReadsHold`), which the watcher's queue does not disturb.
  - `TasksRun` assumes that the server answers with statuses that the bot knows, and no
    lock (`AnswersPlain`: a task is written together with a mode that runs).
  - `TasksOfBoundSessions` assumes the lock (`OneHome`, `RowsNamed`: who may still write a task
    for a session is a handler of the one chat that is linked to it).
  - `AttemptsAreBounded` assumes one sweep at a time and that no two chats share a session
    (`Unshared`): `Counting` says that what a sweep has listed is not out of date but for what
    the sweep itself has counted.
  - `OneTaskInProgress` assumes the lock and `Unshared`. `Accounted` says that a task in
    progress is the task of a chat of its session (`Homed`), that a chat with a new order on its way
    has none (`Clear`), and that answers and runs bring only tasks that are known or new.
    Every write to the tasks is one of a few kinds (`DbStep`, `RunStep`).
  - `LatestTaskStays` assumes the lock, a server that answers what it has done
    (`"server" \notin Faults`), and `Separate`: no two chats work with one session, by a link
    or by an attach that is not written yet. What a handler carries to its second
    transaction is the latest task (`CarriesLatest`), and so is the row's (`LatestKnown`).
  - `NoRunOnTop` assumes the lock, such a server, `Unshared` and `NoneWaits`, that no session is
    waiting for an answer. `Informed`: a session that runs is one whose chat is known to be
    running or has a handler between its call and the write, so that the busy policy of
    `sendText` stops every other order. A bot which is told less cannot do it: an order that timed out
    may have been taken, and an answer that was given at the computer starts the run again.
  - `QuestionsStayOpen` needs no lock. It assumes human prompts, webhooks that come once,
    no sweeps, `Unshared`, and `CallsInOrder`: when the call that asked for the present
    question is handled, no other call of its session waits in the chat's queue. Each is
    needed: the code opens no question when prompts are switched off, and closes one when
    an older STARTED or a copy of an earlier call comes late (TLC finds the former with two
    questions in a session) and when a sweep takes a stale answer for a run that goes on;
    the call of a shared session may go to its other chat. `Questions` says that the question of a run that waits is on its
    way to the chat, or open there with at most an answer being given (`QuestionsKept`); that
    an answer which was taken is not one to it (`NobodyResolves`), as a handler answers
    the session of the prompt's row (`BridgeKnows`) and the server then goes on; and, since
    a question counts only with the token of its row, that no order can have had that
    token before the row was written (`OwnBorn`, `FreshlyMinted`). `CallsInOrder` holds in
    every state of the run `answers`.
* `TelegramProofs.StrangersCounted` needs no lock: `Turned` says how far the counters and the log
  have come for each stranger's update, and that no handler ever starts for one.
* `TelegramProofs.TextsArriveWhole` needs no lock either: `SentSoFar` says that the chunks on the
  screen are those before the next, in their order. It assumes that the division loses no line
  (`SmallTextsCarried`) and makes at least one chunk of a text (`TextsAssumption`, as in
  `message-sender.ts:391`): both are about folds over a text, and TLC evaluates both.
* `LocalModesProofs` (`Typing`, `InPlace`, `Agreement`), for any
  chats, projects, sessions, panes and restarts that change the mode. `Known` says what a
  handler has at each of its calls. `Placed` holds while no directory was taken on faith:
  each pane is in the directory of the session it is named for; while the bot is up
  the cache knows the directory of every linked session, and while it starts knows
  nothing else (`RowsFit`); and a handler which is past its check has the session's
  directory (`HandlersFit`). The cache is written by several handlers at once; what keeps
  it right is that an entry is never replaced by another (`CacheStep`). `InPlace` assumes
  that no two sessions have one name in tmux, since `toTmuxSessionName`
  (`opencode-tmux-host.ts:89`) lower-cases and replaces characters.

* `CliMirrorProofs` (`InOrder`): `ShownInOrder` for any chats that share and change
  sessions, any messages and any restarts. `MInv` relates the three places that
  know of a message: a key, in the cursor or still to be sent, is that of a message as
  it was at some time (`KeysAreOfMessages`, which survives the growth of messages because
  a text only gets longer); in a session whose messages did not grow, what is to be
  sent follows the cursor without a gap (`FreshFollows`), and no chat was shown
  anything after it (`ShownIsSeen`); what was sent is at or before the cursor, and what was
  shown in part at most one after it. When the cursor is forgotten, the next look sets it to
  the last message, which stands at or after everything that was shown.

Only model-checked: what the division of Chunks returns, since it folds over a text; and
liveness, which is out of the provers' reach as ENABLED is: `EverybodyServed`,
`EveryCallHeard`, `EndIsReported`, `FollowedIsShown` and `EveryPressIsAnswered`. Of the
passing runs every other property is stated by a theorem, under the assumptions above.

## 6. Where the models stop

* SessionControl and Restart have HTTP adapter mode, with the watcher enabled, from
  an empty store. In CLI and PTY modes `sendMessage` returns an empty message, so
  that the mirror's list of echoes to suppress stays empty; it is left out.
  `exportSession` and `runSessionMessage` are called by tests only.
* Sessions are created by the bot or known beforehand; times, wording, which markup
  arises from which text, aliases of commands and parsing are left out. A text has at
  most one pair of tags.
* `clearNeedsAttentionIfPromptClosed` writes the mode it reads and is no action.
  The two transactions of `expirePendingPromptIfNeeded` are one step because the
  second looks again at everything it uses.
* The branch of the recovery for rows that contradict each other (BR:120-185) is not
  modelled. Over HTTP a session has one project, and a binding and its session are
  written in one transaction. In the local modes a session without a path can be attached from
  two projects, and the branch is then taken; it takes the session from the chat, runs
  nothing and caches nothing. `local` has one project, and with two it is out of TLC's
  reach.
* A failed Telegram call during the start ends the process: it is a crash. So is
  the orderly shutdown on signals, for the store.
* The tables of SQLite and their constraints do not show in SqliteStore (SqliteRows
  has them): no write of the use cases violates UNIQUE or REFERENCES.
* tmux finds a session by a prefix of its name too; LocalModes takes names as exact, and its run takes no two sessions of one name.
  A timeout of a process is a call that fails.
* Some properties are checked under less than every fault, because the code
  does not aim at more. With the rest they fail, and the hazards say so one by one:
  - `OneRunAtATime` and `TaskIsTheLatest` without server faults (an order that timed out may
    have been taken) and without sessions that wait for an answer;
  - `TaskOnlyWhileRunning` without answers that carry a task and no status, and
    not for a start without the remote check, which keeps the task and links the chat;
  - `AttemptsBounded` with one sweep at a time, no two chats on one session and no crash;
  - `SubmittedHasOwner` without a crash; that an answer is given once in all is
    not stated, since one that timed out is given back;
  - `QuestionIsOpen` with one question per session, or calls handled in their order (a
    late STARTED may close a later question), and no sweeps (a prompt may expire);
  - `ImplementsPromptLife` with webhooks that come once;
  - `ButtonsAreTracked` with webhooks that come once (a second message takes the place of the
    first in the row), without a crash between the message and the row, and not for
    buttons whose id the bot did not learn or could not write down;
  - `EndIsReported` with a start that can ask the server and with one crash;
  - `ImplementsDurableStore` with files that can be read and databases that open if
    they are whole; for the JSON driver it says that a power failure takes the store back to
    what it was after an earlier transaction, or tears it, and not that it takes nothing;
  - `TextRunsOnce` and `AnswersDoNotMix` with the lock;
  - `ShownInOrder` for messages that did not grow; one whose sending failed is shown again;
  - `FollowedIsShown` for one of the chats that have the session, as they share its cursor;
  - `SubmittedHasOwner` and `OneAnswerAtATime` run without sweeps; the theorems have them.

### Not modelled

`config.ts` and `logger.ts` (read once; what matters is a constant), `templates.ts` and
`sanitize.ts` (wording), `start-local.js` and `stop-local.js` (processes of
the operating system), the parsing of HTTP requests by the webhook receiver, and
the programs under `src/verification/`, which are tests and were read for what they
expect of the code.

## 7. Plan

Done: the inventory; both queues with their proofs; the way of an update
with proofs; the bot at work, prompts and restarts with proofs; both stores, the
choice between them, and proofs for each; the rows of SQLite with the proof that they are
those of JSON; the local modes with proofs; the mirror with a proof; the HTTP client and
its errors; the division of texts.

Next, in this order:

1. Restarts with two chats and with overlapping sweeps.
2. The notices of the watcher as senders beside the handlers in Telegram.
