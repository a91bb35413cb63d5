----------------------------- MODULE LocalModes -----------------------------
(***************************************************************************)
(* The bot without an OpenCode server: CliOpenCodeSessionAdapter, which    *)
(* starts `opencode run` for each text, and PtyOpenCodeSessionAdapter,     *)
(* which types into a tmux pane (opencode-session-adapter.ts,              *)
(* opencode-cli.ts, opencode-tmux-host.ts), under the use cases and the    *)
(* recovery at the start.  Both know the directory of a project from a     *)
(* cache in memory only.                                                   *)
(*                                                                         *)
(* Any session is said to be idle, so that no chat ever has a task or is   *)
(* busy: a chat's row is its project and its session.  One handler at a    *)
(* time runs for a chat (ChatLock); handlers of several chats interleave   *)
(* at each call of a process and of the file system.                       *)
(***************************************************************************)
CONSTANTS Chats, Projects, Sessions, Dirs, Names,
          DirOf,     \* the directory that the selector of a project resolves to
          PathOf,    \* the path `opencode session list` gives for a session, or None
          NameOf,    \* toTmuxSessionName
          None,
          Modes,     \* values of OPEN_CODE_ADAPTER, from "cli" and "pty"
          RemoteReconcile,  \* values of BOOT_REMOTE_RECONCILE
          Faults     \* "list", "stat", "tmux", "spawn": calls that may fail;
                     \* "boot": the listing at the start may fail

ASSUME DirectoriesAssumption ==
    /\ DirOf \in [Projects -> Dirs] /\ PathOf \in [Sessions -> Dirs \cup {None}]
    /\ NameOf \in [Sessions -> Names]
    /\ None \notin Projects \cup Sessions \cup Dirs
    /\ Modes \subseteq {"cli", "pty"}
    /\ RemoteReconcile \subseteq BOOLEAN

VARIABLES mode, phase,   \* of the process: "boot" or "up"
          binding,       \* rows of chats
          rows,          \* projects that have a row
          cache,         \* projectDirById
          h,             \* the handler of each chat
          hosts,         \* tmux sessions
          ran,           \* the latest order carried out: for which session, and where
          asked,         \* chats that the start has not asked about yet
          unsure         \* a start kept a session that it did not ask or could not ask
                         \* about, or took the directory of a project from its
                         \* selector, or a handler put that directory in the place of
                         \* another

vars == <<mode, phase, binding, rows, cache, h, hosts, ran, asked, unsure>>

\* "look" stands for the commands that do no more than ask for the status:
\* /status, /help, /new, which both adapters refuse, and /cancel, which the
\* router answers itself as no chat has a task.
Ops == {"select", "attach", "send", "look"}
Free == [op |-> None, goal |-> None, at |-> "free", project |-> None, session |-> None, dir |-> None]
Host == [session : Sessions, dir : Dirs]
NoHost == [session |-> None, dir |-> None]

Handler == [op : Ops \cup {None}, goal : Ops \cup {"status", None},
            at : {"free", "load", "ask", "dir", "stat", "has", "new", "check", "type", "spawn", "commit"},
            project : Projects \cup {None}, session : Sessions \cup {None}, dir : Dirs \cup {None}]

LocalTypeOK ==
    /\ mode \in Modes /\ phase \in {"boot", "up"}
    /\ binding \in [Chats -> [project : Projects \cup {None}, session : Sessions \cup {None}]]
    /\ rows \in SUBSET Projects
    /\ cache \in [Projects -> Dirs \cup {None}]
    /\ h \in [Chats -> Handler]
    /\ hosts \in [Names -> Host \cup {NoHost}]
    /\ ran \in Host \cup {NoHost}
    /\ asked \in SUBSET Chats /\ unsure \in BOOLEAN

Bound(c) == binding[c].session # None

Init ==
    /\ mode \in Modes /\ phase = "up"
    /\ binding = [c \in Chats |-> [project |-> None, session |-> None]]
    /\ rows = {} /\ cache = [p \in Projects |-> None]
    /\ h = [c \in Chats |-> Free]
    /\ hosts = [n \in Names |-> NoHost]
    /\ ran = NoHost /\ asked = {} /\ unsure = FALSE

-----------------------------------------------------------------------------
(* Steps of a handler.                                                     *)

world == <<mode, phase, asked, unsure>>
Moves(c, f) == h' = [h EXCEPT ![c] = f]
MovesTo(c, at) == Moves(c, [h[c] EXCEPT !.at = at])

\* A goal that is reached or that failed: getStatus is followed by the order
\* itself, whatever it met.
Over(c) ==
    Moves(c, IF h[c].goal = "status"
             THEN [h[c] EXCEPT !.goal = h[c].op, !.at = "load", !.dir = None]
             ELSE Free)

\* The directory is known: what follows depends on the goal and the mode.
WithDir(c, d) ==
    CASE h[c].goal = "status" -> Over(c)
      [] h[c].goal = "attach" /\ mode = "cli" -> MovesTo(c, "commit")
      [] h[c].goal = "send" /\ mode = "cli" -> Moves(c, [h[c] EXCEPT !.at = "spawn", !.dir = d])
      [] OTHER -> Moves(c, [h[c] EXCEPT !.at = "has", !.dir = d])

\* A message arrives; the router asks for the status of the chat first.
Begin(c, op, p, s) ==
    /\ phase = "up" /\ h[c] = Free
    /\ op = "select" <=> p # None
    /\ op = "attach" <=> s # None
    /\ Moves(c, [op |-> op, goal |-> IF Bound(c) THEN "status" ELSE op,
                 at |-> IF Bound(c) THEN "ask" ELSE "load",
                 project |-> p, session |-> s, dir |-> None])
    /\ UNCHANGED <<world, binding, rows, cache, hosts, ran>>

\* The project and the session that the handler's goal is about.
ProjectOf(c) == IF h[c].goal = "select" THEN h[c].project ELSE binding[c].project
SessionOf(c) == IF h[c].goal = "attach" THEN h[c].session ELSE binding[c].session

\* The first transaction of a use case.
LoadSelect(c) ==
    /\ h[c].at = "load" /\ h[c].goal = "select"
    /\ MovesTo(c, IF h[c].project \in rows THEN "commit" ELSE "stat")

LoadAttach(c) ==
    /\ h[c].at = "load" /\ h[c].goal = "attach"
    /\ IF binding[c].project = None THEN Moves(c, Free) ELSE MovesTo(c, "ask")

LoadSend(c) ==
    /\ h[c].at = "load" /\ h[c].goal = "send"
    /\ IF Bound(c) THEN MovesTo(c, "dir") ELSE Moves(c, Free)

LoadLook(c) == h[c].at = "load" /\ h[c].goal = "look" /\ Moves(c, Free)

Load(c) ==
    /\ LoadSelect(c) \/ LoadAttach(c) \/ LoadSend(c) \/ LoadLook(c)
    /\ UNCHANGED <<world, binding, rows, cache, hosts, ran>>

\* A mutant: the directory of the project is not compared.
FitsAny(p, s) == TRUE

\* ensureSessionMatchesActiveProject: only a directory that is cached counts.
Fits(p, s) == cache[p] \in {None, PathOf[s]}

\* listSessions and, for a session with a path, the comparison with the cache.
Ask(c) ==
    LET p == ProjectOf(c)
        s == SessionOf(c) IN
    /\ h[c].at = "ask"
    /\ CASE PathOf[s] = None /\ mode = "pty" -> MovesTo(c, "dir") /\ UNCHANGED cache
         [] PathOf[s] = None /\ mode = "cli" -> WithDir(c, None) /\ UNCHANGED cache
         [] PathOf[s] # None /\ Fits(p, s) ->
                WithDir(c, PathOf[s]) /\ cache' = [cache EXCEPT ![p] = PathOf[s]]
         [] PathOf[s] # None /\ ~Fits(p, s) -> Over(c) /\ UNCHANGED cache
    /\ UNCHANGED <<world, binding, rows, hosts, ran>>

\* The listing fails, times out or does not have the session.
AskFails(c) ==
    /\ h[c].at = "ask" /\ "list" \in Faults
    /\ Over(c)
    /\ UNCHANGED <<world, binding, rows, cache, hosts, ran>>

\* A mutant: a directory that is not cached is not resolved.
DirUnresolved(c) ==
    /\ h[c].at = "dir"
    /\ WithDir(c, cache[ProjectOf(c)])
    /\ UNCHANGED <<world, binding, rows, cache, hosts, ran>>

\* resolveProjectDir
Dir(c) ==
    /\ h[c].at = "dir"
    /\ IF cache[ProjectOf(c)] # None THEN WithDir(c, cache[ProjectOf(c)]) ELSE MovesTo(c, "stat")
    /\ UNCHANGED <<world, binding, rows, cache, hosts, ran>>

\* resolveCanonicalProjectPath of the selector.  What another handler cached
\* since the look into the cache is overwritten.
Stat(c) ==
    LET p == ProjectOf(c) IN
    /\ h[c].at = "stat"
    /\ cache' = [cache EXCEPT ![p] = DirOf[p]]
    /\ unsure' = (unsure \/ cache[p] \notin {None, DirOf[p]})
    /\ IF h[c].goal = "select" THEN MovesTo(c, "commit") ELSE WithDir(c, DirOf[p])
    /\ UNCHANGED <<mode, phase, asked, binding, rows, hosts, ran>>

StatFails(c) ==
    /\ h[c].at = "stat" /\ "stat" \in Faults
    /\ Over(c)
    /\ UNCHANGED <<world, binding, rows, cache, hosts, ran>>

\* The last transaction of selectProject and of attachSession.
Commit(c) ==
    /\ h[c].at = "commit"
    /\ binding' = [binding EXCEPT ![c] = [project |-> ProjectOf(c), session |-> h[c].session]]
    /\ rows' = rows \cup {ProjectOf(c)}
    /\ Moves(c, Free)
    /\ UNCHANGED <<world, cache, hosts, ran>>

-----------------------------------------------------------------------------
(* CLI: a process per text.  PTY: tmux.                                    *)

\* startSessionMessage: the process runs on by itself.
Spawn(c) ==
    /\ h[c].at = "spawn"
    /\ ran' = [session |-> binding[c].session, dir |-> h[c].dir]
    /\ Moves(c, Free)
    /\ UNCHANGED <<world, binding, rows, cache, hosts>>

SpawnFails(c) ==
    /\ h[c].at = "spawn" /\ "spawn" \in Faults
    /\ Moves(c, Free)
    /\ UNCHANGED <<world, binding, rows, cache, hosts, ran>>

HostFor(c) == NameOf[SessionOf(c)]
HostReady(c) == MovesTo(c, IF h[c].goal = "attach" THEN "commit" ELSE "check")

\* ensureHostSession: has-session.  A call that fails counts as "no".
HasSession(c) ==
    /\ h[c].at = "has"
    /\ \/ hosts[HostFor(c)] # NoHost /\ HostReady(c)
       \/ (hosts[HostFor(c)] = NoHost \/ "tmux" \in Faults) /\ MovesTo(c, "new")
    /\ UNCHANGED <<world, binding, rows, cache, hosts, ran>>

\* A mutant: the pane opens where the project was selected.
NewSessionAtProject(c) ==
    /\ h[c].at = "new" /\ hosts[HostFor(c)] = NoHost
    /\ hosts' = [hosts EXCEPT ![HostFor(c)] = [session |-> SessionOf(c), dir |-> DirOf[ProjectOf(c)]]]
    /\ HostReady(c)
    /\ UNCHANGED <<world, binding, rows, cache, ran>>

NewSession(c) ==
    /\ h[c].at = "new" /\ hosts[HostFor(c)] = NoHost
    /\ hosts' = [hosts EXCEPT ![HostFor(c)] = [session |-> SessionOf(c), dir |-> h[c].dir]]
    /\ HostReady(c)
    /\ UNCHANGED <<world, binding, rows, cache, ran>>

\* The name is taken, by another handler or before has-session failed; or tmux fails.
NewSessionFails(c) ==
    /\ h[c].at = "new" /\ (hosts[HostFor(c)] # NoHost \/ "tmux" \in Faults)
    /\ Moves(c, Free)
    /\ UNCHANGED <<world, binding, rows, cache, hosts, ran>>

\* sendInput looks again, and refuses if the pane is gone.
Check(c) ==
    /\ h[c].at = "check"
    /\ IF hosts[HostFor(c)] # NoHost THEN MovesTo(c, "type") ELSE Moves(c, Free)
    /\ UNCHANGED <<world, binding, rows, cache, hosts, ran>>

\* send-keys: OpenCode in the pane takes the text.
Type(c) ==
    /\ h[c].at = "type" /\ hosts[HostFor(c)] # NoHost
    /\ ran' = [session |-> SessionOf(c), dir |-> hosts[HostFor(c)].dir]
    /\ Moves(c, Free)
    /\ UNCHANGED <<world, binding, rows, cache, hosts>>

TypeFails(c) ==
    /\ h[c].at = "type" /\ (hosts[HostFor(c)] = NoHost \/ "tmux" \in Faults)
    /\ Moves(c, Free)
    /\ UNCHANGED <<world, binding, rows, cache, hosts, ran>>

\* The user leaves OpenCode, or the machine is restarted.
HostEnds(n) ==
    /\ hosts[n] # NoHost /\ hosts' = [hosts EXCEPT ![n] = NoHost]
    /\ UNCHANGED <<world, binding, rows, cache, h, ran>>

-----------------------------------------------------------------------------
(* The process is stopped at any point and started, in any of the modes.   *)

WithSession == {c \in Chats : Bound(c)}

\* Without the remote check the start keeps all sessions; nothing is cached.
StartsAsking == TRUE \in RemoteReconcile /\ asked' = WithSession /\ UNCHANGED unsure
StartsUnasked ==
    /\ FALSE \in RemoteReconcile
    /\ asked' = {} /\ unsure' = (unsure \/ WithSession # {})

Restart ==
    /\ mode' \in Modes /\ phase' = "boot"
    /\ StartsAsking \/ StartsUnasked
    /\ h' = [c \in Chats |-> Free]
    /\ cache' = [p \in Projects |-> None]
    /\ UNCHANGED <<binding, rows, hosts, ran>>

\* closeBinding: a session that is idle is over.
CloseBinding(c) == binding' = [binding EXCEPT ![c].session = None]

\* reconcileAll for one chat; one whose session does not fit stays as it is.
\* A session that OpenCode gives no path for is looked up at the selector.
ReconcileBare(c) ==
    LET p == binding[c].project
        looked == mode = "pty" /\ cache[p] = None IN
    /\ PathOf[binding[c].session] = None
    /\ cache' = [cache EXCEPT ![p] = IF looked THEN DirOf[p] ELSE @]
    /\ unsure' = (unsure \/ looked)
    /\ CloseBinding(c)

ReconcileFitting(c) ==
    LET p == binding[c].project
        path == PathOf[binding[c].session] IN
    /\ path # None /\ Fits(p, binding[c].session)
    /\ cache' = [cache EXCEPT ![p] = path]
    /\ CloseBinding(c)
    /\ UNCHANGED unsure

ReconcileElsewhere(c) ==
    /\ PathOf[binding[c].session] # None /\ ~Fits(binding[c].project, binding[c].session)
    /\ UNCHANGED <<cache, binding, unsure>>

\* The listing does not have the session.
ReconcileMissing(c) ==
    /\ "list" \in Faults
    /\ CloseBinding(c)
    /\ UNCHANGED <<cache, unsure>>

Reconcile(c) ==
    /\ phase = "boot" /\ c \in asked /\ asked' = asked \ {c}
    /\ ReconcileBare(c) \/ ReconcileFitting(c) \/ ReconcileElsewhere(c) \/ ReconcileMissing(c)
    /\ UNCHANGED <<mode, phase, rows, h, hosts, ran>>

\* The chat is marked degraded.
ReconcileFails(c) ==
    /\ phase = "boot" /\ c \in asked /\ "boot" \in Faults
    /\ asked' = asked \ {c} /\ unsure' = TRUE
    /\ UNCHANGED <<mode, phase, binding, rows, cache, h, hosts, ran>>

Started ==
    /\ phase = "boot" /\ asked = {} /\ phase' = "up"
    /\ UNCHANGED <<mode, binding, rows, cache, h, hosts, ran, asked, unsure>>

-----------------------------------------------------------------------------
HandlerStep(c) ==
    \/ Load(c) \/ Ask(c) \/ AskFails(c) \/ Dir(c) \/ Stat(c) \/ StatFails(c) \/ Commit(c)
    \/ Spawn(c) \/ SpawnFails(c) \/ HasSession(c) \/ NewSession(c) \/ NewSessionFails(c)
    \/ Check(c) \/ Type(c) \/ TypeFails(c)

Next ==
    \/ \E c \in Chats :
        \/ HandlerStep(c) \/ Reconcile(c) \/ ReconcileFails(c)
        \/ \E op \in Ops, p \in Projects \cup {None}, s \in Sessions \cup {None} : Begin(c, op, p, s)
    \/ \E n \in Names : HostEnds(n)
    \/ Restart
    \/ Started

Spec == Init /\ [][Next]_vars

-----------------------------------------------------------------------------
\* What a chat orders is carried out in the directory of its session, if
\* OpenCode tells that directory, no start kept a session unasked (as all starts
\* without the remote check do) and no lookup of the selector replaced the
\* directory; also by panes that another chat, another mode
\* or an earlier process opened, and while other chats fill the cache.
OrdersRunInPlace ==
    ~unsure /\ ran # NoHost => PathOf[ran.session] \in {None, ran.dir}

\* Chats that work on one project are in one directory, whichever attached
\* first and although the directory of a project is not kept over a restart.
ChatsAgree ==
    \A c, d \in Chats :
        /\ Bound(c) /\ Bound(d) /\ binding[c].project = binding[d].project
        /\ PathOf[binding[c].session] # None /\ PathOf[binding[d].session] # None
        => unsure \/ PathOf[binding[c].session] = PathOf[binding[d].session]

\* docs/rfc-003:103, a session that is not the active project's is refused:
\* it does not survive a restart, after which no directory is cached.
NoSilentReassociation ==
    \A c \in Chats : Bound(c) => PathOf[binding[c].session] \in {None, DirOf[binding[c].project]}
=============================================================================
