-------------------------- MODULE LocalModesProofs --------------------------
(***************************************************************************)
(* The CLI and PTY modes, for any chats, projects, sessions and panes, any *)
(* restarts and any failing calls: orders run in the directory of their    *)
(* session and chats of a project agree on it, as long as no directory was *)
(* taken on faith.                                                         *)
(***************************************************************************)
EXTENDS LocalModes, TLAPS

-----------------------------------------------------------------------------
(* What a handler knows at each of its steps; o is the handler of a chat    *)
(* and b the chat's row.                                                   *)

OrderOK(o) ==
    /\ o.op \in Ops /\ o.goal \in {o.op, "status"}
    /\ o.op = "select" => o.project \in Projects /\ o.session = None
    /\ o.op = "attach" => o.session \in Sessions
GoalOK(o) ==
    /\ o.at = "load" => o.goal # "status"
    /\ o.at = "ask" => o.goal \in {"status", "attach"}
    /\ o.at = "dir" => o.goal \in {"status", "attach", "send"}
    /\ o.at = "stat" => o.goal \in {"status", "attach", "send", "select"}
    /\ o.at \in {"has", "new"} => o.goal \in {"attach", "send"} /\ o.dir \in Dirs
    /\ o.at = "spawn" => o.goal = "send" /\ o.dir \in Dirs
    /\ o.at \in {"check", "type"} => o.goal = "send"
    /\ o.at = "commit" => o.goal \in {"select", "attach"}
RowOK(o, b) ==
    /\ o.goal = "status" \/ (o.goal = "send" /\ o.at # "load") => b.session # None
    /\ o.goal = "attach" /\ o.at # "load" => b.project # None
HandlerOK(o, b) == o.at # "free" => OrderOK(o) /\ GoalOK(o) /\ RowOK(o, b)

HandlersKnow ==
    \A c \in Chats : HandlerOK(h[c], binding[c]) /\ (phase = "boot" => h[c].at = "free")
RowsKnow ==
    /\ \A c \in Chats : Bound(c) => binding[c].project # None
    /\ \A c \in asked : Bound(c)
    /\ phase = "up" => asked = {}

Known == LocalTypeOK /\ HandlersKnow /\ RowsKnow

-----------------------------------------------------------------------------
(* Where everything is while no directory was taken on faith.              *)

\* Directory d is that of session s, if OpenCode tells it.
Fit(s, d) == PathOf[s] \in {None, d}

\* Project p has the directory of session s in the cache, if OpenCode tells it.
Cached(ca, p, s) == PathOf[s] # None => ca[p] = PathOf[s]

PanesFit ==
    \A n \in Names : hosts[n] # NoHost =>
        NameOf[hosts[n].session] = n /\ Fit(hosts[n].session, hosts[n].dir)

\* While the process is up the cache knows the sessions of all chats; while it
\* starts, it knows nothing else than they do.
RowsFit ==
    /\ phase = "boot" => \A c \in Chats : Bound(c) => c \in asked
    /\ phase = "up" =>
          \A c \in Chats : Bound(c) => Cached(cache, binding[c].project, binding[c].session)
    /\ \A c \in Chats : Bound(c) /\ cache[binding[c].project] # None =>
          Fit(binding[c].session, cache[binding[c].project])
    /\ \A c, d \in Chats :
          /\ Bound(c) /\ Bound(d) /\ binding[c].project = binding[d].project
          /\ PathOf[binding[c].session] # None /\ PathOf[binding[d].session] # None
          => PathOf[binding[c].session] = PathOf[binding[d].session]

SessionIn(o, b) == IF o.goal = "attach" THEN o.session ELSE b.session

HandlerFits(o, b, ca) ==
    /\ o.at \in {"has", "new", "spawn"} => Fit(SessionIn(o, b), o.dir)
    /\ o.goal = "attach" /\ o.at \in {"dir", "stat", "has", "new", "commit"} =>
          Cached(ca, b.project, o.session)
HandlersFit == \A c \in Chats : HandlerFits(h[c], binding[c], cache)

\* A pane is known by the name of its session, which no other session has.
OwnNames == \A s, t \in Sessions : NameOf[s] = NameOf[t] => s = t

Placed ==
    /\ OwnNames => OrdersRunInPlace
    /\ ~unsure => PanesFit /\ RowsFit /\ HandlersFit

LInv == Known /\ Placed

-----------------------------------------------------------------------------
(* A step of a handler.                                                    *)

\* The handler of chat c goes on to something that it has what it needs for.
GoesOn(c) ==
    \E o \in Handler :
        /\ h' = [h EXCEPT ![c] = o]
        /\ HandlerOK(o, binding'[c])
        /\ ~unsure' => HandlerFits(o, binding'[c], cache')

\* A directory that was cached stays, or a handler has put another one there.
CacheStep ==
    /\ cache' \in [Projects -> Dirs \cup {None}]
    /\ unsure' \in BOOLEAN /\ (unsure => unsure')
    /\ ~unsure' => \A p \in Projects : cache[p] # None => cache'[p] = cache[p]

SameWorld == UNCHANGED <<mode, phase, asked>>

\* The parts of a step that are the same for most handlers.
Quiet(c) ==
    /\ SameWorld /\ CacheStep /\ GoesOn(c)
    /\ UNCHANGED <<binding, rows, hosts, ran>>

LEMMA FreeType == Free \in Handler
BY DEF Free, Handler

LEMMA FreeGoesOn ==
  ASSUME NEW c \in Chats, Moves(c, Free) PROVE GoesOn(c)
BY FreeType DEF Moves, GoesOn, HandlerOK, HandlerFits, Free

\* getStatus is over and the order begins, or the update is over.
LEMMA OverGoesOn ==
  ASSUME Known, NEW c \in Chats, h[c].at # "free", Over(c), UNCHANGED binding
  PROVE  GoesOn(c)
<1> DEFINE o == [h[c] EXCEPT !.goal = h[c].op, !.at = "load", !.dir = None]
<1>1. h[c] \in Handler /\ HandlerOK(h[c], binding[c])
  BY DEF Known, LocalTypeOK, HandlersKnow
<1>2. CASE h[c].goal = "status"
  <2>1. /\ o.goal = h[c].op /\ o.at = "load" /\ o.op = h[c].op
        /\ o.project = h[c].project /\ o.session = h[c].session
    BY <1>1 DEF Handler
  <2>2. o \in Handler
    BY <1>1 DEF HandlerOK, OrderOK, Handler
  <2>3. h' = [h EXCEPT ![c] = o]
    BY <1>2 DEF Over, Moves
  <2> HIDE DEF o
  <2>4. HandlerOK(o, binding'[c])
    BY <1>1, <2>1 DEF HandlerOK, OrderOK, GoalOK, RowOK, Ops
  <2>5. HandlerFits(o, binding'[c], cache')
    BY <2>1 DEF HandlerFits
  <2> QED
    BY <2>2, <2>3, <2>4, <2>5 DEF GoesOn
<1>3. CASE h[c].goal # "status"
  BY <1>3, FreeGoesOn DEF Over
<1> QED
  BY <1>2, <1>3

\* A handler moves to another step, with what it had.
LEMMA MovesToGoesOn ==
  ASSUME Known, NEW c \in Chats, h[c].at # "free",
         NEW at \in {"ask", "dir", "stat", "new", "check", "type", "commit"}, MovesTo(c, at),
         UNCHANGED binding,
         \A o \in Handler :
            /\ o.at = at /\ o.goal = h[c].goal /\ o.dir = h[c].dir /\ o.op = h[c].op
            /\ o.session = h[c].session
            => GoalOK(o) /\ RowOK(o, binding[c]) /\ (~unsure' => HandlerFits(o, binding[c], cache'))
  PROVE  GoesOn(c)
<1> DEFINE o == [h[c] EXCEPT !.at = at]
<1>1. h[c] \in Handler /\ HandlerOK(h[c], binding[c])
  BY DEF Known, LocalTypeOK, HandlersKnow
<1>2. /\ o.goal = h[c].goal /\ o.at = at /\ o.op = h[c].op /\ o.dir = h[c].dir
      /\ o.project = h[c].project /\ o.session = h[c].session
  BY <1>1 DEF Handler
<1>3. o \in Handler
  BY <1>1 DEF Handler
<1>4. h' = [h EXCEPT ![c] = o]
  BY DEF MovesTo, Moves
<1> HIDE DEF o
<1>5. OrderOK(o)
  BY <1>1, <1>2 DEF HandlerOK, OrderOK
<1>6. GoalOK(o) /\ RowOK(o, binding[c]) /\ (~unsure' => HandlerFits(o, binding[c], cache'))
  BY <1>2, <1>3
<1> QED
  BY <1>3, <1>4, <1>5, <1>6 DEF GoesOn, HandlerOK

\* The directory is known, and it is that of the session.
LEMMA WithDirGoesOn ==
  ASSUME Known, NEW c \in Chats, NEW d \in Dirs, h[c].at \in {"ask", "dir", "stat"},
         h[c].goal # "select", WithDir(c, d), UNCHANGED binding,
         ~unsure' /\ h[c].goal # "status" => Fit(SessionOf(c), d),
         ~unsure' /\ h[c].goal = "attach" => Cached(cache', binding[c].project, h[c].session)
  PROVE  GoesOn(c)
<1>1. h[c] \in Handler /\ HandlerOK(h[c], binding[c])
  BY DEF Known, LocalTypeOK, HandlersKnow
<1>2. h[c].goal \in {"status", "attach", "send"}
  BY <1>1 DEF HandlerOK, GoalOK
<1>3. CASE h[c].goal = "status"
  BY <1>3, OverGoesOn DEF WithDir
<1>4. CASE h[c].goal = "attach" /\ mode = "cli"
  <2>1. MovesTo(c, "commit")
    BY <1>4 DEF WithDir
  <2> QED
    BY <1>1, <1>4, <2>1, MovesToGoesOn DEF HandlerOK, GoalOK, RowOK, HandlerFits
<1>5. CASE ~(h[c].goal = "status") /\ ~(h[c].goal = "attach" /\ mode = "cli")
  <2> DEFINE at == IF h[c].goal = "send" /\ mode = "cli" THEN "spawn" ELSE "has"
             o == [h[c] EXCEPT !.at = at, !.dir = d]
  <2>1. h' = [h EXCEPT ![c] = o]
    BY <1>2, <1>5 DEF WithDir, Moves
  <2>2. at \in {"spawn", "has"} /\ (at = "spawn" => h[c].goal = "send")
    OBVIOUS
  <2> HIDE DEF at
  <2>3. /\ o.goal = h[c].goal /\ o.at = at /\ o.op = h[c].op /\ o.dir = d
        /\ o.project = h[c].project /\ o.session = h[c].session
    BY <1>1 DEF Handler
  <2>4. o \in Handler
    BY <1>1, <2>2 DEF Handler
  <2> HIDE DEF o
  <2>5. OrderOK(o) /\ GoalOK(o)
    BY <1>1, <1>2, <1>5, <2>2, <2>3 DEF HandlerOK, OrderOK, GoalOK
  <2>6. RowOK(o, binding[c])
    BY <1>1, <1>2, <2>2, <2>3 DEF HandlerOK, RowOK
  <2>7. ~unsure' => HandlerFits(o, binding[c], cache')
    BY <1>5, <2>3 DEF HandlerFits, SessionIn, SessionOf
  <2> QED
    BY <2>1, <2>4, <2>5, <2>6, <2>7 DEF GoesOn, HandlerOK
<1> QED
  BY <1>3, <1>4, <1>5

-----------------------------------------------------------------------------
(* What the steps of a handler do to the rest.                             *)

\* A row is written with a session that the cache knows, or with none.
RowStep(c) ==
    /\ rows' \in SUBSET Projects
    /\ \/ binding' = binding
       \/ \E p \in Projects, s \in Sessions \cup {None} :
             /\ binding' = [binding EXCEPT ![c] = [project |-> p, session |-> s]]
             /\ ~unsure /\ s # None => Cached(cache, p, s)

\* A pane is opened, and an order carried out, in the directory of the session.
PaneStep ==
    \/ hosts' = hosts
    \/ \E s \in Sessions, d \in Dirs :
          /\ hosts' = [hosts EXCEPT ![NameOf[s]] = [session |-> s, dir |-> d]]
          /\ ~unsure => Fit(s, d)
RanStep ==
    \/ ran' = ran
    \/ \E s \in Sessions, d \in Dirs :
          /\ ran' = [session |-> s, dir |-> d]
          /\ OwnNames /\ ~unsure => Fit(s, d)

Turn(c) == SameWorld /\ CacheStep /\ GoesOn(c) /\ RowStep(c) /\ PaneStep /\ RanStep

LEMMA QuietTurn ==
  ASSUME Known, NEW c \in Chats, Quiet(c) PROVE Turn(c)
BY DEF Quiet, Turn, RowStep, PaneStep, RanStep, Known, LocalTypeOK

LEMMA CacheKept ==
  ASSUME Known, UNCHANGED <<cache, unsure>> PROVE CacheStep
BY DEF Known, LocalTypeOK, CacheStep

\* What is known of a handler that is at work.
LEMMA AtWork ==
  ASSUME LInv, NEW c \in Chats, h[c].at # "free"
  PROVE  /\ h[c] \in Handler /\ OrderOK(h[c]) /\ GoalOK(h[c]) /\ RowOK(h[c], binding[c])
         /\ phase = "up"
         /\ binding[c].project \in Projects \cup {None}
         /\ binding[c].session \in Sessions \cup {None}
         /\ ~unsure => /\ HandlerFits(h[c], binding[c], cache)
                       /\ Bound(c) => Cached(cache, binding[c].project, binding[c].session)
BY DEF LInv, Known, LocalTypeOK, HandlersKnow, HandlerOK, Placed, RowsFit, HandlersFit

LEMMA BeginTurn ==
  ASSUME LInv, NEW c \in Chats, NEW op \in Ops, NEW p \in Projects \cup {None},
         NEW s \in Sessions \cup {None}, Begin(c, op, p, s)
  PROVE  Turn(c)
<1> DEFINE goal == IF Bound(c) THEN "status" ELSE op
           at == IF Bound(c) THEN "ask" ELSE "load"
           o == [op |-> op, goal |-> goal, at |-> at, project |-> p, session |-> s, dir |-> None]
<1>1. h' = [h EXCEPT ![c] = o]
  BY DEF Begin, Moves
<1>2. /\ at \in {"ask", "load"} /\ goal \in {op, "status"}
      /\ at = "load" => goal = op
      /\ at = "ask" => goal = "status"
      /\ goal = "status" => Bound(c)
  BY DEF Ops
<1> HIDE DEF goal, at
<1>3. o \in Handler
  BY <1>2 DEF Handler, Ops
<1>4. HandlerOK(o, binding[c])
  BY <1>2 DEF Begin, HandlerOK, OrderOK, GoalOK, RowOK, Ops, Bound
<1>5. HandlerFits(o, binding[c], cache')
  BY <1>2 DEF HandlerFits
<1> HIDE DEF o
<1>6. GoesOn(c)
  BY <1>1, <1>3, <1>4, <1>5 DEF Begin, GoesOn
<1> QED
  BY <1>6, QuietTurn, CacheKept DEF Begin, Quiet, world, SameWorld, LInv

LEMMA LoadTurn ==
  ASSUME LInv, NEW c \in Chats, Load(c) PROVE Turn(c)
<1>1. h[c].at = "load" /\ UNCHANGED <<world, binding, rows, cache, hosts, ran>>
  BY DEF Load, LoadSelect, LoadAttach, LoadSend, LoadLook
<1>2. /\ h[c] \in Handler /\ OrderOK(h[c]) /\ GoalOK(h[c]) /\ RowOK(h[c], binding[c])
  BY <1>1, AtWork
<1>3. GoesOn(c)
  <2>1. CASE Moves(c, Free)
    BY <2>1, FreeGoesOn
  <2>2. CASE LoadSelect(c)
    <3>1. PICK at \in {"commit", "stat"} : MovesTo(c, at)
      BY <2>2 DEF LoadSelect
    <3>2. h[c].goal = "select"
      BY <2>2 DEF LoadSelect
    <3> QED
      BY <1>1, <3>1, <3>2, MovesToGoesOn DEF GoalOK, RowOK, HandlerFits, LInv
  <2>3. CASE LoadAttach(c) /\ MovesTo(c, "ask") /\ binding[c].project # None
    BY <1>1, <2>3, MovesToGoesOn DEF LoadAttach, GoalOK, RowOK, HandlerFits, LInv
  <2>4. CASE LoadSend(c) /\ MovesTo(c, "dir") /\ Bound(c)
    BY <1>1, <2>4, MovesToGoesOn DEF LoadSend, GoalOK, RowOK, HandlerFits, LInv, Bound
  <2> QED
    BY <2>1, <2>2, <2>3, <2>4 DEF Load, LoadAttach, LoadSend, LoadLook
<1> QED
  BY <1>1, <1>3, QuietTurn, CacheKept DEF Quiet, world, SameWorld, LInv

LEMMA AskTurn ==
  ASSUME LInv, NEW c \in Chats, Ask(c) PROVE Turn(c)
<1> DEFINE p == ProjectOf(c)
           s == SessionOf(c)
<1>1. h[c].at = "ask" /\ UNCHANGED <<world, binding, rows, hosts, ran>>
  BY DEF Ask
<1>2. /\ h[c] \in Handler /\ OrderOK(h[c]) /\ GoalOK(h[c]) /\ RowOK(h[c], binding[c])
      /\ phase = "up"
      /\ binding[c].project \in Projects \cup {None}
      /\ binding[c].session \in Sessions \cup {None}
      /\ ~unsure => /\ HandlerFits(h[c], binding[c], cache)
                    /\ Bound(c) => Cached(cache, binding[c].project, binding[c].session)
  BY <1>1, AtWork
<1>3. h[c].goal \in {"status", "attach"} /\ (h[c].goal = "attach" => h[c].session \in Sessions)
  BY <1>1, <1>2 DEF GoalOK, OrderOK
<1>4. p = binding[c].project /\ p \in Projects /\ s \in Sessions
  BY <1>1, <1>2, <1>3 DEF ProjectOf, SessionOf, RowOK, LInv, Known, RowsKnow, Bound
<1>5. PathOf[s] \in Dirs \cup {None}
  BY <1>4, DirectoriesAssumption
<1>6. CASE PathOf[s] = None /\ mode = "pty"
  <2>1. MovesTo(c, "dir") /\ UNCHANGED cache
    BY <1>6 DEF Ask
  <2>2. h[c].goal = "attach" => s = h[c].session
    BY DEF SessionOf
  <2>3. GoesOn(c)
    BY <1>1, <1>2, <1>3, <1>6, <2>1, <2>2, MovesToGoesOn
       DEF GoalOK, RowOK, HandlerFits, Cached, LInv
  <2> QED
    BY <1>1, <2>1, <2>3, QuietTurn, CacheKept DEF Quiet, world, SameWorld, LInv
<1>7. CASE PathOf[s] = None /\ mode # "pty"
  <2>1. mode = "cli"
    BY <1>7, DirectoriesAssumption DEF LInv, Known, LocalTypeOK
  <2>2. WithDir(c, None) /\ UNCHANGED cache
    BY <1>7, <2>1 DEF Ask
  <2>3. CASE h[c].goal = "status"
    <3>1. Over(c)
      BY <2>2, <2>3 DEF WithDir
    <3>2. GoesOn(c)
      BY <1>1, <3>1, OverGoesOn DEF LInv
    <3> QED
      BY <1>1, <2>2, <3>2, QuietTurn, CacheKept DEF Quiet, world, SameWorld, LInv
  <2>4. CASE h[c].goal = "attach"
    <3>1. MovesTo(c, "commit") /\ s = h[c].session
      BY <2>1, <2>2, <2>4 DEF WithDir, SessionOf
    <3>2. GoesOn(c)
      BY <1>1, <1>2, <1>7, <2>4, <3>1, MovesToGoesOn
         DEF GoalOK, RowOK, HandlerFits, Cached, LInv
    <3> QED
      BY <1>1, <2>2, <3>2, QuietTurn, CacheKept DEF Quiet, world, SameWorld, LInv
  <2> QED
    BY <1>3, <2>3, <2>4
<1>8. CASE PathOf[s] # None /\ Fits(p, s)
  <2>1. WithDir(c, PathOf[s]) /\ cache' = [cache EXCEPT ![p] = PathOf[s]]
    BY <1>8 DEF Ask
  <2>2. cache \in [Projects -> Dirs \cup {None}] /\ unsure \in BOOLEAN /\ unsure' = unsure
    BY <1>1 DEF LInv, Known, LocalTypeOK, world
  <2>3. CacheStep
    BY <1>4, <1>5, <1>8, <2>1, <2>2 DEF CacheStep, Fits
  <2>4. h[c].goal = "attach" => Cached(cache', binding[c].project, h[c].session)
    BY <1>4, <2>1, <2>2 DEF Cached, SessionOf
  <2>5. Fit(s, PathOf[s])
    BY DEF Fit
  <2>6. GoesOn(c)
    BY <1>1, <1>3, <1>5, <1>8, <2>1, <2>4, <2>5, WithDirGoesOn DEF LInv
  <2> QED
    BY <1>1, <2>3, <2>6, QuietTurn DEF Quiet, world, SameWorld, LInv
<1>9. CASE PathOf[s] # None /\ ~Fits(p, s)
  <2>1. Over(c) /\ UNCHANGED cache
    BY <1>9 DEF Ask
  <2>2. GoesOn(c)
    BY <1>1, <2>1, OverGoesOn DEF LInv
  <2> QED
    BY <1>1, <2>1, <2>2, QuietTurn, CacheKept DEF Quiet, world, SameWorld, LInv
<1> QED
  BY <1>6, <1>7, <1>8, <1>9

LEMMA FailsTurn ==
  ASSUME LInv, NEW c \in Chats,
         \/ AskFails(c) \/ StatFails(c) \/ SpawnFails(c) \/ NewSessionFails(c) \/ TypeFails(c)
  PROVE  Turn(c)
<1>1. h[c].at # "free" /\ UNCHANGED <<world, binding, rows, cache, hosts, ran>>
  BY DEF AskFails, StatFails, SpawnFails, NewSessionFails, TypeFails
<1>2. Over(c) \/ Moves(c, Free)
  BY DEF AskFails, StatFails, SpawnFails, NewSessionFails, TypeFails
<1>3. GoesOn(c)
  BY <1>1, <1>2, OverGoesOn, FreeGoesOn DEF LInv
<1> QED
  BY <1>1, <1>3, QuietTurn, CacheKept DEF Quiet, world, SameWorld, LInv

LEMMA DirTurn ==
  ASSUME LInv, NEW c \in Chats, Dir(c) PROVE Turn(c)
<1> DEFINE p == ProjectOf(c)
           s == SessionOf(c)
<1>1. h[c].at = "dir" /\ UNCHANGED <<world, binding, rows, cache, hosts, ran>>
  BY DEF Dir
<1>2. /\ h[c] \in Handler /\ OrderOK(h[c]) /\ GoalOK(h[c]) /\ RowOK(h[c], binding[c])
      /\ binding[c].project \in Projects \cup {None}
      /\ ~unsure => /\ HandlerFits(h[c], binding[c], cache)
                    /\ Bound(c) => Cached(cache, binding[c].project, binding[c].session)
  BY <1>1, AtWork
<1>3. h[c].goal \in {"status", "attach", "send"} /\ (h[c].goal = "attach" => h[c].session \in Sessions)
  BY <1>1, <1>2 DEF GoalOK, OrderOK
<1>4. p = binding[c].project /\ p \in Projects
  BY <1>1, <1>2, <1>3 DEF ProjectOf, RowOK, LInv, Known, RowsKnow, Bound
<1>5. cache[p] \in Dirs \cup {None} /\ UNCHANGED <<cache, unsure>>
  BY <1>1, <1>4 DEF LInv, Known, LocalTypeOK, world
<1>6. ~unsure /\ h[c].goal \in {"attach", "send"} => Cached(cache, p, s)
  BY <1>1, <1>2, <1>3, <1>4 DEF HandlerFits, SessionOf, RowOK, Bound
<1>7. GoesOn(c)
  <2>1. CASE cache[p] # None
    <3>1. WithDir(c, cache[p]) /\ cache[p] \in Dirs
      BY <1>5, <2>1 DEF Dir
    <3>2. ~unsure /\ h[c].goal # "status" => Fit(s, cache[p])
      BY <1>3, <1>6 DEF Fit, Cached
    <3>3. ~unsure /\ h[c].goal = "attach" => Cached(cache, p, h[c].session)
      BY <1>6 DEF SessionOf
    <3> HIDE DEF s
    <3> QED
      BY <1>1, <1>3, <1>4, <1>5, <3>1, <3>2, <3>3, WithDirGoesOn DEF LInv, s
  <2>2. CASE cache[p] = None
    <3>1. MovesTo(c, "stat")
      BY <2>2 DEF Dir
    <3> QED
      BY <1>1, <1>2, <1>3, <1>5, <3>1, MovesToGoesOn DEF GoalOK, RowOK, HandlerFits, LInv
  <2> QED
    BY <2>1, <2>2
<1> QED
  BY <1>1, <1>7, QuietTurn, CacheKept DEF Quiet, world, SameWorld, LInv

LEMMA StatTurn ==
  ASSUME LInv, NEW c \in Chats, Stat(c) PROVE Turn(c)
<1> DEFINE p == ProjectOf(c)
           s == SessionOf(c)
<1>1. h[c].at = "stat" /\ UNCHANGED <<mode, phase, asked, binding, rows, hosts, ran>>
  BY DEF Stat
<1>2. /\ h[c] \in Handler /\ OrderOK(h[c]) /\ GoalOK(h[c]) /\ RowOK(h[c], binding[c])
      /\ binding[c].project \in Projects \cup {None}
      /\ ~unsure => /\ HandlerFits(h[c], binding[c], cache)
                    /\ Bound(c) => Cached(cache, binding[c].project, binding[c].session)
  BY <1>1, AtWork
<1>3. h[c].goal \in {"status", "attach", "send", "select"}
  BY <1>1, <1>2 DEF GoalOK
<1>4. p \in Projects
  BY <1>1, <1>2, <1>3 DEF ProjectOf, OrderOK, RowOK, LInv, Known, RowsKnow, Bound, Ops
<1>5. /\ cache \in [Projects -> Dirs \cup {None}] /\ unsure \in BOOLEAN /\ DirOf[p] \in Dirs
      /\ cache' = [cache EXCEPT ![p] = DirOf[p]]
      /\ unsure' = (unsure \/ cache[p] \notin {None, DirOf[p]})
  BY <1>4, DirectoriesAssumption DEF Stat, LInv, Known, LocalTypeOK
<1>6. CacheStep
  BY <1>4, <1>5 DEF CacheStep
<1>7. CASE h[c].goal = "select"
  <2>1. MovesTo(c, "commit")
    BY <1>7 DEF Stat
  <2>2. GoesOn(c)
    BY <1>1, <1>2, <1>7, <2>1, MovesToGoesOn DEF GoalOK, RowOK, HandlerFits, LInv
  <2> QED
    BY <1>1, <1>6, <2>2, QuietTurn DEF Quiet, SameWorld, LInv
<1>8. CASE h[c].goal # "select"
  <2>1. WithDir(c, DirOf[p]) /\ p = binding[c].project
    BY <1>8 DEF Stat, ProjectOf
  <2>2. ~unsure /\ h[c].goal # "status" => Cached(cache, p, s)
    BY <1>1, <1>2, <1>3, <1>8, <2>1 DEF HandlerFits, SessionOf, RowOK, Bound
  <2>3. ~unsure' /\ h[c].goal # "status" => Cached(cache', p, s)
    BY <1>4, <1>5, <2>2 DEF Cached
  <2>4. ~unsure' /\ h[c].goal # "status" => Fit(s, DirOf[p])
    BY <1>4, <1>5, <2>3 DEF Cached, Fit
  <2>5. ~unsure' /\ h[c].goal = "attach" => Cached(cache', p, h[c].session)
    BY <2>3 DEF SessionOf
  <2>6. GoesOn(c)
    BY <1>1, <1>5, <1>8, <2>1, <2>4, <2>5, WithDirGoesOn DEF LInv
  <2> QED
    BY <1>1, <1>6, <2>6, QuietTurn DEF Quiet, SameWorld, LInv
<1> QED
  BY <1>7, <1>8

LEMMA CommitTurn ==
  ASSUME LInv, NEW c \in Chats, Commit(c) PROVE Turn(c)
<1> DEFINE p == ProjectOf(c)
           s == h[c].session
<1>1. /\ h[c].at = "commit" /\ UNCHANGED <<world, cache, hosts, ran>>
      /\ binding' = [binding EXCEPT ![c] = [project |-> p, session |-> s]]
      /\ rows' = rows \cup {p} /\ Moves(c, Free)
  BY DEF Commit
<1>2. /\ h[c] \in Handler /\ OrderOK(h[c]) /\ GoalOK(h[c]) /\ RowOK(h[c], binding[c])
      /\ binding[c].project \in Projects \cup {None}
      /\ ~unsure => HandlerFits(h[c], binding[c], cache)
  BY <1>1, AtWork
<1>3. h[c].goal \in {"select", "attach"} /\ h[c].op = h[c].goal
  BY <1>1, <1>2 DEF GoalOK, OrderOK
<1>4. p \in Projects /\ s \in Sessions \cup {None}
  BY <1>1, <1>2, <1>3 DEF ProjectOf, OrderOK, RowOK
<1>5. ~unsure /\ s # None => Cached(cache, p, s)
  BY <1>1, <1>2, <1>3 DEF HandlerFits, ProjectOf, OrderOK
<1>6. rows' \in SUBSET Projects
  BY <1>1, <1>4 DEF LInv, Known, LocalTypeOK
<1> HIDE DEF p, s
<1>7. RowStep(c)
  BY <1>1, <1>4, <1>5, <1>6 DEF RowStep
<1> QED
  BY <1>1, <1>7, FreeGoesOn, CacheKept DEF Turn, PaneStep, RanStep, world, SameWorld, LInv

LEMMA SpawnTurn ==
  ASSUME LInv, NEW c \in Chats, Spawn(c) PROVE Turn(c)
<1>1. /\ h[c].at = "spawn" /\ UNCHANGED <<world, binding, rows, cache, hosts>>
      /\ ran' = [session |-> binding[c].session, dir |-> h[c].dir]
      /\ Moves(c, Free)
  BY DEF Spawn
<1>2. /\ GoalOK(h[c]) /\ RowOK(h[c], binding[c])
      /\ binding[c].session \in Sessions \cup {None}
      /\ ~unsure => HandlerFits(h[c], binding[c], cache)
  BY <1>1, AtWork
<1>3. binding[c].session \in Sessions /\ h[c].dir \in Dirs
  BY <1>1, <1>2 DEF GoalOK, RowOK
<1>4. ~unsure => Fit(binding[c].session, h[c].dir)
  BY <1>1, <1>2 DEF GoalOK, HandlerFits, SessionIn
<1>5. RanStep
  BY <1>1, <1>3, <1>4 DEF RanStep
<1>6. RowStep(c)
  BY <1>1 DEF RowStep, LInv, Known, LocalTypeOK
<1> QED
  BY <1>1, <1>5, <1>6, FreeGoesOn, CacheKept DEF Turn, PaneStep, world, SameWorld, LInv

\* The pane is there: it is attached to, or the text goes to it.
LEMMA ReadyGoesOn ==
  ASSUME LInv, NEW c \in Chats, h[c].at \in {"has", "new"}, HostReady(c),
         UNCHANGED <<world, binding, cache>>
  PROVE  GoesOn(c)
<1>1. /\ h[c] \in Handler /\ OrderOK(h[c]) /\ GoalOK(h[c]) /\ RowOK(h[c], binding[c])
      /\ ~unsure => HandlerFits(h[c], binding[c], cache)
  BY AtWork
<1>2. h[c].goal \in {"attach", "send"}
  BY <1>1 DEF GoalOK
<1>3. PICK at \in {"commit", "check"} : MovesTo(c, at) /\ (at = "commit" <=> h[c].goal = "attach")
  BY DEF HostReady
<1> QED
  BY <1>1, <1>2, <1>3, MovesToGoesOn DEF GoalOK, RowOK, HandlerFits, LInv, world

\* The session of a handler that needs a pane.
LEMMA PaneSession ==
  ASSUME LInv, NEW c \in Chats, h[c].at \in {"has", "new", "check", "type"}
  PROVE  /\ SessionOf(c) \in Sessions /\ SessionOf(c) = SessionIn(h[c], binding[c])
         /\ HostFor(c) \in Names /\ HostFor(c) = NameOf[SessionOf(c)]
<1>1. /\ OrderOK(h[c]) /\ GoalOK(h[c]) /\ RowOK(h[c], binding[c])
      /\ binding[c].session \in Sessions \cup {None}
  BY AtWork
<1>2. SessionOf(c) \in Sessions
  BY <1>1 DEF OrderOK, GoalOK, RowOK, SessionOf
<1> QED
  BY <1>2, DirectoriesAssumption DEF SessionOf, SessionIn, HostFor

LEMMA HasSessionTurn ==
  ASSUME LInv, NEW c \in Chats, HasSession(c) PROVE Turn(c)
<1>1. h[c].at = "has" /\ UNCHANGED <<world, binding, rows, cache, hosts, ran>>
  BY DEF HasSession
<1>2. /\ h[c] \in Handler /\ GoalOK(h[c]) /\ RowOK(h[c], binding[c])
      /\ ~unsure => HandlerFits(h[c], binding[c], cache)
  BY <1>1, AtWork
<1>3. GoesOn(c)
  <2>1. CASE HostReady(c)
    BY <1>1, <2>1, ReadyGoesOn
  <2>2. CASE MovesTo(c, "new")
    BY <1>1, <1>2, <2>2, MovesToGoesOn
       DEF GoalOK, RowOK, HandlerFits, SessionIn, LInv, world
  <2> QED
    BY <2>1, <2>2 DEF HasSession
<1> QED
  BY <1>1, <1>3, QuietTurn, CacheKept DEF Quiet, world, SameWorld, LInv

LEMMA NewSessionTurn ==
  ASSUME LInv, NEW c \in Chats, NewSession(c) PROVE Turn(c)
<1>1. /\ h[c].at = "new" /\ HostReady(c) /\ UNCHANGED <<world, binding, rows, cache, ran>>
      /\ hosts' = [hosts EXCEPT ![HostFor(c)] = [session |-> SessionOf(c), dir |-> h[c].dir]]
  BY DEF NewSession
<1>2. GoalOK(h[c]) /\ (~unsure => HandlerFits(h[c], binding[c], cache))
  BY <1>1, AtWork
<1>3. h[c].dir \in Dirs
  BY <1>1, <1>2 DEF GoalOK
<1>4. ~unsure => Fit(SessionOf(c), h[c].dir)
  BY <1>1, <1>2, PaneSession DEF HandlerFits
<1>5. PaneStep
  BY <1>1, <1>3, <1>4, PaneSession DEF PaneStep
<1>6. RowStep(c)
  BY <1>1 DEF RowStep, LInv, Known, LocalTypeOK
<1> QED
  BY <1>1, <1>5, <1>6, ReadyGoesOn, CacheKept DEF Turn, RanStep, world, SameWorld, LInv

LEMMA CheckTurn ==
  ASSUME LInv, NEW c \in Chats, Check(c) PROVE Turn(c)
<1>1. h[c].at = "check" /\ UNCHANGED <<world, binding, rows, cache, hosts, ran>>
  BY DEF Check
<1>2. h[c] \in Handler /\ GoalOK(h[c]) /\ RowOK(h[c], binding[c])
  BY <1>1, AtWork
<1>3. GoesOn(c)
  <2>1. CASE Moves(c, Free)
    BY <2>1, FreeGoesOn
  <2>2. CASE MovesTo(c, "type")
    BY <1>1, <1>2, <2>2, MovesToGoesOn DEF GoalOK, RowOK, HandlerFits, LInv, world
  <2> QED
    BY <2>1, <2>2 DEF Check
<1> QED
  BY <1>1, <1>3, QuietTurn, CacheKept DEF Quiet, world, SameWorld, LInv

LEMMA TypeTurn ==
  ASSUME LInv, NEW c \in Chats, Type(c) PROVE Turn(c)
<1> DEFINE pane == hosts[HostFor(c)]
           s == SessionOf(c)
<1>1. /\ h[c].at = "type" /\ pane # NoHost
      /\ UNCHANGED <<world, binding, rows, cache, hosts>>
      /\ ran' = [session |-> s, dir |-> pane.dir]
      /\ Moves(c, Free)
  BY DEF Type
<1>2. s \in Sessions /\ HostFor(c) \in Names /\ HostFor(c) = NameOf[s]
  BY <1>1, PaneSession
<1>3. pane \in Host
  BY <1>1, <1>2 DEF LInv, Known, LocalTypeOK
<1>4. pane.session \in Sessions /\ pane.dir \in Dirs
  BY <1>3 DEF Host
<1>5. ~unsure => NameOf[pane.session] = NameOf[s] /\ Fit(pane.session, pane.dir)
  BY <1>1, <1>2 DEF LInv, Placed, PanesFit
<1>6. OwnNames /\ ~unsure => Fit(s, pane.dir)
  BY <1>2, <1>4, <1>5 DEF OwnNames
<1>7. RanStep
  BY <1>1, <1>2, <1>4, <1>6 DEF RanStep
<1>8. RowStep(c)
  BY <1>1 DEF RowStep, LInv, Known, LocalTypeOK
<1> QED
  BY <1>1, <1>7, <1>8, FreeGoesOn, CacheKept DEF Turn, PaneStep, world, SameWorld, LInv

LEMMA HandlerTurn ==
  ASSUME LInv, NEW c \in Chats, HandlerStep(c) PROVE Turn(c)
BY LoadTurn, AskTurn, FailsTurn, DirTurn, StatTurn, CommitTurn, SpawnTurn, HasSessionTurn,
   NewSessionTurn, CheckTurn, TypeTurn
   DEF HandlerStep

-----------------------------------------------------------------------------
(* Such a step keeps what is known and where everything is.                *)

LEMMA TurnKnown ==
  ASSUME LInv, NEW c \in Chats, phase = "up", Turn(c) PROVE Known'
<1>1. PICK o \in Handler : h' = [h EXCEPT ![c] = o] /\ HandlerOK(o, binding'[c])
  BY DEF Turn, GoesOn
<1>2. binding' \in [Chats -> [project : Projects \cup {None}, session : Sessions \cup {None}]]
  BY DEF Turn, RowStep, LInv, Known, LocalTypeOK
<1>3. hosts' \in [Names -> Host \cup {NoHost}]
  <2>1. hosts \in [Names -> Host \cup {NoHost}]
    BY DEF LInv, Known, LocalTypeOK
  <2>2. CASE hosts' = hosts
    BY <2>1, <2>2
  <2>3. CASE hosts' # hosts
    <3>1. PICK s \in Sessions, d \in Dirs :
             hosts' = [hosts EXCEPT ![NameOf[s]] = [session |-> s, dir |-> d]]
      BY <2>3 DEF Turn, PaneStep
    <3>2. [session |-> s, dir |-> d] \in Host /\ NameOf[s] \in Names
      BY DirectoriesAssumption DEF Host
    <3> QED
      BY <2>1, <3>1, <3>2
  <2> QED
    BY <2>2, <2>3
<1>4. ran' \in Host \cup {NoHost}
  BY DEF Turn, RanStep, LInv, Known, LocalTypeOK, Host
<1>5. LocalTypeOK'
  <2>1. h' \in [Chats -> Handler]
    BY <1>1 DEF LInv, Known, LocalTypeOK
  <2>2. rows' \in SUBSET Projects
    BY DEF Turn, RowStep
  <2> QED
    BY <1>2, <1>3, <1>4, <2>1, <2>2
       DEF Turn, SameWorld, CacheStep, LInv, Known, LocalTypeOK
<1>6. \A d \in Chats \ {c} : binding'[d] = binding[d] /\ h'[d] = h[d]
  BY <1>1 DEF Turn, RowStep, LInv, Known, LocalTypeOK
<1>7. HandlersKnow'
  <2>1. phase' = "up" /\ h'[c] = o
    BY <1>1 DEF Turn, SameWorld, LInv, Known, LocalTypeOK
  <2>2. ASSUME NEW d \in Chats PROVE HandlerOK(h'[d], binding'[d])
    BY <1>1, <1>6, <2>1 DEF LInv, Known, HandlersKnow
  <2> QED
    BY <2>1, <2>2 DEF HandlersKnow
<1>8. RowsKnow'
  <2>1. ASSUME NEW d \in Chats, Bound(d)' PROVE binding'[d].project # None
    <3>1. CASE binding'[d] = binding[d]
      BY <2>1, <3>1 DEF Bound, LInv, Known, RowsKnow
    <3>2. CASE binding'[d] # binding[d]
      <4>1. d = c /\ binding' # binding
        BY <1>6, <3>2
      <4>2. PICK p \in Projects, s \in Sessions \cup {None} :
               binding' = [binding EXCEPT ![c] = [project |-> p, session |-> s]]
        BY <4>1 DEF Turn, RowStep
      <4> QED
        BY <4>1, <4>2, DirectoriesAssumption DEF LInv, Known, LocalTypeOK
    <3> QED
      BY <3>1, <3>2
  <2>2. asked' = {}
    BY DEF Turn, SameWorld, LInv, Known, RowsKnow
  <2> QED
    BY <2>1, <2>2 DEF RowsKnow
<1> QED
  BY <1>5, <1>7, <1>8 DEF Known

\* What the cache knows of a session, it goes on knowing.
LEMMA CachedKept ==
  ASSUME CacheStep, ~unsure', NEW p \in Projects, NEW s \in Sessions, Cached(cache, p, s)
  PROVE  Cached(cache', p, s)
BY DirectoriesAssumption DEF CacheStep, Cached

LEMMA TurnPlaced ==
  ASSUME LInv, NEW c \in Chats, phase = "up", Turn(c) PROVE Placed'
<1>1. Known' /\ Known /\ CacheStep /\ (~unsure' => ~unsure)
  BY TurnKnown DEF Turn, CacheStep, LInv
<1>2. OwnNames => OrdersRunInPlace'
  BY <1>1 DEF Turn, RanStep, LInv, Placed, OrdersRunInPlace, Fit
<1>3. ASSUME ~unsure' PROVE PanesFit'
  <2>1. PanesFit
    BY <1>1, <1>3 DEF LInv, Placed
  <2>2. CASE hosts' = hosts
    BY <2>1, <2>2 DEF PanesFit
  <2>3. CASE hosts' # hosts
    <3>1. PICK s \in Sessions, d \in Dirs :
             /\ hosts' = [hosts EXCEPT ![NameOf[s]] = [session |-> s, dir |-> d]]
             /\ Fit(s, d)
      BY <1>1, <1>3, <2>3 DEF Turn, PaneStep
    <3>2. hosts \in [Names -> Host \cup {NoHost}]
      BY DEF LInv, Known, LocalTypeOK
    <3>3. ASSUME NEW n \in Names, hosts'[n] # NoHost
          PROVE  NameOf[hosts'[n].session] = n /\ Fit(hosts'[n].session, hosts'[n].dir)
      <4>1. CASE n = NameOf[s]
        <5>1. hosts'[n] = [session |-> s, dir |-> d]
          BY <3>1, <3>2, <4>1
        <5> QED
          BY <3>1, <4>1, <5>1
      <4>2. CASE n # NameOf[s]
        BY <2>1, <3>1, <3>2, <3>3, <4>2 DEF PanesFit
      <4> QED
        BY <4>1, <4>2
    <3> QED
      BY <3>3 DEF PanesFit
  <2> QED
    BY <2>2, <2>3
<1>4. ASSUME ~unsure', NEW d \in Chats, Bound(d)'
      PROVE  Cached(cache', binding'[d].project, binding'[d].session)
  <2>1. binding'[d].project \in Projects /\ binding'[d].session \in Sessions
    BY <1>1, <1>4 DEF Known, LocalTypeOK, RowsKnow, Bound
  <2>2. Cached(cache, binding'[d].project, binding'[d].session)
    <3>1. CASE binding'[d] = binding[d]
      BY <1>1, <1>4, <3>1 DEF Bound, LInv, Placed, RowsFit
    <3>2. CASE binding'[d] # binding[d]
      <4>1. PICK p \in Projects, s \in Sessions \cup {None} :
               /\ binding' = [binding EXCEPT ![c] = [project |-> p, session |-> s]]
               /\ ~unsure /\ s # None => Cached(cache, p, s)
        BY <3>2 DEF Turn, RowStep
      <4>2. binding'[d] = [project |-> p, session |-> s]
        BY <1>1, <3>2, <4>1 DEF Known, LocalTypeOK
      <4>3. s # None
        BY <1>4, <4>2 DEF Bound
      <4> QED
        BY <1>1, <1>4, <4>1, <4>2, <4>3
    <3> QED
      BY <3>1, <3>2
  <2> QED
    BY <1>1, <1>4, <2>1, <2>2, CachedKept
<1>5. ASSUME ~unsure' PROVE RowsFit'
  <2>1. phase' = "up"
    BY DEF Turn, SameWorld
  <2> QED
    BY <1>4, <1>5, <2>1 DEF RowsFit, Cached, Fit
<1>6. ASSUME ~unsure' PROVE HandlersFit'
  <2>1. PICK o \in Handler :
           h' = [h EXCEPT ![c] = o] /\ HandlerFits(o, binding'[c], cache')
    BY <1>6 DEF Turn, GoesOn
  <2>2. ASSUME NEW d \in Chats PROVE HandlerFits(h'[d], binding'[d], cache')
    <3>1. CASE d = c
      BY <1>1, <2>1, <3>1 DEF Known, LocalTypeOK
    <3>2. CASE d # c
      <4>1. h'[d] = h[d] /\ binding'[d] = binding[d]
        BY <1>1, <2>1, <3>2 DEF Turn, RowStep, Known, LocalTypeOK
      <4>2. HandlerFits(h[d], binding[d], cache) /\ HandlerOK(h[d], binding[d])
        BY <1>1, <1>6 DEF LInv, Placed, HandlersFit, Known, HandlersKnow
      <4>3. ASSUME h[d].goal = "attach", h[d].at \in {"dir", "stat", "has", "new", "commit"}
            PROVE  Cached(cache', binding[d].project, h[d].session)
        <5>1. Cached(cache, binding[d].project, h[d].session)
          BY <4>2, <4>3 DEF HandlerFits
        <5>2. h[d].session \in Sessions /\ binding[d].project # None
          BY <4>2, <4>3 DEF HandlerOK, OrderOK, RowOK, Ops
        <5>3. binding[d].project \in Projects
          BY <1>1, <5>2 DEF Known, LocalTypeOK
        <5> QED
          BY <1>1, <1>6, <5>1, <5>2, <5>3, CachedKept
      <4> QED
        BY <4>1, <4>2, <4>3 DEF HandlerFits
    <3> QED
      BY <3>1, <3>2
  <2> QED
    BY <2>2 DEF HandlersFit
<1> QED
  BY <1>2, <1>3, <1>5, <1>6 DEF Placed

LEMMA TurnKeeps ==
  ASSUME LInv, NEW c \in Chats, phase = "up", Turn(c) PROVE LInv'
BY TurnKnown, TurnPlaced DEF LInv

-----------------------------------------------------------------------------
(* The panes, the process and its start.                                   *)

LEMMA InitLInv ==
  Init => LInv
<1> SUFFICES ASSUME Init PROVE LInv
  OBVIOUS
<1>1. LocalTypeOK
  BY FreeType DEF Init, LocalTypeOK
<1>2. \A c \in Chats : h[c] = Free /\ ~Bound(c)
  BY DEF Init, Bound
<1>3. HandlersKnow /\ RowsKnow
  BY <1>2 DEF Init, HandlersKnow, HandlerOK, RowsKnow, Free
<1>4. PanesFit /\ OrdersRunInPlace
  BY DEF Init, PanesFit, OrdersRunInPlace
<1>5. RowsFit
  BY <1>2 DEF Init, RowsFit
<1>6. HandlersFit
  <2>1. \A c \in Chats : h[c].at = Free.at /\ Free.at = "free"
    BY <1>2, Zenon DEF Free
  <2> QED
    BY <2>1 DEF HandlersFit, HandlerFits
<1> QED
  BY <1>1, <1>3, <1>4, <1>5, <1>6 DEF LInv, Known, Placed

LEMMA HostEndsKeeps ==
  ASSUME LInv, NEW n \in Names, HostEnds(n) PROVE LInv'
<1>1. /\ hosts' = [hosts EXCEPT ![n] = NoHost]
      /\ UNCHANGED <<mode, phase, asked, unsure, binding, rows, cache, h, ran>>
  BY DEF HostEnds, world
<1>2. hosts \in [Names -> Host \cup {NoHost}]
  BY DEF LInv, Known, LocalTypeOK
<1>3. hosts' \in [Names -> Host \cup {NoHost}] /\ \A k \in Names : hosts'[k] \in {hosts[k], NoHost}
  BY <1>1, <1>2
<1>4. Known'
  BY <1>1, <1>3 DEF LInv, Known, LocalTypeOK, HandlersKnow, RowsKnow, Bound
<1>5. ~unsure => PanesFit'
  BY <1>3 DEF LInv, Placed, PanesFit
<1>6. ~unsure => RowsFit' /\ HandlersFit'
  BY <1>1 DEF LInv, Placed, RowsFit, HandlersFit, Bound
<1>7. OwnNames => OrdersRunInPlace'
  BY <1>1 DEF LInv, Placed, OrdersRunInPlace
<1> QED
  BY <1>1, <1>4, <1>5, <1>6, <1>7 DEF LInv, Placed

LEMMA RestartKeeps ==
  ASSUME LInv, Restart PROVE LInv'
<1>1. /\ mode' \in Modes /\ phase' = "boot"
      /\ StartsAsking \/ StartsUnasked
      /\ h' = [c \in Chats |-> Free]
      /\ cache' = [p \in Projects |-> None]
      /\ UNCHANGED <<binding, rows, hosts, ran>>
  BY DEF Restart
<1>a. /\ asked' \subseteq WithSession /\ unsure' \in BOOLEAN
      /\ ~unsure' => ~unsure /\ asked' = WithSession
  <2>1. unsure \in BOOLEAN
    BY DEF LInv, Known, LocalTypeOK
  <2>2. CASE StartsAsking
    BY <2>1, <2>2 DEF StartsAsking
  <2>3. CASE StartsUnasked
    <3>1. asked' = {} /\ unsure' = (unsure \/ WithSession # {})
      BY <2>3 DEF StartsUnasked
    <3> QED
      BY <2>1, <3>1
  <2> QED
    BY <1>1, <2>2, <2>3
<1>2. LocalTypeOK'
  BY <1>1, <1>a, FreeType DEF LInv, Known, LocalTypeOK, WithSession
<1>3. HandlersKnow' /\ HandlersFit'
  BY <1>1 DEF HandlersKnow, HandlerOK, HandlersFit, HandlerFits, Free
<1>4. RowsKnow'
  BY <1>1, <1>a DEF LInv, Known, RowsKnow, WithSession, Bound
<1>5. ~unsure' => RowsFit'
  <2>1. \A c \in Chats : Bound(c) => binding[c].project \in Projects
    BY DEF LInv, Known, LocalTypeOK, RowsKnow
  <2> QED
    BY <1>1, <1>a, <2>1 DEF LInv, Placed, RowsFit, WithSession, Bound
<1>6. ~unsure' => PanesFit'
  BY <1>1, <1>a DEF LInv, Placed, PanesFit
<1>7. OwnNames => OrdersRunInPlace'
  BY <1>1, <1>a DEF LInv, Placed, OrdersRunInPlace
<1> QED
  BY <1>1, <1>2, <1>3, <1>4, <1>5, <1>6, <1>7 DEF LInv, Known, Placed

\* While the process starts no handler is at work.
LEMMA NoHandlerAtBoot ==
  ASSUME LInv, phase = "boot", UNCHANGED <<phase, h>> PROVE HandlersKnow' /\ HandlersFit'
BY DEF LInv, Known, HandlersKnow, HandlerOK, HandlersFit, HandlerFits

\* The start has dealt with a chat: it has no session any more, or the start
\* was not told.
BootStep(c) ==
    /\ phase = "boot" /\ c \in asked /\ asked' = asked \ {c}
    /\ UNCHANGED <<mode, phase, rows, h, hosts, ran>>
    /\ cache' \in [Projects -> Dirs \cup {None}]
    /\ unsure' \in BOOLEAN /\ (unsure => unsure')
    /\ binding' = binding \/ CloseBinding(c)
    /\ ~unsure' =>
          /\ CloseBinding(c)
          /\ \/ cache' = cache
             \/ /\ PathOf[binding[c].session] # None
                /\ cache' = [cache EXCEPT ![binding[c].project] = PathOf[binding[c].session]]

LEMMA ReconcileBoots ==
  ASSUME LInv, NEW c \in Chats, Reconcile(c) \/ ReconcileFails(c) PROVE BootStep(c)
<1> DEFINE p == binding[c].project
           s == binding[c].session
<1>1. /\ phase = "boot" /\ c \in asked /\ asked' = asked \ {c}
      /\ UNCHANGED <<mode, phase, rows, h, hosts, ran>>
  BY DEF Reconcile, ReconcileFails
<1>2. cache \in [Projects -> Dirs \cup {None}] /\ unsure \in BOOLEAN
  BY DEF LInv, Known, LocalTypeOK
<1>3. Bound(c) /\ p \in Projects /\ s \in Sessions
  BY <1>1 DEF LInv, Known, LocalTypeOK, RowsKnow, Bound
<1>4. PathOf[s] \in Dirs \cup {None} /\ DirOf[p] \in Dirs
  BY <1>3, DirectoriesAssumption
<1> HIDE DEF p, s
<1>5. CASE ReconcileBare(c)
  <2>1. PICK looked \in BOOLEAN :
          /\ cache' = [cache EXCEPT ![p] = IF looked THEN DirOf[p] ELSE cache[p]]
          /\ unsure' = (unsure \/ looked)
          /\ CloseBinding(c)
    BY <1>5 DEF ReconcileBare, p
  <2>2. cache' \in [Projects -> Dirs \cup {None}] /\ unsure' \in BOOLEAN
    BY <1>2, <1>3, <1>4, <2>1
  <2>3. ~unsure' => cache' = cache
    BY <1>2, <1>3, <2>1
  <2> QED
    BY <1>1, <2>1, <2>2, <2>3 DEF BootStep
<1>6. CASE ReconcileFitting(c)
  <2>1. /\ PathOf[s] # None /\ cache' = [cache EXCEPT ![p] = PathOf[s]]
        /\ CloseBinding(c) /\ unsure' = unsure
    BY <1>6 DEF ReconcileFitting, p, s
  <2>2. cache' \in [Projects -> Dirs \cup {None}]
    BY <1>2, <1>3, <1>4, <2>1
  <2> QED
    BY <1>1, <1>2, <2>1, <2>2 DEF BootStep, p, s
<1>7. CASE ReconcileElsewhere(c)
  <2>1. /\ PathOf[s] # None /\ cache[p] \notin {None, PathOf[s]}
        /\ UNCHANGED <<cache, binding, unsure>>
    BY <1>7 DEF ReconcileElsewhere, Fits, p, s
  <2>2. unsure
    BY <1>1, <1>3, <2>1 DEF LInv, Placed, RowsFit, Fit, p, s
  <2> QED
    BY <1>1, <1>2, <2>1, <2>2 DEF BootStep
<1>8. CASE ReconcileMissing(c)
  BY <1>1, <1>2, <1>8 DEF ReconcileMissing, BootStep
<1>9. CASE ReconcileFails(c)
  BY <1>1, <1>2, <1>9 DEF ReconcileFails, BootStep
<1> QED
  BY <1>5, <1>6, <1>7, <1>8, <1>9 DEF Reconcile

LEMMA BootKnown ==
  ASSUME LInv, NEW c \in Chats, BootStep(c)
  PROVE  /\ Known'
         /\ \A d \in Chats : binding'[d].project = binding[d].project
         /\ \A d \in Chats : Bound(d)' => Bound(d) /\ binding'[d] = binding[d]
         /\ CloseBinding(c) => ~Bound(c)'
         /\ \A d \in Chats \ {c} : binding'[d] = binding[d]
<1>1. binding \in [Chats -> [project : Projects \cup {None}, session : Sessions \cup {None}]]
  BY DEF LInv, Known, LocalTypeOK
<1> DEFINE o == [binding[c] EXCEPT !.session = None]
<1>2. /\ o \in [project : Projects \cup {None}, session : Sessions \cup {None}]
      /\ o.project = binding[c].project /\ o.session = None
  BY <1>1
<1>3. CloseBinding(c) => binding' = [binding EXCEPT ![c] = o]
  BY <1>1 DEF CloseBinding
<1> HIDE DEF o
<1>4. /\ binding' \in [Chats -> [project : Projects \cup {None}, session : Sessions \cup {None}]]
      /\ \A d \in Chats : binding'[d].project = binding[d].project
      /\ \A d \in Chats : Bound(d)' => Bound(d) /\ binding'[d] = binding[d]
      /\ CloseBinding(c) => ~Bound(c)'
      /\ \A d \in Chats \ {c} : binding'[d] = binding[d]
  <2>1. CASE binding' = binding
    BY <1>1, <1>2, <1>3, <2>1 DEF Bound
  <2>2. CASE CloseBinding(c)
    BY <1>1, <1>2, <1>3, <2>2 DEF Bound
  <2> QED
    BY <2>1, <2>2 DEF BootStep
<1>5. LocalTypeOK'
  BY <1>4 DEF BootStep, LInv, Known, LocalTypeOK
<1>6. HandlersKnow'
  BY NoHandlerAtBoot DEF BootStep
<1>7. RowsKnow'
  <2>1. /\ phase' = "boot" /\ asked' = asked \ {c}
        /\ \A d \in asked : Bound(d) /\ d \in Chats
        /\ \A d \in Chats : Bound(d) => binding[d].project # None
    BY DEF BootStep, LInv, Known, LocalTypeOK, RowsKnow
  <2>2. \A d \in Chats : Bound(d)' => binding'[d].project # None
    BY <1>4, <2>1
  <2>3. \A d \in asked' : Bound(d)'
    BY <1>4, <2>1 DEF Bound
  <2> QED
    BY <2>1, <2>2, <2>3 DEF RowsKnow
<1> QED
  BY <1>4, <1>5, <1>6, <1>7 DEF Known

LEMMA BootKeeps ==
  ASSUME LInv, NEW c \in Chats, BootStep(c) PROVE LInv'
<1>1. OwnNames => OrdersRunInPlace'
  BY DEF BootStep, LInv, Placed, OrdersRunInPlace
<1>2. ASSUME ~unsure' PROVE PanesFit' /\ HandlersFit'
  BY <1>2, NoHandlerAtBoot DEF BootStep, LInv, Placed, PanesFit
<1>3. ASSUME ~unsure' PROVE RowsFit'
  <2>1. RowsFit /\ CloseBinding(c) /\ ~Bound(c)'
    BY <1>3, BootKnown DEF BootStep, LInv, Placed
  <2>2. phase = "boot" /\ phase' = "boot" /\ asked' = asked \ {c} /\ Bound(c)
    BY DEF BootStep, LInv, Known, RowsKnow
  <2>3. \A d \in Chats : Bound(d)' => Bound(d) /\ binding'[d] = binding[d] /\ d # c
    BY <2>1, BootKnown
  <2>4. ASSUME NEW d \in Chats, Bound(d)', cache'[binding'[d].project] # None
        PROVE  Fit(binding'[d].session, cache'[binding'[d].project])
    <3>1. Bound(d) /\ binding'[d] = binding[d]
      BY <2>3, <2>4
    <3>2. CASE cache'[binding[d].project] = cache[binding[d].project]
      BY <2>1, <2>4, <3>1, <3>2 DEF RowsFit
    <3>3. CASE cache'[binding[d].project] # cache[binding[d].project]
      <4>1. /\ PathOf[binding[c].session] # None
            /\ cache' = [cache EXCEPT ![binding[c].project] = PathOf[binding[c].session]]
        BY <1>3, <3>3 DEF BootStep
      <4>2. /\ cache \in [Projects -> Dirs \cup {None}] /\ binding[d].project \in Projects
        BY <3>1 DEF LInv, Known, LocalTypeOK, RowsKnow, Bound
      <4>3. /\ binding[d].project = binding[c].project
            /\ cache'[binding[d].project] = PathOf[binding[c].session]
        BY <3>3, <4>1, <4>2
      <4>4. PathOf[binding[d].session] \in {None, PathOf[binding[c].session]}
        BY <2>1, <2>2, <3>1, <4>1, <4>3 DEF RowsFit
      <4> QED
        BY <3>1, <4>3, <4>4 DEF Fit
    <3> QED
      BY <3>2, <3>3
  <2>5. \A d \in Chats : Bound(d)' => d \in asked'
    BY <2>1, <2>2, <2>3 DEF RowsFit
  <2>6. \A d, e \in Chats :
          /\ Bound(d)' /\ Bound(e)' /\ binding'[d].project = binding'[e].project
          /\ PathOf[binding'[d].session] # None /\ PathOf[binding'[e].session] # None
          => PathOf[binding'[d].session] = PathOf[binding'[e].session]
    BY <2>1, <2>3 DEF RowsFit
  <2> QED
    BY <2>2, <2>4, <2>5, <2>6 DEF RowsFit
<1> QED
  BY <1>1, <1>2, <1>3, BootKnown DEF LInv, Placed

LEMMA StartedKeeps ==
  ASSUME LInv, Started PROVE LInv'
<1>1. /\ phase = "boot" /\ asked = {} /\ phase' = "up"
      /\ UNCHANGED <<mode, binding, rows, cache, h, hosts, ran, asked, unsure>>
  BY DEF Started
<1>2. ~unsure => \A c \in Chats : ~Bound(c)
  BY <1>1 DEF LInv, Placed, RowsFit
<1>3. Known'
  BY <1>1 DEF LInv, Known, LocalTypeOK, HandlersKnow, RowsKnow, Bound
<1>4. ~unsure => RowsFit' /\ PanesFit' /\ HandlersFit'
  BY <1>1, <1>2 DEF LInv, Placed, RowsFit, PanesFit, HandlersFit, Bound
<1>5. OwnNames => OrdersRunInPlace'
  BY <1>1 DEF LInv, Placed, OrdersRunInPlace
<1> QED
  BY <1>1, <1>2, <1>3, <1>4, <1>5 DEF LInv, Placed

-----------------------------------------------------------------------------
LEMMA NextKeeps ==
  ASSUME LInv, Next PROVE LInv'
<1>1. ASSUME NEW c \in Chats, HandlerStep(c) PROVE LInv'
  <2>1. h[c].at # "free"
    BY <1>1 DEF HandlerStep, Load, LoadSelect, LoadAttach, LoadSend, LoadLook, Ask, AskFails,
               Dir, Stat, StatFails, Commit, Spawn, SpawnFails, HasSession, NewSession,
               NewSessionFails, Check, Type, TypeFails
  <2>2. phase = "up"
    BY <2>1, AtWork
  <2> QED
    BY <1>1, <2>2, HandlerTurn, TurnKeeps
<1>2. ASSUME NEW c \in Chats, NEW op \in Ops, NEW p \in Projects \cup {None},
             NEW s \in Sessions \cup {None}, Begin(c, op, p, s)
      PROVE  LInv'
  <2>1. phase = "up"
    BY <1>2 DEF Begin
  <2> QED
    BY <1>2, <2>1, BeginTurn, TurnKeeps
<1>3. ASSUME NEW c \in Chats, Reconcile(c) \/ ReconcileFails(c) PROVE LInv'
  BY <1>3, ReconcileBoots, BootKeeps
<1> QED
  BY <1>1, <1>2, <1>3, HostEndsKeeps, RestartKeeps, StartedKeeps DEF Next

LEMMA Stutter ==
  ASSUME LInv, UNCHANGED vars PROVE LInv'
<1>1. /\ mode' = mode /\ phase' = phase /\ binding' = binding /\ rows' = rows /\ cache' = cache
      /\ h' = h /\ hosts' = hosts /\ ran' = ran /\ asked' = asked /\ unsure' = unsure
  BY DEF vars
<1>2. Known'
  BY <1>1 DEF LInv, Known, LocalTypeOK, HandlersKnow, RowsKnow, Bound
<1>3. ~unsure => PanesFit' /\ RowsFit' /\ HandlersFit'
  BY <1>1 DEF LInv, Placed, PanesFit, RowsFit, HandlersFit, Bound
<1>4. OwnNames => OrdersRunInPlace'
  BY <1>1 DEF LInv, Placed, OrdersRunInPlace
<1> QED
  BY <1>1, <1>2, <1>3, <1>4 DEF LInv, Placed

LEMMA Invariance == Spec => []LInv
<1>1. Init => LInv
  BY InitLInv
<1>2. LInv /\ [Next]_vars => LInv'
  BY NextKeeps, Stutter
<1> QED
  BY <1>1, <1>2, PTL DEF Spec

\* Whatever order the handlers of the chats take their steps in, and wherever
\* the process stops, rows, caches, handlers and panes are of their types.
THEOREM Typing == Spec => []LocalTypeOK
<1>1. LInv => LocalTypeOK
  BY DEF LInv, Known
<1> QED
  BY <1>1, Invariance, PTL

\* What is ordered of a session runs in its directory, for any sessions of
\* which no two have the same name in tmux (toTmuxSessionName,
\* infrastructure/opencode-tmux-host.ts:89, lower-cases ids and turns runs of
\* other characters into one "-"; nothing in src/ rules out that two ids meet).
THEOREM InPlace ==
  ASSUME \A s, t \in Sessions : NameOf[s] = NameOf[t] => s = t
  PROVE  Spec => []OrdersRunInPlace
<1>1. LInv => OrdersRunInPlace
  BY DEF LInv, Placed, OwnNames
<1> QED
  BY <1>1, Invariance, PTL

\* Chats that work on one project are in one directory: the cache gives it to
\* the second of them, and a start that asks about all sessions, whose process
\* has forgotten the cache, takes the session from every chat.
THEOREM Agreement == Spec => []ChatsAgree
<1>1. LInv => ChatsAgree
  BY DEF LInv, Placed, RowsFit, ChatsAgree
<1> QED
  BY <1>1, Invariance, PTL

=============================================================================
