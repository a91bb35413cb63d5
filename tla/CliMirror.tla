------------------------------ MODULE CliMirror -----------------------------
(***************************************************************************)
(* The mirror of the CLI and PTY modes                                     *)
(* (application/opencode-cli-mirror-service.ts): a timer reads what the    *)
(* sessions of all bound chats wrote into OpenCode's local database        *)
(* (infrastructure/opencode-local-store.ts) and shows what is new.  In     *)
(* these modes the answer to a text comes by the mirror only: sendMessage  *)
(* returns no text of the model, so that no echo is ever to be suppressed. *)
(*                                                                         *)
(* The i-th assistant message of a session has the id i.  Its text is      *)
(* known by the number of its parts; a message without any is not listed.  *)
(***************************************************************************)
EXTENDS Integers, Sequences

CONSTANTS Chats, Sessions, None,
          MaxMessages, MaxParts,   \* bounds: messages of each session, their parts
          Broken,      \* sessions whose messages cannot always be read
          Faults,      \* "telegram": a message is refused, or a part of it, or
                       \* it is shown and the answer is lost
          MaxCrashes   \* bound: how often the bot is started again

\* What the mirror knows a message by: its id and its text.
Key == [id : Nat, parts : Nat]

ASSUME MirrorAssumption ==
    /\ None \notin Chats \cup Sessions \cup Key
    /\ MaxMessages \in [Sessions -> Nat] /\ MaxParts \in [Sessions -> Nat \ {0}]
    /\ MaxCrashes \in Nat
    /\ Broken \subseteq Sessions

VARIABLES log,        \* the local database: the parts of a session's messages
          bound,      \* the store: the session of a chat
          lastSeen,   \* lastSeenAssistantMessageKeyBySession
          sweep,      \* the sweep that is running
          screen,     \* history: what a chat was shown of a session: a message,
                      \* or, if it was not sent, perhaps a part of it
          crashes

vars == <<log, bound, lastSeen, sweep, screen, crashes>>
botVars == <<lastSeen, sweep, screen, crashes>>

Target == [chat : Chats, session : Sessions]

Off == [at |-> "off", todo |-> {}, target |-> None, fresh |-> <<>>]

\* Sessions were used at the PC before, or not.
Init ==
    /\ log \in [Sessions -> {<<>>, <<1>>}]
    /\ bound = [c \in Chats |-> None]
    /\ lastSeen = [s \in Sessions |-> None]
    /\ sweep = Off
    /\ screen = [c \in Chats |-> [s \in Sessions |-> <<>>]]
    /\ crashes = 0

-----------------------------------------------------------------------------
(* OpenCode and the users.                                                 *)

\* The model answers a text, of a bound chat or one typed at the PC.
Write(s) ==
    /\ Len(log[s]) < MaxMessages[s]
    /\ log' = [log EXCEPT ![s] = Append(@, 1)]
    /\ UNCHANGED <<bound, botVars>>

\* The message that is being written gets longer.
Grow(s) ==
    LET last == Len(log[s]) IN
    /\ last > 0 /\ log[s][last] < MaxParts[s]
    /\ log' = [log EXCEPT ![s][last] = @ + 1]
    /\ UNCHANGED <<bound, botVars>>

\* /session and /project.
Rebind(c) ==
    /\ \E s \in Sessions \cup {None} : s # bound[c] /\ bound' = [bound EXCEPT ![c] = s]
    /\ UNCHANGED <<log, botVars>>

-----------------------------------------------------------------------------
(* sweep: while it runs, the timer starts no other.                        *)

Targets == {t \in Target : bound[t.chat] = t.session}

\* listActiveSessionTargets, pruneInactiveSessions
StartSweep ==
    /\ sweep.at = "off"
    /\ sweep' = [Off EXCEPT !.at = "next", !.todo = Targets]
    /\ lastSeen' = [s \in Sessions |->
          IF \E t \in Targets : t.session = s THEN lastSeen[s] ELSE None]
    /\ UNCHANGED <<log, bound, screen, crashes>>

KeyOf(s, i) == [id |-> i, parts |-> log[s][i]]
Keys(s) == [i \in 1..Len(log[s]) |-> KeyOf(s, i)]

\* A mutant: the slice begins with the message that was seen.
AfterLastSeenInclusive(s, seen) ==
    IF \E i \in 1..Len(log[s]) : KeyOf(s, i) = seen
    THEN SubSeq(Keys(s), seen.id, Len(log[s])) ELSE Keys(s)

\* sliceAfterLastSeen: everything, if the last seen message is not there.
AfterLastSeen(s, seen) ==
    IF \E i \in 1..Len(log[s]) : KeyOf(s, i) = seen
    THEN SubSeq(Keys(s), seen.id + 1, Len(log[s])) ELSE Keys(s)

Turn(t, fresh) ==
    sweep' = [at |-> IF fresh = <<>> THEN "next" ELSE "send", todo |-> sweep.todo \ {t},
              target |-> IF fresh = <<>> THEN None ELSE t, fresh |-> fresh]

\* mirrorSession: of a session that was not followed so far the messages are
\* taken as seen.
Read(t) ==
    LET s == t.session IN
    /\ sweep.at = "next" /\ t \in sweep.todo
    /\ IF log[s] # <<>> /\ lastSeen[s] = None
       THEN lastSeen' = [lastSeen EXCEPT ![s] = KeyOf(s, Len(log[s]))] /\ Turn(t, <<>>)
       ELSE Turn(t, IF log[s] = <<>> THEN <<>> ELSE AfterLastSeen(s, lastSeen[s]))
            /\ UNCHANGED lastSeen
    /\ UNCHANGED <<log, bound, screen, crashes>>

\* A mutant: the first error ends the sweep.
ReadFailsForAll(t) ==
    /\ sweep.at = "next" /\ t \in sweep.todo /\ t.session \in Broken
    /\ sweep' = Off
    /\ UNCHANGED <<log, bound, lastSeen, screen, crashes>>

\* An error is logged; the other sessions have their turn.
ReadFails(t) ==
    /\ sweep.at = "next" /\ t \in sweep.todo /\ t.session \in Broken
    /\ Turn(t, <<>>)
    /\ UNCHANGED <<log, bound, lastSeen, screen, crashes>>

Entry(key, sent) == [id |-> key.id, sent |-> sent]

\* sendTelegramText, all chunks of the message.  The chat is the one that was
\* bound when the sweep began.
Show ==
    LET t == sweep.target
        key == Head(sweep.fresh)
    IN
    /\ sweep.at = "send"
    /\ screen' = [screen EXCEPT ![t.chat][t.session] = Append(@, Entry(key, TRUE))]
    /\ lastSeen' = [lastSeen EXCEPT ![t.session] = key]
    /\ Turn(t, Tail(sweep.fresh))
    /\ UNCHANGED <<log, bound, crashes>>

\* The sending ends early: the chat has no chunk of the message, or some, or,
\* unknown to the bot, all.  Attempts that follow each other count once.
ShownInPart ==
    LET t == sweep.target
        part == Entry(Head(sweep.fresh), FALSE)
        shown == screen[t.chat][t.session]
    IN
    \/ UNCHANGED screen
    \/ /\ shown # <<>> => shown[Len(shown)] # part
       /\ screen' = [screen EXCEPT ![t.chat][t.session] = Append(@, part)]

\* The whole message, with the rest of the session, waits for the next sweep.
ShowFails ==
    /\ sweep.at = "send" /\ "telegram" \in Faults
    /\ ShownInPart /\ Turn(sweep.target, <<>>)
    /\ UNCHANGED <<log, bound, lastSeen, crashes>>

EndSweep ==
    /\ sweep.at = "next" /\ sweep.todo = {}
    /\ sweep' = Off
    /\ UNCHANGED <<log, bound, lastSeen, screen, crashes>>

\* The maps are in memory only.
Crash ==
    /\ crashes < MaxCrashes
    /\ crashes' = crashes + 1
    /\ lastSeen' = [s \in Sessions |-> None] /\ sweep' = Off
    /\ UNCHANGED screen \/ (sweep.at = "send" /\ ShownInPart)
    /\ UNCHANGED <<log, bound>>

SweepStep ==
    \/ StartSweep \/ EndSweep \/ Show \/ ShowFails
    \/ \E t \in Target : Read(t) \/ ReadFails(t)

Next ==
    \/ \E s \in Sessions : Write(s) \/ Grow(s)
    \/ \E c \in Chats : Rebind(c)
    \/ SweepStep
    \/ Crash

Spec == Init /\ [][Next]_vars

\* The timer starts a sweep again and again, and every sweep gets through its
\* targets.  A session that is not broken is read when it has its turn, and
\* Telegram, which is offered its messages again by every sweep, does not refuse
\* them for ever.
FairSpec ==
    /\ Spec /\ WF_vars(SweepStep)
    /\ \A t \in {x \in Target : x.session \notin Broken} :
          WF_vars(Read(t)) /\ SF_vars(sweep.target = t /\ Show)

-----------------------------------------------------------------------------
\* A chat is shown the messages of a session in their order, and one that was
\* sent never again; a message comes twice only if its sending had failed, and
\* then next.  So whenever the bot dies, and whoever binds what while a sweep
\* runs, as long as no message of the session grew.
ShownInOrder ==
    \A c \in Chats, s \in Sessions :
        (\A i \in DOMAIN log[s] : log[s][i] = 1) =>
            \A m, n \in DOMAIN screen[c][s] : m < n =>
                /\ screen[c][s][m].id <= screen[c][s][n].id
                /\ screen[c][s][m].sent => screen[c][s][m].id < screen[c][s][n].id

\* A message that comes after what was seen of its session is shown as a whole,
\* to one of the chats that have the session, unless the chat leaves it or the
\* bot dies and forgets what was seen; sessions that cannot be read hold up no
\* other.
IsShown(s, i) ==
    \E c \in Chats : \E n \in DOMAIN screen[c][s] : screen[c][s][n] = [id |-> i, sent |-> TRUE]
Unseen(c, s, i) == bound[c] = s /\ i <= Len(log[s]) /\ lastSeen[s] # None /\ lastSeen[s].id < i
FollowedIsShown ==
    \A c \in Chats, s \in Sessions \ Broken : \A i \in 1..MaxMessages[s] :
        Unseen(c, s, i) ~> IsShown(s, i) \/ bound[c] # s \/ lastSeen[s] = None

=============================================================================
