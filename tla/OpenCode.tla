------------------------------ MODULE OpenCode ------------------------------
(***************************************************************************)
(* The OpenCode server as the bot sees it through                          *)
(* infrastructure/opencode-session-adapter.ts (HTTP mode) and as           *)
(* mock/opencode-mock.ts plays it: sessions that run one task at a time    *)
(* and report to the webhook whose token was registered last.  It is the   *)
(* environment of the bot: runs end, crash and ask when they like.         *)
(***************************************************************************)
EXTENDS Store

CONSTANTS External,      \* sessions that exist before the bot does
          ProjectOf,     \* the project a session belongs to
          Announced,     \* does the server announce the start of a run
          EndKinds,      \* how it announces the end of a run
          ResumeKinds,   \* how it announces that an asked run goes on
          AskedWithin    \* may a run ask for input without prompt data

ASSUME OpenCodeAssumption ==
    /\ External \subseteq Sessions
    /\ ProjectOf \in [Sessions -> Projects]
    /\ EndKinds \subseteq {"completed", "failed"} /\ ResumeKinds \subseteq {"started", "resumed"}
    /\ Announced \in BOOLEAN /\ AskedWithin \in BOOLEAN

VARIABLES remote,   \* the sessions on the server
          wire,     \* webhook calls the server has made and the bot not received
          runs,     \* task ids given out
          asked     \* prompt ids given out

serverVars == <<remote, wire, runs, asked>>

\* "own" is the token of the session's creation; "stray" any token the bot
\* minted for a message and did not keep.
RemoteSession == [status : {"unborn", "idle", "running", "needs-attention",
                            "completed", "gone"},
                  task : Tasks \cup {None},
                  token : {"none", "own", "stray"},
                  prompt : Prompts \cup {None}]

EventKinds == {"started", "completed", "failed", "needs-input", "resumed"}
Event == [kind : EventKinds, session : Sessions, token : {"own", "stray", "none"},
          prompt : Prompts \cup {None}, run : Tasks \cup {None}]

ServerTypeOK ==
    /\ remote \in [Sessions -> RemoteSession]
    /\ wire \subseteq Event
    /\ runs \subseteq Tasks
    /\ asked \subseteq Prompts

ServerInit ==
    /\ remote = [s \in Sessions |->
                    [status |-> IF s \in External THEN "idle" ELSE "unborn",
                     task |-> None, token |-> "none", prompt |-> None]]
    /\ wire = {}
    /\ runs = {}
    /\ asked = {}

Alive(s) == remote[s].status \notin {"unborn", "gone"}

\* What a question about a live session is answered: a task while it runs.
AnswerOf(s) ==
    [status |-> remote[s].status,
     task |-> IF remote[s].status = "running" THEN remote[s].task ELSE None]

\* Task ids are interchangeable: the next one is any fixed unused one.
FreshTask == CHOOSE t \in Tasks : t \notin runs

\* The webhook calls a session with a registered token makes.
Reports(s, token, run, kinds) ==
    IF token = "none" THEN {}
    ELSE {[kind |-> k, session |-> s, token |-> token, prompt |-> None, run |-> run] :
             k \in kinds}

-----------------------------------------------------------------------------
(* Calls of the bot.                                                       *)

ServerCreate(s) ==
    /\ remote[s].status = "unborn"
    /\ remote' = [remote EXCEPT ![s] = [@ EXCEPT !.status = "idle", !.token = "own"]]
    /\ UNCHANGED <<wire, runs, asked>>

\* A message or a command that starts a run.
ServerRun(s, token) ==
    /\ Tasks \ runs # {}
    /\ remote' = [remote EXCEPT ![s] = [status |-> "running", task |-> FreshTask,
                                        token |-> token, prompt |-> None]]
    /\ runs' = runs \cup {FreshTask}
    /\ wire' = wire \cup Reports(s, token, FreshTask,
                                 IF Announced THEN {"started"} ELSE {})
    /\ UNCHANGED asked

\* A message that is answered at once.
ServerReply(s, token) ==
    /\ remote' = [remote EXCEPT ![s] = [status |-> "idle", task |-> None,
                                        token |-> token, prompt |-> None]]
    /\ UNCHANGED <<wire, runs, asked>>

\* A message whose run stops at a question before it is answered.
ServerAsks(s, token) ==
    /\ Tasks \ runs # {}
    /\ remote' = [remote EXCEPT ![s] = [status |-> "needs-attention", task |-> FreshTask,
                                        token |-> token, prompt |-> None]]
    /\ runs' = runs \cup {FreshTask}
    /\ wire' = wire \cup Reports(s, token, FreshTask, {"needs-input"})
    /\ UNCHANGED asked

ServerCancel(s) ==
    /\ remote' = [remote EXCEPT ![s] = [@ EXCEPT !.status = "idle", !.task = None,
                                                 !.prompt = None]]
    /\ UNCHANGED <<wire, runs, asked>>

\* The run goes on, and says so in one of the ways of ResumeKinds.
ServerResume(s) ==
    /\ remote[s].status = "needs-attention"
    /\ remote' = [remote EXCEPT ![s] = [@ EXCEPT !.status = "running", !.prompt = None]]
    /\ \E k \in ResumeKinds :
          wire' = wire \cup Reports(s, remote[s].token, remote[s].task, {k})
    /\ UNCHANGED <<runs, asked>>

-----------------------------------------------------------------------------
(* Steps of the server's own.                                              *)

\* The run ends and reports it, or is killed and cannot.
RunEnds(s, kind) ==
    /\ remote[s].status = "running"
    /\ remote' = [remote EXCEPT ![s] = [@ EXCEPT !.status = "completed"]]
    /\ wire' = wire \cup Reports(s, remote[s].token, remote[s].task, {kind})
    /\ UNCHANGED <<runs, asked>>

RunCrashes(s) ==
    /\ remote[s].status = "running"
    /\ remote' = [remote EXCEPT ![s] = [@ EXCEPT !.status = "gone"]]
    /\ UNCHANGED <<wire, runs, asked>>

\* The run stops at a question, with a prompt id or without.
RunAsks(s, p) ==
    /\ remote[s].status = "running"
    /\ remote' = [remote EXCEPT ![s] = [@ EXCEPT !.status = "needs-attention", !.prompt = p]]
    /\ wire' = wire \cup {[e EXCEPT !.prompt = p] :
                  e \in Reports(s, remote[s].token, remote[s].task, {"needs-input"})}
    /\ asked' = asked \cup ({p} \ {None})
    /\ UNCHANGED runs

\* Somebody answers at the PC.
AnsweredAtPc(s) == ServerResume(s)

ServerStep ==
    \E s \in Sessions :
        \/ \E kind \in EndKinds : RunEnds(s, kind)
        \/ RunCrashes(s)
        \/ \E p \in (Prompts \ asked) \cup (IF AskedWithin THEN {None} ELSE {}) : RunAsks(s, p)
        \/ AnsweredAtPc(s)
=============================================================================
