SPECIFICATION Spec
CONSTANTS
    None = None
    c1 = c1
    c2 = c2
    p1 = p1
    s1 = s1
    s2 = s2
    t1 = t1
    t2 = t2
    q1 = q1
    q2 = q2
    h1 = h1
    h2 = h2
    v1 = v1
    Chats = {c1}
    Projects = {p1}
    Sessions = {s1, s2}
    Tasks = {t1, t2}
    Prompts = {}
    TextPrompts = {}
    MaxRetry = 2
    HumanPrompts = TRUE
    External = {s2}
    Announced = FALSE
    EndKinds = {"completed", "failed"}
    ResumeKinds = {"started"}
    AskedWithin = FALSE
    Handlers = {h1, h2}
    Sweeps = {}
    Commands = {"status", "project", "session", "new", "text", "run", "cancel"}
    MessageReplies = {"running", "unknown", "idle"}
    LockEnabled = TRUE
    Faults = {}
    ProjectOf <- MCProjectOf
INVARIANTS OneActiveTask TaskIsTheLatest TaskOfBoundSession
PROPERTIES OneRunAtATime
