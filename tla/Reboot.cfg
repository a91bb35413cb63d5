SPECIFICATION FairRestartSpec
CONSTANTS
    None = None
    c1 = c1
    c2 = c2
    p1 = p1
    s1 = s1
    s2 = s2
    t1 = t1
    t2 = t2
    q1 = q1
    q2 = q2
    h1 = h1
    h2 = h2
    v1 = v1
    Chats = {c1}
    Projects = {p1}
    Sessions = {s1}
    Tasks = {t1}
    Prompts = {}
    TextPrompts = {}
    MaxRetry = 2
    HumanPrompts = TRUE
    External = {}
    Announced = FALSE
    EndKinds = {"completed", "failed"}
    ResumeKinds = {"started"}
    AskedWithin = FALSE
    Handlers = {h1}
    Sweeps = {v1}
    Commands = {"project", "session", "new", "text"}
    MessageReplies = {"running"}
    LockEnabled = TRUE
    Faults = {"webhook"}
    RemoteReconcile = {TRUE}
    MaxCrashes = 1
    ProjectOf <- MCProjectOf
PROPERTIES FirstCauseStays TokenNeverRevived EndIsReported
