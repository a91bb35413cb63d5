SPECIFICATION Spec
CONSTANTS
    None = None
    c1 = c1
    c2 = c2
    p1 = p1
    s1 = s1
    s2 = s2
    t1 = t1
    t2 = t2
    q1 = q1
    q2 = q2
    h1 = h1
    h2 = h2
    v1 = v1
    Chats = {c1}
    Projects = {p1}
    Sessions = {s1}
    Tasks = {t1}
    Prompts = {q1}
    TextPrompts = {}
    MaxRetry = 2
    HumanPrompts = TRUE
    External = {}
    Announced = FALSE
    EndKinds = {"completed"}
    ResumeKinds = {"started"}
    AskedWithin = FALSE
    Handlers = {h1, h2}
    Sweeps = {}
    Commands = {"project", "new", "text", "button"}
    MessageReplies = {"running"}
    LockEnabled = FALSE
    Faults = {"answer", "telegram", "store"}
    ProjectOf <- MCProjectOf
INVARIANTS ButtonsAreTracked SubmittedHasOwner QuestionIsOpen
PROPERTIES ImplementsPromptLife OneAnswerAtATime

SYMMETRY HandlerSymmetry
