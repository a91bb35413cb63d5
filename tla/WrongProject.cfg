SPECIFICATION Spec
CONSTANTS
    None = None
    cA = cA
    cB = cB
    p1 = p1
    here = here
    there = there
    bare = bare
    dP = dP
    dQ = dQ
    n1 = n1
    n2 = n2
    n3 = n3
    Chats = {cA}
    Projects = {p1}
    Sessions <- MCSessions
    Dirs = {dP, dQ}
    Names = {n1, n2, n3}
    DirOf <- MCDirOf
    PathOf <- MCPathOf
    NameOf <- MCNameOf
    Modes = {"cli"}
    RemoteReconcile = {TRUE}
    Faults = {}
INVARIANT NoSilentReassociation
CHECK_DEADLOCK FALSE
