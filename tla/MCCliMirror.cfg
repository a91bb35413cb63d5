SPECIFICATION FairSpec
CONSTANTS
    None = None
    c1 = c1
    c2 = c2
    s1 = s1
    s2 = s2
    Chats = {c1, c2}
    Sessions = {s1, s2}
    MaxMessages <- MCMaxMessages
    MaxParts <- MCMaxParts
    Broken = {s1}
    Faults = {"telegram"}
    MaxCrashes = 1
INVARIANT ShownInOrder
PROPERTIES FollowedIsShown
