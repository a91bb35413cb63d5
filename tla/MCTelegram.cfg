SPECIFICATION FairTelegramSpec
CONSTANTS
    None = None
    cA = cA
    t1 = t1
    k1 = k1
    p1 = p1
    p2 = p2
    x1 = x1
    x2 = x2
    Chats <- MCChats
    Jobs <- MCJobs
    ChatOf <- MCChatOf
    MaxMessage = 12
    SafeChunk = 10
    Numbering = 1
    SmallTexts <- MCSmallTexts
    Kind <- MCKind
    Strangers <- MCStrangers
    Chatless <- MCChatless
    LockOn = TRUE
    BridgeModes <- MCModes
    Answers <- MCAnswers
    Notice <- MCNotice
    BridgeFailures <- MCBridgeFailures
    StoreFails = TRUE
    Window = 1
    MaxTime = 2
INVARIANTS DeliveredWhole TextRunsOnce StrangersAreOnlyCounted
PROPERTIES AnswersDoNotMix EveryPressIsAnswered
CHECK_DEADLOCK FALSE
