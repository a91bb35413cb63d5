SPECIFICATION FairQueuesSpec
CONSTANTS
    None = None
    cA = cA
    cB = cB
    a1 = a1
    a2 = a2
    a3 = a3
    b1 = b1
    b2 = b2
    e1 = e1
    e2 = e2
    e3 = e3
    f1 = f1
    Chats <- MCChats
    Jobs <- MCJobs
    ChatOf <- MCChatOf
    Events <- MCEvents
    EventChat <- MCEventChat
INVARIANTS TypeOK MutualExclusion NoLostWakeup EntryIffHeld
PROPERTIES EverybodyServed ImplementsFifoMutex ChainImplementsFifoMutex
