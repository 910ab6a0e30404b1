SPECIFICATION OneSpec
CONSTANTS
    None = None
    t1 = t1
    t2 = t2
    t3 = t3
    m1 = m1
    m2 = m2
    e1 = e1
    e2 = e2
    s1 = s1
    Threads = {t1,t2}
    Mutexes = {}
    Events = {e1}
    Semaphores = {}
    NumCores = 2
    CoreOf <- TwoCores
    PrioLowest = 2
    CreatePrio <- ThreePrio
    Started = {t1,t2}
    ResetType <- EventTypes
    MaxCount <- MaxTwo
    InitialCount <- OneFree
    Magic = {}
    Calls = {"WaitSynchronization1", "SignalEvent"}
    WaitLists <- OneEvent
    Timeouts = {"forever"}
    ReleaseCounts = {1, 2}
    NewPriorities = {0}
    MaxLock = 1
INVARIANT
    WaitResultDelivered
