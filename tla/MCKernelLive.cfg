SPECIFICATION LiveSpec
CONSTANTS
    None = None
    t1 = t1
    t2 = t2
    t3 = t3
    m1 = m1
    m2 = m2
    e1 = e1
    e2 = e2
    s1 = s1
    Threads = {t1,t2}
    Mutexes = {m1}
    Events = {e1}
    Semaphores = {}
    NumCores = 1
    CoreOf <- OneCore
    PrioLowest = 2
    CreatePrio <- ThreePrio
    Started = {t1,t2}
    ResetType <- Sticky
    MaxCount <- MaxTwo
    InitialCount <- OneFree
    Magic = {}
    Calls = {"WaitSynchronization1", "ReleaseMutex", "SleepThread", "SignalEvent", "ClearEvent"}
    WaitLists <- MutexOrEvent
    Timeouts = {"finite","forever"}
    ReleaseCounts = {1, 2}
    NewPriorities = {0}
    MaxLock = 1
PROPERTIES
    
    TimeoutsEnd
