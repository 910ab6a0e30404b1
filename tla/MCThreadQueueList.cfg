SPECIFICATION FairSpec
CONSTANTS
    Threads = {t1, t2, t3}
    NumQueues = 4
    None = None
    Idle = Idle
    Null = Null
    UnlinkedTag = UnlinkedTag
PROPERTIES
    IsPriorityQueue
    LoopsEnd
CHECK_DEADLOCK TRUE
