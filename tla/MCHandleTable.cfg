SPECIFICATION MCSpec
CONSTANTS
    NoObject = NoObject
    Objects = {a, b}
    ThreadObject = a
    ProcessObject = b
    MAX_COUNT = 3
    GenLimit = 4
    SlotModulus = 4
    IndexLimit = 8
    MaxWraps = 2
INVARIANTS
    FreeListOK
    StaleHandleNeedsWrap
PROPERTIES
    HandlesArrive
    AbstractSpec
VIEW MCView
