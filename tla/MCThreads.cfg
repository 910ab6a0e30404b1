SPECIFICATION MCSpec
CONSTANTS
    Capacity = 4
    IndexRange = 8
    MaxPushed = 9
    Writers = {"cpu", "io"}
    MaxPushes = 2
INVARIANT
    ReadsInOrder
PROPERTIES
    IsChannel
    PushedPopped
    PoolServes
    
CHECK_DEADLOCK FALSE
