SPECIFICATION Spec
INVARIANTS
    
    CacheOK
PROPERTY
    IsPageMap
CHECK_DEADLOCK FALSE
