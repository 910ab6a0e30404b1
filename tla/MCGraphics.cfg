SPECIFICATION Spec
INVARIANTS
    BufferFree
    FrameUntouched
PROPERTIES
    WaitsKept
    CallsReturn
    FramesReturn
CHECK_DEADLOCK FALSE
