SPECIFICATION MCSpec
CONSTANTS
    NumCores = 2
    MAX_SLICE_LENGTH = 2
    MinDelay = 1
    Overshoot = 1
    once = once
    timer = timer
    Plain = {once}
    Timers = {timer}
    Interval <- Every2
    Delays = {0, 2}
    MaxTicks = 6
    MaxEvents = 2
INVARIANTS
    EventsOnTime
    NoDrift
    CoresTogether
    ArbiterConsistent
PROPERTIES
    ClockIsExecution
    SignalWakesBest
