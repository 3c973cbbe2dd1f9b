SPECIFICATION LiveSpec
CONSTANTS
    MaxRuns = 3
    Usages <- AtLimit
    ContextLimit = 2
    BlockPercent = 95
    None = None
INVARIANTS
    Watched
    TimersBelong
    EndedSessionIsQuiet
PROPERTIES
    EveryRunSettles
    StopEnds
CHECK_DEADLOCK FALSE
