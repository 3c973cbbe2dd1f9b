SPECIFICATION LiveSpec
CONSTANTS
    MaxRuns = 3
    s1 = s1
    s2 = s2
    main = main
    nested = nested
    Sessions <- TwoSessions
    Globals <- MainAndNested
    Limits = {0, 2}
    None = None
    MaxReloads = 1
    MaxResets = 1
INVARIANTS
    SlotsAreHeld
    NoIdleLane
PROPERTIES
    ImplementsSessionRuns
    EveryRunEnds
CHECK_DEADLOCK FALSE
