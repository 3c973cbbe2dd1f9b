SPECIFICATION Spec
CONSTANTS
    Projects = {p1, p2}
    Phones = {o1, o2}
    None = None
    MaxSessions = 2
    MaxIds = 3
    MaxStops = 2
    MaxCrashes = 1
INVARIANT
    FocusIsMirrored
\* MaxIds bounds the sessions that can be created: the system may stop.
CHECK_DEADLOCK FALSE
