SPECIFICATION Spec
CONSTANTS
    Projects = {p1, p2, p3, p4}
    Phones = {o1, o2}
    None = None
    MaxSessions = 3
    MaxIds = 4
    MaxStops = 1
    MaxCrashes = 2
INVARIANTS
    MapMirrorsRows
    RestorableRows
    FocusIsMirrored
    FocusIsOwn
PROPERTIES
    FocusIsKept
    ImplementsRegistry
\* MaxIds bounds the sessions that can be created: the system may stop.
CHECK_DEADLOCK FALSE
SYMMETRY NameSymmetry
