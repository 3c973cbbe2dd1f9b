SPECIFICATION LiveSpec
CONSTANTS
    web = web
    a = a
    b = b
    Projects = {web}
    Paths = {a, b}
    Inputs <- TwoCalls
    Threshold = 2
    MaxRestarts = 1
    None = None
    MaxCrashes = 1
    MaxFaults = 1
INVARIANTS
    Reachable
    NoStrayPath
    RowsTellTunnels
    CanRestart
PROPERTIES
    SessionTunnelsEnd
CHECK_DEADLOCK FALSE
