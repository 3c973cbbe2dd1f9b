SPECIFICATION LiveSpec
CONSTANTS
    web = web
    api = api
    lost = lost
    dev = dev
    Projects = {web, api, lost}
    Commands = {dev}
    Missing = {lost}
    HasPort = {web, lost}
    FirstPort = 3000
    MaxPortSearch = 2
    MaxRequests = 2
    None = None
    Other = Other
    MaxCrashes = 1
INVARIANTS
    ListIsExact
    NoTwins
    PortsApart
    QuietEnd
PROPERTIES
    EveryRequestEnds
CHECK_DEADLOCK FALSE
