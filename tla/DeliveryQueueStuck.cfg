SPECIFICATION LiveSpec
CONSTANTS
    Payloads <- TwoShort
    Kinds <- AllStrict
    MaxLive = 1
    MaxRetries = 5
    Backoff <- CodeBackoff
    Budget = 60
    SendTimes = {0, 10}
    None = None
    MaxCrashes = 0
    MaxFaults = 0
PROPERTY
    EveryEntryLeaves
