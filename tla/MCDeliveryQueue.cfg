SPECIFICATION LiveSpec
CONSTANTS
    Payloads <- TwoMessages
    Kinds <- AnyThenBlind
    MaxLive = 1
    MaxRetries = 1
    Backoff <- ShortBackoff
    Budget = 4
    SendTimes = {1}
    None = None
    MaxCrashes = 1
    MaxFaults = 1
INVARIANTS
    NothingLost
    InOrder
    CopiesHaveCauses
    GivenUpWasTried
PROPERTY
    EveryEntryLeaves
