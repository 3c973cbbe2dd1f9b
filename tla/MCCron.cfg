SPECIFICATION Spec
CONSTANTS
    remind = remind
    poll = poll
    Jobs = {remind, poll}
    Kind <- OneAndEvery
    Kept = {remind}
    Limited = {poll}
    MaxConcurrentRuns = 1
    Absent = Absent
    None = None
    MaxTroubles = 1
INVARIANTS
    NeverTwice
    TimerIsSet
PROPERTIES
    DueJobsAreKept
