SPECIFICATION Spec
CONSTANTS
    s1 = s1
    s2 = s2
    r1 = r1
    r2 = r2
    Sessions = {s1, s2}
    Requests = {r1, r2}
    SessionOf <- TwoSessions
    None = None
    MaxTaps = 2
    MaxRestarts = 1
PROPERTY
    FeedbackReachesClaude
\* Each call asks once and each session is destroyed once: the system may stop.
CHECK_DEADLOCK FALSE
