SPECIFICATION FairSpec
CONSTANTS
    Streamable = {s1}
    Legacy = {l1}
    Requests = {r1, r2}
    Sweeps = {w1}
    Shutdown = down
    Calls = {c1}
    None = None
    TTL = 0
    MaxTime = 1
    MaxRequests = 2
    MaxFaults = 1
    Outages = FALSE
PROPERTIES ExpiredGoes ShutdownCompletes
CHECK_DEADLOCK FALSE
