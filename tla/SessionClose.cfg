SPECIFICATION Spec
CONSTANTS
    Streamable = {s1}
    Legacy = {}
    Requests = {r1, r2}
    Sweeps = {w1}
    Shutdown = down
    Calls = {c1, c2}
    None = None
    TTL = 0
    MaxTime = 1
    MaxRequests = 3
    MaxFaults = 1
    Outages = TRUE
SYMMETRY Symmetry
INVARIANTS
  StreamsSound
  ClosedStaysClosed
  CallsSummarised
CHECK_DEADLOCK FALSE
