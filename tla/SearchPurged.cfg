SPECIFICATION Spec
CONSTANTS
    p = p
    q = q
    f = f
    g = g
    NoRow = NoRow
    Procs = {p}
    Files = {f}
    Terms = {}
    Listings = {"Imha", "search"}
    Overlap = {}
    Faults = {}
    MaxClock = 1
    MaxId = 2
    MaxQueue = 3
INVARIANTS
    CountdownSparesApproved
CHECK_DEADLOCK FALSE
