SPECIFICATION Spec
CONSTANTS
    p = p
    q = q
    f = f
    g = g
    NoRow = NoRow
    Procs = {p}
    Files = {f}
    Terms = {"none", "undated", "over", "running", "unlimited"}
    Listings = {"Imha", "search"}
    Overlap = {}
    Faults = {"crash", "unlink"}
    MaxClock = 1
    MaxId = 2
    MaxQueue = 2
PROPERTIES
    HeldFileSurvives
    DueFileGoes
    PendingResumed
CHECK_DEADLOCK FALSE
