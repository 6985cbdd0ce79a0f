SPECIFICATION Spec
CONSTANTS
    p = p
    q = q
    f = f
    g = g
    NoRow = NoRow
    Procs = {p, q}
    Files = {f}
    Terms = {}
    Listings = {"Imha"}
    Overlap = {}
    Faults = {"crash", "db"}
    MaxClock = 1
    MaxId = 2
    MaxQueue = 2
INVARIANTS
    HalfDoneIsQueued
SYMMETRY Windows
CHECK_DEADLOCK FALSE
