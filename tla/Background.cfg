SPECIFICATION MCSpec
CONSTANTS
    d1 = d1
    d2 = d2
    x = x
    Docs = {d1, d2}
    Paths = {x}
    Path <- OneName
    Tokens = {a}
    Zero = Zero
    Threads = 2
    Faults = {"encrypt", "db", "vanish"}
    MaxTotal = 2
    Files = {f, h}
    Sticks = {a, b}
    Session = a
    SameKey = {a, b}
    Owners = {b}
    FlushEvery = 2
    MinFiles = 2
    Spared = {h}
    Week = 1
    MaxQuits = 1
    NoToken = none
    MaxRows = 4
    MaxAnchors = 2
    MaxDays = 1
INVARIANTS
    AlarmHasCause
    ToldAtTheEnd
PROPERTIES
    BatchEnds
    VerdictCatchesUp
    
    GateClosesOnVerdicts
CHECK_DEADLOCK FALSE
