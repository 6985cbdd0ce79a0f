SPECIFICATION MCSpec
CONSTANTS
    p1 = p1
    p2 = p2
    m1 = m1
    m2 = m2
    w = w
    x = x
    c1 = c1
    c2 = c2
    cx = cx
    AppProcs = {p1}
    AppConns = {c1, cx}
    AppThreads = {m1, w, x}
    AppProcOf <- OneProcOf
    AppConnOf <- OneConnOf
    AppMainOf <- OneMainOf
    Null = Null
    None = None
    Procs = {p1, p2}
    Conns = {c1, c2}
    Threads <- SoloThreads
    ProcOf <- SoloProcOf
    ConnOf <- SoloConnOf
    MainOf <- SoloMainOf
    Chained = TRUE
    Faults = {"fail", "crash"}
    MaxRows = 5
    Files = {f, g}
    Calls = {c, d}
    Anchors = {good, other}
    Kinds = {"file", "anchored"}
    Mixes = {{"file"}, {"anchored"}}
    MaxBatch = 2
    MaxText = 2
    MaxTokens = 2
    MaxAltered = 1
    Texts = {u}
    MaxLeaves = 6
SYMMETRY Symmetry
INVARIANTS
    ChainSound
    ThreadsSound
    ValidMeansEarlier
    StampedFileOpens
    ProofsExact
CHECK_DEADLOCK FALSE
