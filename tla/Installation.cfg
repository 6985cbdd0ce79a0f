SPECIFICATION MCSpec
CONSTANTS
    a = a
    b = b
    Tokens = {a, b}
    NoToken = nobody
    MaxCrashes = 2
    Procs = {p}
    Probe = probe
    Values = {v1, v2}
    Canary = canary
    Nothing = nothing
    MaxClears = 1
    Users = {a, b}
    Holders = {a}
    Files = {f, g}
    Zero = zero
    MaxBackups = 1
    MaxVersion = 2
    Esik = 1
INVARIANTS
    
    NoStaleCopy
    QuietMeansBackup
    RestoredAsSealed
PROPERTIES
    SecretsSurvive
    KeepsPromise
CHECK_DEADLOCK FALSE
