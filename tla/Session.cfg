SPECIFICATION MCSpec
CONSTANTS
    a = a
    b = b
    Tokens <- MCTokens
    None = None
    Zero = Zero
    Faults = {"db"}
    Procs = {p}
    MaxAttempts = 2
    Backoff <- MCBackoff
    MaxNow = 3
    MaxBack = 1
INVARIANTS
    
    NoCodeTwice
PROPERTIES
    OwnWayOut
    
    PulledTokenLocks
    LostAuthorityLocks
    IdleSessionLocks
    WaitedOut
    FormComesBack
CHECK_DEADLOCK FALSE
