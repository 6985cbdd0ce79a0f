\* Two runs on one machine, two documents: crashes and startups, quitting under
\* failures of every step; no symmetry.
CONSTANTS
    s1 = s1
    s2 = s2
    s3 = s3
    h1 = h1
    h2 = h2
    Sessions = {s1, s2}
    Hosts = {h1}
    HostOf <- OneHost
    Files = {f1, f2}
    Edits = {e1}
    Faults = {"decrypt", "write", "encrypt", "unreadable"}
    None = None
SPECIFICATION FairSpec

    
    
PROPERTIES
    StaleLockReleased
    QuitTerminates
CHECK_DEADLOCK FALSE
