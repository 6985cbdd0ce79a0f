\* Three runs on one machine, one document, the failures that leave a lock row, a copy
\* or a digest behind (CheckoutErrors has the others).  A sweep that breaks a lock needs
\* three runs: the dead holder, the sweeper and the new holder.
CONSTANTS
    s1 = s1
    s2 = s2
    s3 = s3
    h1 = h1
    h2 = h2
    Sessions = {s1, s2, s3}
    Hosts = {h1}
    HostOf <- OneHost
    Files = {f1}
    Edits = {e1, e2}
    Faults = {"allocate", "shred", "busy", "pidreuse"}
    None = None
SPECIFICATION Spec
INVARIANTS
    OneEditorPerFile
    DigestNotAhead
PROPERTIES
    ImplementsExclusiveEdit
SYMMETRY RunSymmetry
CHECK_DEADLOCK FALSE
