SPECIFICATION Spec
CONSTANTS
    HWIDs = {a, b}
    Procs = {p}
    Ops = {"wizard", "register", "reject", "delete", "reset", "setup", "rewrite", "recover", "takeover"}
    Killed = {"wizard", "setup", "register", "reject", "delete", "reset", "rewrite", "recover"}
    Faults = {"write", "loss"}
    MaxMade = 2
    NoVault = NoVault
    NoRow = NoRow
SYMMETRY Symmetry
INVARIANTS
    RowTellsTheTruth
PROPERTIES
    KeysInCustody
    ProvisionedOnPurpose
CHECK_DEADLOCK FALSE
