\* Two tokens, of which one was set up before the key check value existed; a
\* recovery whose row the database refuses, and a login meanwhile.
SPECIFICATION Spec
CONSTANTS
    HWIDs = {a, b}
    Procs = {p}
    Ops = {"setup", "recover"}
    Killed = {}
    Faults = {"write"}
    MaxMade = 3
    NoVault = NoVault
    NoRow = NoRow
INVARIANTS
    CheckValueIsCertain
CHECK_DEADLOCK FALSE
