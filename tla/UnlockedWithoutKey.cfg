SPECIFICATION Spec
CONSTANTS
    a = a
    b = b
    Tokens <- MCTokens
    None = None
    Zero = Zero
    Faults = {}
INVARIANTS
    UnlockedHasKey
CHECK_DEADLOCK FALSE
