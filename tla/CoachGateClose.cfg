CONSTANTS
    Flows = {f1, f2}
    NoFlow = NoFlow
    LOCK_TTL = 4
    LEGACY_TTL = 0
    GEN_TIMEOUT = 3
    ATTEMPTS = 3
SPECIFICATION GateSpec
PROPERTIES
    LockKeptUntilClose
