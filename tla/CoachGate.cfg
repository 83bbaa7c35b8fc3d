\* Three attempts outlast the lock by far; no symmetry, for liveness.
CONSTANTS
    Flows = {f1, f2}
    NoFlow = NoFlow
    LOCK_TTL = 4
    LEGACY_TTL = 6
    GEN_TIMEOUT = 3
    ATTEMPTS = 3
SPECIFICATION FairSpec
INVARIANTS
    ExclusiveUntilLoose
PROPERTIES
    ReviewsKeptUntilLoose
    Unblocks
