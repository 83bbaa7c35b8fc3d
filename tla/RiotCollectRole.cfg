SPECIFICATION Spec
CONSTANTS
    Position = {"BOTTOM", "UTILITY"}
    OpenRole = {}
    PROFILE_GAMES = 1
    TARGET_ROLE_GAMES = 2
    MAX_HISTORY_SCANNED = 3
    MAX_FETCH_FAILURES = 0
    DEADLINE = 1
    ATTEMPTS = 2
    SLOW = 1
    MaxPlayed = 4
INVARIANT
    RoleIsMostPlayed
