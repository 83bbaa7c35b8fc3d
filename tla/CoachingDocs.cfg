\* Two requests of a visitor at a time, two reviews, two answers, two pushes.
\* The bounds stop every behaviour: CHECK_DEADLOCK FALSE.
CONSTANTS
    MAX_FEEDBACK = 2
    Requests = {r1, r2}
    MaxReviews = 2
    MaxAnswers = 2
    MaxVotes = 5
    MaxPushes = 2
SPECIFICATION Spec
CHECK_DEADLOCK FALSE
INVARIANTS
    NoOrphans
    VoteBudget
PROPERTIES
    DocumentsKept
