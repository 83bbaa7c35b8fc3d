CONSTANTS
    None = None
    MaxTime = 7
    MaxEvents = 3
    MaxInsights = 2
    ATTEMPTS = 2
    SCHEMA_ATTEMPTS = 2
    MaxDelay = 1
    Spiked = {1}
    Commands = {1, 2}
    BATCH = 2
    MAX_PER_OUTCOME = 2
    BASELINES = 2
    MaxClock = 1
    Runs = {1, 2}
    Role = "R"
    N_WINDOW = 1
    MaxUnread = 1
    MaxCommands = 4
    EARLY_END = 2
    MID_END = 2
    MARGIN = 1
    MaxHalf = 6
    MaxStory = 2
    OBJECTIVES <- MCOBJECTIVES
    Catalogue <- MCCatalogue
    Turrets <- MCTurrets
    GamesPlayed <- MCGamesPlayed
    Drafts <- MCDrafts
    Selections <- MCSelections
    APEX <- MCAPEX
    DIVISIONS <- MCDIVISIONS
    PageEnds <- MCPageEnds
    Days <- MCDays
    Matches <- MCMatches
    MILESTONES <- MCMILESTONES
    Histories <- MCHistories
    Ladders <- MCLadders
    HIGH <- MCHIGH
    LOW <- MCLOW
    Records <- MCRecords
    SCOPES <- MCSCOPES
    Sessions <- MCSessions
    Answers <- MCAnswers
    PERTURBATIONS <- MCPERTURBATIONS
    Payloads <- MCPayloads
    KeyParts <- MCKeyParts
    KeyNumbers <- MCKeyNumbers
    Insights <- MCInsights
SPECIFICATION Spec
INVARIANTS
     NoHindsight UnitsFollowSentence VerdictsAreFair
    GenerationIsTrue GamesCountOnce JoinsAreTrue
    SnapshotIsFair TrainingIsClean RecordsAgree
CHECK_DEADLOCK FALSE
