CONSTANTS
    PROFILE_GAMES = 1
    BUNDLE_GAMES = 2
    MaxPlayed = 3
    MaxFailures = 1
    MaxPuts = 3
SPECIFICATION FairSpec
INVARIANTS
    VisibleHasRaw
    BundleFollows
    ServiceInOrder
PROPERTIES
    ServiceKeepsGames
    ProfileBecomesVisible
