CONSTANTS
    a = a
    b = b
    c = c
    Slug <- MCSlug
    Curated <- MCCurated
    WithIcon <- MCWithIcon
    MaxRuns = 3
    MaxScripts = 2
    MaxStops = 1
SPECIFICATION Spec
CHECK_DEADLOCK FALSE
INVARIANTS
    IndexMatches
PROPERTIES
    FieldsKept
