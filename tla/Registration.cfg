\* A public account and a curated one.
CONSTANTS
  Slugs = {s1, s2}
  NoSlug = NoSlug
  Curated = {s2}
  RETRY_AFTER_ERROR = 1
  REFRESH_COOLDOWN = 2
  FRESH_WINDOW = 3
  STALENESS = 1
  JOB_TTL = 2
  SECOND = 1
  MaxNow = 3
  MaxCuts = 1
SPECIFICATION RegSpec
PROPERTIES
  CooldownKept
CHECK_DEADLOCK FALSE
