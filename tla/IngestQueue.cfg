\* Two players, a clock that outlasts the purge and a loss of the instance.  No
\* symmetry: TLC does not support it for liveness.
CONSTANTS
  Slugs = {s1, s2}
  NoSlug = NoSlug
  RETRY_AFTER_ERROR = 1
  REFRESH_COOLDOWN = 3
  JOB_TTL = 4
  SECOND = 2
  MaxNow = 6
  MaxCuts = 1
SPECIFICATION FairSpec
INVARIANTS
  Shape
  StatusExplained
PROPERTIES
  CollectionSpacing
  ImplementsFairFifo
  QueueDrains
CHECK_DEADLOCK FALSE
