\* The bound on the commands stops every behaviour: CHECK_DEADLOCK FALSE.
\* Two players, two patches, one match each per patch, one legacy document.
SPECIFICATION Spec
CONSTANTS
  me = me
  other = other
  Players <- MCPlayers
  Me <- me
  LastPatch = 2
  Checkpoint = 1
  MaxKills = 1
  MaxCommands = 3
  Matches <- MCMatches
  Legacy <- MCLegacy
INVARIANTS
  RowsKept
  
  PatchesApart
  
CHECK_DEADLOCK FALSE
