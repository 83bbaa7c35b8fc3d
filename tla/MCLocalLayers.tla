--------------------------- MODULE MCLocalLayers ---------------------------
EXTENDS LocalLayers

CONSTANTS me, other

MCPlayers == {me, other}
MCMatches == {<<me, 1>>, <<me, 2>>, <<other, 1>>}
MCLegacy == {<<other, 1>>}
=============================================================================
