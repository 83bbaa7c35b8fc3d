----------------------------- MODULE MCRiotCollect -----------------------------
EXTENDS RiotCollect
=============================================================================
