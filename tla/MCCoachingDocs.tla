---------------------------- MODULE MCCoachingDocs ----------------------------
(* Small instances of CoachingDocs for TLC. *)
EXTENDS CoachingDocs
=============================================================================
