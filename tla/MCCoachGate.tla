----------------------------- MODULE MCCoachGate -----------------------------
(* Small instances of CoachGate for TLC. *)
EXTENDS CoachGate, TLC


=============================================================================
