------------------------------ MODULE NoValue ------------------------------
(* What stands for an absent value (None of Python) in the modules about   *)
(* the games and the reviews.                                              *)
CONSTANT None
=============================================================================
