--------------------------- MODULE MCModelPipeline ---------------------------
(* Small instances of ModelPipeline for TLC. *)
EXTENDS ModelPipeline, TLC
=============================================================================
