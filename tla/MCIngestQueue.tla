---------------------------- MODULE MCIngestQueue ----------------------------
(* Small instances of IngestQueue for TLC. *)
EXTENDS IngestQueue, TLC


=============================================================================
