------------------------------- MODULE MCBatch -------------------------------
(* Two recipe files of up to three runs in all. *)
EXTENDS Batch
=============================================================================
