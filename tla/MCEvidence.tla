------------------------------ MODULE MCEvidence ------------------------------
(* The evidence of one session of any kind, for what its documentation says of a capture. *)
EXTENDS Evidence
===============================================================================
